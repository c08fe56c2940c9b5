--------------------------- MODULE MembershipProofs ---------------------------
(***************************************************************************)
(* Theorems about Membership, for any number of users, requests and        *)
(* invites.                                                                *)
(***************************************************************************)
EXTENDS Membership, FiniteSetTheorems, TLAPS

\* What was asked for fits its record.
LEMMA MemoType ==
    ASSUME TypeOK, NEW q \in Request, NEW memo \in Memo, Begin(q, memo),
           Fits(memo)
    PROVE  /\ req' \in [Request -> Memo]
           /\ overlap' \in BOOLEAN
           /\ asked' \in 0..MaxRequests
           /\ \A p \in Request : Fits(req'[p])
  BY MembershipAssumption DEF TypeOK, Begin, Fits

\* A request that is free asks for nothing.
LEMMA FreeType == Free \in Memo /\ Fits(Free)
  BY MembershipAssumption DEF Free, Fits, Memo, Step

\* An answered request leaves an empty record.
LEMMA DoneType ==
    ASSUME TypeOK, NEW q \in Request, Done(q)
    PROVE  /\ req' \in [Request -> Memo]
           /\ overlap' \in BOOLEAN
           /\ asked' \in 0..MaxRequests
           /\ \A p \in Request : Fits(req'[p])
  BY FreeType DEF TypeOK, Done, meter, Fits

\* A new request, of any kind, keeps the types.
LEMMA AskType ==
    ASSUME TypeOK, NEW q \in Request, Ask(q)
    PROVE  TypeOK'
<1>1. ASSUME NEW u \in User, NEW v \in User, AskRemove(q, u, v) PROVE TypeOK'
  <2>. DEFINE memo == [Free EXCEPT !.at = "reading", !.by = u, !.on = v]
  <2>1. memo \in Memo /\ Fits(memo)
    BY MembershipAssumption DEF Free, Fits, Memo, Step, TypeOK
  <2>2. Begin(q, memo)
    BY <1>1 DEF AskRemove
  <2>. HIDE DEF memo
  <2>. QED
    BY <1>1, <2>1, <2>2, MemoType DEF AskRemove, TypeOK, members, invites
<1>2. ASSUME NEW u \in User, NEW v \in User, NEW new \in Roles, AskChange(q, u, v, new)
      PROVE  TypeOK'
  <2>. DEFINE memo == [Free EXCEPT !.at = "reading", !.by = u, !.on = v, !.new = new]
  <2>1. memo \in Memo /\ Fits(memo)
    BY MembershipAssumption DEF Free, Fits, Memo, Step, TypeOK
  <2>2. Begin(q, memo)
    BY <1>2 DEF AskChange
  <2>. HIDE DEF memo
  <2>. QED
    BY <1>2, <2>1, <2>2, MemoType DEF AskChange, TypeOK, members, invites
<1>3. ASSUME NEW u \in User, NEW v \in User, NEW new \in Roles, AskInvite(q, u, v, new)
      PROVE  TypeOK'
  <2>. DEFINE memo == [Free EXCEPT !.at = "looking", !.by = u, !.on = v, !.new = new]
  <2>1. memo \in Memo /\ Fits(memo)
    BY MembershipAssumption DEF Free, Fits, Memo, Step, TypeOK
  <2>2. Begin(q, memo)
    BY <1>3 DEF AskInvite
  <2>. HIDE DEF memo
  <2>. QED
    BY <1>3, <2>1, <2>2, MemoType DEF AskInvite, TypeOK, members, invites
<1>4. ASSUME NEW u \in User, NEW i \in Invite, AskJoin(q, u, i) PROVE TypeOK'
  <2>. DEFINE memo == [Free EXCEPT !.at = IF overdue[i] THEN "expiring" ELSE "checking",
                                   !.by = u, !.inv = i]
  <2>1. memo \in Memo /\ Fits(memo)
    BY MembershipAssumption DEF Free, Fits, Memo, Step, TypeOK
  <2>2. Begin(q, memo)
    BY <1>4 DEF AskJoin
  <2>. HIDE DEF memo
  <2>. QED
    BY <1>4, <2>1, <2>2, MemoType DEF AskJoin, TypeOK, members, invites
<1>. QED
  BY <1>1, <1>2, <1>3, <1>4 DEF Ask

\* A request that goes on keeps its record in shape.
LEMMA GoType ==
    ASSUME TypeOK, NEW q \in Request, NEW memo \in Memo,
           req' = [req EXCEPT ![q] = memo], UNCHANGED meter,
           Fits(memo),
           UNCHANGED <<members, invites>>
    PROVE  TypeOK'
  BY DEF TypeOK, Fits, meter, members, invites

\* A statement of a request in flight keeps the types.
LEMMA ServeType ==
    ASSUME TypeOK, NEW q \in Request, Serve(q)
    PROVE  TypeOK'
<1>0. req[q] \in Memo
  BY DEF TypeOK
<1>1. CASE Read(q)
  <2>1. CASE Done(q)
    BY <1>1, <2>1, DoneType DEF Read, TypeOK, members, invites
  <2>2. CASE ~Done(q)
    <3>. DEFINE memo == req[q]
                saw  == role[memo.on]
                next == [memo EXCEPT !.saw = saw, !.row = seat[memo.on],
                                     !.at = IF saw = "admin" /\ memo.new # "admin"
                                            THEN "counting" ELSE "writing"]
    <3>1. next \in Memo /\ Fits(next)
      BY <1>0 DEF TypeOK, Fits, Memo, Step
    <3>2. req' = [req EXCEPT ![q] = next] /\ UNCHANGED <<meter, members, invites>>
      BY <1>1, <2>2 DEF Read
    <3>. HIDE DEF next
    <3>. QED
      BY <3>1, <3>2, GoType
  <2>. QED
    BY <2>1, <2>2
<1>2. CASE Count(q)
  <2>1. CASE Done(q)
    BY <1>2, <2>1, DoneType DEF Count, TypeOK, members, invites
  <2>2. CASE ~Done(q)
    <3>. DEFINE next == [req[q] EXCEPT !.at = "writing"]
    <3>1. next \in Memo /\ Fits(next)
      BY <1>0 DEF Fits, Memo, Step
    <3>2. req' = [req EXCEPT ![q] = next] /\ UNCHANGED <<meter, members, invites>>
      BY <1>2, <2>2 DEF Count
    <3>. HIDE DEF next
    <3>. QED
      BY <3>1, <3>2, GoType
  <2>. QED
    BY <2>1, <2>2
<1>3. CASE Write(q)
  <2>1. role' \in [User -> Roles \cup {"none"}]
    BY <1>0, <1>3 DEF Write, TypeOK, Memo
  <2>. QED
    BY <1>3, <2>1, DoneType DEF Write, TypeOK, invites
<1>4. CASE LookUp(q)
  <2>1. PICK i \in Pending(req[q].on) \cup {0} :
            req' = [req EXCEPT ![q].at = "offering", ![q].inv = i]
    BY <1>4 DEF LookUp
  <2>. DEFINE next == [req[q] EXCEPT !.at = "offering", !.inv = i]
  <2>2. next \in Memo /\ Fits(next)
    BY <1>0, <1>4, <2>1 DEF LookUp, TypeOK, Fits, Memo, Step, Pending
  <2>3. req' = [req EXCEPT ![q] = next]
    BY <1>0, <2>1 DEF TypeOK, Memo
  <2>. HIDE DEF next
  <2>. QED
    BY <1>4, <2>2, <2>3, GoType DEF LookUp
<1>5. CASE Offer(q)
  <2>1. /\ offer' \in [Invite -> {"absent", "pending", "accepted", "revoked", "expired"}]
        /\ to' \in [Invite -> User]
        /\ grant' \in [Invite -> Roles]
    <3>1. CASE UNCHANGED <<offer, to, grant>>
      BY <3>1 DEF TypeOK
    <3>2. CASE ~UNCHANGED <<offer, to, grant>>
      <4>1. req[q].new \in Roles
        BY <1>5 DEF Offer, TypeOK, Fits
      <4>. QED
        BY <1>0, <1>5, <3>2, <4>1 DEF Offer, TypeOK, Memo
    <3>. QED
      BY <3>1, <3>2
  <2>. QED
    BY <1>5, <2>1, DoneType DEF Offer, TypeOK, members
<1>6. CASE CheckMember(q)
  <2>. DEFINE next == [req[q] EXCEPT !.at = IF role[req[q].by] = "none"
                                            THEN "joining" ELSE "confirming"]
  <2>1. next \in Memo /\ Fits(next)
    BY <1>0, <1>6 DEF Fits, Memo, Step, CheckMember, TypeOK
  <2>2. req' = [req EXCEPT ![q] = next] /\ UNCHANGED <<meter, members, invites>>
    BY <1>6 DEF CheckMember
  <2>. HIDE DEF next
  <2>. QED
    BY <2>1, <2>2, GoType
<1>7. CASE Close(q)
  BY <1>7, DoneType DEF Close, TypeOK, Fits, members
<1>8. CASE Join(q)
  <2>1. req[q].inv \in Invite /\ req[q].by \in User
    BY <1>0, <1>8 DEF Join, TypeOK, Fits, Memo
  <2>. QED
    BY <1>8, <2>1, DoneType DEF Join, TypeOK, members
<1>9. CASE Lost(q)
  BY <1>9, DoneType DEF Lost, TypeOK, members, invites
<1>. QED
  BY <1>1, <1>2, <1>3, <1>4, <1>5, <1>6, <1>7, <1>8, <1>9 DEF Serve

\* Any step keeps the types.
LEMMA NextType == TypeOK /\ [Next]_vars => TypeOK'
<1>. SUFFICES ASSUME TypeOK, [Next]_vars PROVE TypeOK'
  OBVIOUS
<1>1. ASSUME NEW q \in Request, Ask(q) \/ Serve(q) PROVE TypeOK'
  BY <1>1, AskType, ServeType
<1>2. ASSUME NEW i \in Invite, Overdue(i) PROVE TypeOK'
  BY <1>2 DEF Overdue, TypeOK, members, meter
<1>3. CASE UNCHANGED vars
  BY <1>3 DEF vars, members, invites, meter, TypeOK
<1>. QED
  BY <1>1, <1>2, <1>3 DEF Next

\* A new workspace has values of the types.
LEMMA InitType == Init => TypeOK
<1>. SUFFICES ASSUME Init PROVE TypeOK
  OBVIOUS
<1>1. req \in [Request -> Memo] /\ \A q \in Request : Fits(req[q])
  BY FreeType DEF Init
<1>2. role \in [User -> Roles \cup {"none"}] /\ grant \in [Invite -> Roles]
  BY DEF Init, Roles
<1>3. /\ seat \in [User -> Nat] /\ to \in [Invite -> User]
      /\ overdue \in [Invite -> BOOLEAN] /\ admitted \in [Invite -> Nat]
  BY MembershipAssumption DEF Init
<1>4. asked \in 0..MaxRequests
  BY MembershipAssumption DEF Init
<1>5. overlap \in BOOLEAN
  BY DEF Init
<1>6. offer \in [Invite -> {"absent", "pending", "accepted", "revoked", "expired"}]
  BY DEF Init
<1>. QED
  BY <1>1, <1>2, <1>3, <1>4, <1>5, <1>6 DEF TypeOK

\* The tables and the requests in flight hold values of their types.
THEOREM TypeCorrect == Spec => []TypeOK
  BY InitType, NextType, PTL DEF Spec

-------------------------------------------------------------------------------
(* Invites admit their addressees, however requests race                       *)

\* No step admits anybody but the addressee of an invite.
LEMMA InvitedNext == TypeOK /\ InvitedInv /\ [Next]_vars => InvitedInv'
<1>. SUFFICES ASSUME TypeOK, InvitedInv, [Next]_vars PROVE InvitedInv'
  OBVIOUS
<1>. USE DEF InvitedInv, OnlyTheInvited
<1>1. ASSUME NEW q \in Request, Ask(q) PROVE InvitedInv'
  <2>1. UNCHANGED <<role, offer, to, admitted>>
    BY <1>1 DEF Ask, AskRemove, AskChange, AskInvite, AskJoin, members, invites
  <2>2. \A p \in Request : req'[p] = req[p] \/ p = q
    BY <1>1 DEF Ask, AskRemove, AskChange, AskInvite, AskJoin, Begin, TypeOK
  <2>3. /\ req'[q].at \in {"expiring", "checking", "joining", "confirming"}
              => offer[req'[q].inv] # "absent"
        /\ req'[q].at \in {"checking", "joining", "confirming"}
              => to[req'[q].inv] = req'[q].by
    <3>1. CASE \E u \in User, i \in Invite : AskJoin(q, u, i)
      <4>1. PICK u \in User, i \in Invite : AskJoin(q, u, i)
        BY <3>1
      <4>2. /\ req'[q].at = IF overdue[i] THEN "expiring" ELSE "checking"
            /\ req'[q].inv = i /\ req'[q].by = u
        BY <4>1 DEF AskJoin, Begin, TypeOK, Free
      <4>. QED
        BY <4>1, <4>2 DEF AskJoin, Usable, MayUse
    <3>2. CASE ~\E u \in User, i \in Invite : AskJoin(q, u, i)
      <4>1. req'[q].at \in {"reading", "looking"}
        <5>1. CASE \E u, v \in User : AskRemove(q, u, v)
          BY <5>1 DEF AskRemove, Begin, TypeOK, Free
        <5>2. CASE \E u, v \in User, new \in Roles : AskChange(q, u, v, new)
          BY <5>2 DEF AskChange, Begin, TypeOK, Free
        <5>3. CASE \E u, v \in User, new \in Roles : AskInvite(q, u, v, new)
          BY <5>3 DEF AskInvite, Begin, TypeOK, Free
        <5>. QED
          BY <1>1, <3>2, <5>1, <5>2, <5>3 DEF Ask
      <4>. QED
        BY <4>1
    <3>. QED
      BY <3>1, <3>2
  <2>. QED
    BY <2>1, <2>2, <2>3
<1>2. ASSUME NEW q \in Request, Read(q) \/ Count(q) \/ Write(q) \/ LookUp(q) \/ Lost(q)
      PROVE  InvitedInv'
  <2>1. UNCHANGED <<offer, to, admitted>>
    BY <1>2 DEF Read, Count, Write, LookUp, Lost, members, invites
  <2>2. \A p \in Request : req'[p] = req[p] \/ p = q
    BY <1>2 DEF Read, Count, Write, LookUp, Lost, Done, TypeOK
  <2>3. req'[q].at \notin {"expiring", "checking", "joining", "confirming"}
    <3>1. CASE req' = [req EXCEPT ![q] = Free]
      BY <3>1 DEF TypeOK, Free
    <3>2. CASE req' # [req EXCEPT ![q] = Free]
      <4>1. req[q] \in Memo
        BY DEF TypeOK
      <4>2. CASE Read(q)
        <5>. DEFINE saw == role[req[q].on]
        <5>1. req'[q] = [req[q] EXCEPT !.saw = saw, !.row = seat[req[q].on],
                                       !.at = IF saw = "admin" /\ req[q].new # "admin"
                                              THEN "counting" ELSE "writing"]
          BY <3>2, <4>2 DEF Read, Done, TypeOK
        <5>. HIDE DEF saw
        <5>2. req'[q].at \in {"counting", "writing"}
          BY <4>1, <5>1 DEF Memo
        <5>. QED
          BY <5>2
      <4>3. CASE Count(q) \/ LookUp(q)
        BY <3>2, <4>1, <4>3 DEF Count, LookUp, Done, TypeOK, Memo
      <4>. QED
        BY <1>2, <3>2, <4>2, <4>3 DEF Write, Lost, Done
    <3>. QED
      BY <3>1, <3>2
  <2>4. \A u \in User : role'[u] # "none" => role[u] # "none"
    BY <1>2 DEF Read, Count, Write, LookUp, Lost, TypeOK, members
  <2>. QED
    BY <2>1, <2>2, <2>3, <2>4
<1>3. ASSUME NEW q \in Request, Offer(q) PROVE InvitedInv'
  <2>1. \A p \in Request : req'[p] = req[p] \/ (p = q /\ req'[p] = Free)
    BY <1>3 DEF Offer, Done, TypeOK
  <2>2. \A i \in Invite : offer[i] # "absent" => offer'[i] # "absent" /\ to'[i] = to[i]
    BY <1>3 DEF Offer, TypeOK
  <2>3. UNCHANGED <<role, admitted>>
    BY <1>3 DEF Offer, members
  <2>4. \A p \in Request :
          req[p].at \in {"expiring", "checking", "joining", "confirming"}
            => req[p].inv \in Invite
    BY DEF TypeOK, Fits
  <2>. QED
    BY <2>1, <2>2, <2>3, <2>4 DEF Free
<1>4. ASSUME NEW q \in Request, CheckMember(q) PROVE InvitedInv'
  BY <1>4 DEF CheckMember, TypeOK, Memo, members, invites
<1>5. ASSUME NEW q \in Request, Close(q) \/ Join(q) PROVE InvitedInv'
  <2>. DEFINE i == req[q].inv
  <2>1. i \in Invite /\ req[q].by \in User /\ offer[i] # "absent"
    <3>1. req[q] \in Memo /\ Fits(req[q])
      BY DEF TypeOK
    <3>2. req[q].at \in {"expiring", "confirming", "joining"}
      BY <1>5 DEF Close, Join
    <3>. QED
      BY <3>1, <3>2 DEF Fits, Memo
  <2>2. \A p \in Request : req'[p] = req[p] \/ (p = q /\ req'[p] = Free)
    BY <1>5 DEF Close, Join, Done, TypeOK
  <2>3. UNCHANGED to
    BY <1>5 DEF Close, Join
  <2>4. \A j \in Invite : offer[j] # "absent" => offer'[j] # "absent"
    BY <1>5, <2>1 DEF Close, Join, TypeOK
  <2>5. /\ \A j \in Invite : admitted'[j] > 0 => admitted[j] > 0 \/ j = i
        /\ \A j \in Invite : admitted[j] > 0 => admitted'[j] > 0
    BY <1>5, <2>1 DEF Close, Join, TypeOK, members
  <2>6. \A u \in User : role'[u] # "none" =>
            \/ role[u] # "none"
            \/ u = to[i] /\ admitted'[i] > 0
    <3>1. CASE UNCHANGED role
      BY <3>1
    <3>2. CASE ~UNCHANGED role
      <4>1. to[i] = req[q].by
        BY <1>5, <3>2 DEF Join, Close, members
      <4>. QED
        BY <1>5, <2>1, <3>2, <4>1 DEF Join, Close, TypeOK, members
    <3>. QED
      BY <3>1, <3>2
  <2>7. \A p \in Request :
          req[p].at \in {"expiring", "checking", "joining", "confirming"}
            => req[p].inv \in Invite
    BY DEF TypeOK, Fits
  <2>. QED
    BY <2>1, <2>2, <2>3, <2>4, <2>5, <2>6, <2>7 DEF Free
<1>6. ASSUME NEW i \in Invite, Overdue(i) PROVE InvitedInv'
  BY <1>6 DEF Overdue, members, meter
<1>7. CASE UNCHANGED vars
  BY <1>7 DEF vars, members, invites
<1>. QED
  BY <1>1, <1>2, <1>3, <1>4, <1>5, <1>6, <1>7 DEF Next, Serve

\* Nobody is in a workspace but its founder and people let in by an invite to their
\* own address, for any interleaving of offers, acceptances and removals.
THEOREM NobodyUninvited == Spec => []OnlyTheInvited
<1>1. Init => InvitedInv
  BY DEF Init, InvitedInv, OnlyTheInvited, Free
<1>2. InvitedInv => OnlyTheInvited
  BY DEF InvitedInv
<1>. QED
  BY <1>1, <1>2, InvitedNext, TypeCorrect, PTL DEF Spec

-------------------------------------------------------------------------------
(* Requests that do not overlap                                                *)

\* A step of a request that leaves no overlap behind is the step of the only one.
LEMMA OnlyOne ==
    ASSUME TypeOK, AloneInv, NEW q \in Request, Ask(q) \/ Serve(q), ~overlap'
    PROVE  /\ ~overlap
           /\ \A p \in Request \ {q} : req[p].at = "free" /\ req'[p] = req[p]
<1>1. CASE Ask(q)
  <2>1. \E memo : Begin(q, memo)
    BY <1>1 DEF Ask, AskRemove, AskChange, AskInvite, AskJoin
  <2>. QED
    BY <2>1 DEF Begin, TypeOK
<1>2. CASE Serve(q)
  <2>1. req[q].at # "free" /\ UNCHANGED overlap
    BY <1>2 DEF Serve, Read, Count, Write, LookUp, Offer, CheckMember, Close, Join, Lost,
                Done, meter
  <2>2. \A p \in Request \ {q} : req'[p] = req[p]
    BY <1>2 DEF Serve, Read, Count, Write, LookUp, Offer, CheckMember, Close, Join, Lost,
                Done, TypeOK
  <2>. QED
    BY <2>1, <2>2 DEF AloneInv
<1>. QED
  BY <1>1, <1>2

\* So only what it has read itself, and what it has written, is left to look at.
LEMMA AloneKept ==
    ASSUME TypeOK, AloneInv, NEW q \in Request, Ask(q) \/ Serve(q),
           ~overlap' =>
              /\ Current(req[q])'
              /\ \A i, j \in Invite :
                    offer'[i] = "pending" /\ offer'[j] = "pending" /\ to'[i] = to'[j]
                      => i = j
              /\ Admins' # {}
    PROVE  AloneInv'
<1>. SUFFICES ASSUME ~overlap' PROVE AloneInv'
  BY DEF AloneInv
<1>1. \A p \in Request \ {q} : req[p].at = "free" /\ req'[p] = req[p]
  BY OnlyOne
<1>2. \A p \in Request \ {q} : Current(req[p])'
  BY <1>1 DEF Current
<1>. QED
  BY <1>1, <1>2 DEF AloneInv

\* A count above one leaves an admin besides any member that is looked at.
LEMMA AnotherAdmin ==
    ASSUME TypeOK, ~LastAdmin, NEW u \in User
    PROVE  Admins \ {u} # {}
<1>. SUFFICES ASSUME Admins \ {u} = {} PROVE FALSE
  OBVIOUS
<1>1. Cardinality({}) = 0 /\ IsFiniteSet({})
  BY FS_EmptySet
<1>2. CASE Admins = {}
  BY <1>1, <1>2 DEF LastAdmin
<1>3. CASE Admins # {}
  <2>1. Admins = {} \cup {u}
    BY <1>3
  <2>2. Cardinality({} \cup {u}) = 1
    BY <1>1, FS_AddElement
  <2>. QED
    BY <2>1, <2>2 DEF LastAdmin
<1>. QED
  BY <1>2, <1>3

\* What a new request has read is current when it is the only one.
LEMMA AskAlone ==
    ASSUME TypeOK, AloneInv, NEW q \in Request, Ask(q)
    PROVE  AloneInv'
<1>0. UNCHANGED <<members, invites>>
  BY DEF Ask, AskRemove, AskChange, AskInvite, AskJoin
<1>1. Current(req[q])'
  <2>1. ASSUME NEW u \in User, NEW v \in User, AskRemove(q, u, v) PROVE Current(req[q])'
    <3>1. req'[q].at = "reading"
      BY <2>1 DEF AskRemove, Begin, TypeOK, Free
    <3>. QED
      BY <3>1 DEF Current
  <2>2. ASSUME NEW u \in User, NEW v \in User, NEW new \in Roles, AskChange(q, u, v, new)
        PROVE  Current(req[q])'
    <3>1. req'[q].at = "reading"
      BY <2>2 DEF AskChange, Begin, TypeOK, Free
    <3>. QED
      BY <3>1 DEF Current
  <2>3. ASSUME NEW u \in User, NEW v \in User, NEW new \in Roles, AskInvite(q, u, v, new)
        PROVE  Current(req[q])'
    <3>1. req'[q].at = "looking"
      BY <2>3 DEF AskInvite, Begin, TypeOK, Free
    <3>. QED
      BY <3>1 DEF Current
  <2>4. ASSUME NEW u \in User, NEW i \in Invite, AskJoin(q, u, i) PROVE Current(req[q])'
    <3>1. /\ req'[q].at = IF overdue[i] THEN "expiring" ELSE "checking"
          /\ req'[q].inv = i
      BY <2>4 DEF AskJoin, Begin, TypeOK, Free
    <3>. QED
      BY <1>0, <2>4, <3>1 DEF Current, AskJoin, Usable, invites
  <2>. QED
    BY <2>1, <2>2, <2>3, <2>4 DEF Ask
<1>2. ~overlap' => ~overlap
  BY OnlyOne
<1>. QED
  BY <1>0, <1>1, <1>2, AloneKept DEF AloneInv, members, invites, Admins

\* A request that only reads.
LEMMA ReadAlone ==
    ASSUME TypeOK, AloneInv, NEW q \in Request,
           Read(q) \/ Count(q) \/ LookUp(q) \/ CheckMember(q) \/ Lost(q)
    PROVE  AloneInv'
<1>0. UNCHANGED <<members, invites, overlap>>
  BY DEF Read, Count, LookUp, CheckMember, Lost, Done, meter
<1>. SUFFICES ASSUME ~overlap PROVE Current(req[q])'
  BY <1>0, AloneKept DEF AloneInv, members, invites, Admins, Serve
<1>1. req[q] \in Memo /\ Current(req[q])
  BY DEF TypeOK, AloneInv
<1>2. CASE req' = [req EXCEPT ![q] = Free]
  BY <1>2 DEF TypeOK, Current, Free
<1>3. CASE Read(q) /\ req' # [req EXCEPT ![q] = Free]
  <2>. DEFINE saw == role[req[q].on]
  <2>1. /\ role[req[q].on] # "none"
        /\ req'[q] = [req[q] EXCEPT !.saw = saw, !.row = seat[req[q].on],
                                    !.at = IF saw = "admin" /\ req[q].new # "admin"
                                           THEN "counting" ELSE "writing"]
    BY <1>3 DEF Read, Done, TypeOK
  <2>2. saw = role[req[q].on]
    OBVIOUS
  <2>. HIDE DEF saw
  <2>3. /\ req'[q].at = (IF saw = "admin" /\ req[q].new # "admin"
                         THEN "counting" ELSE "writing")
        /\ req'[q].on = req[q].on /\ req'[q].new = req[q].new
        /\ req'[q].saw = saw /\ req'[q].row = seat[req[q].on]
    BY <1>1, <2>1 DEF Memo
  <2>. QED
    BY <1>0, <2>1, <2>2, <2>3 DEF Current, members
<1>4. CASE Count(q) /\ req' # [req EXCEPT ![q] = Free]
  <2>1. /\ req'[q].at = "writing" /\ req'[q].on = req[q].on /\ req'[q].new = req[q].new
        /\ req'[q].saw = req[q].saw /\ req'[q].row = req[q].row
    BY <1>1, <1>4 DEF Count, Done, TypeOK, Memo
  <2>2. Admins \ {req[q].on} # {}
    BY <1>1, <1>4, AnotherAdmin DEF Count, Done, Memo
  <2>3. /\ role[req[q].on] # "none" /\ req[q].saw = role[req[q].on]
        /\ req[q].row = seat[req[q].on]
    BY <1>1, <1>4 DEF Count, Current
  <2>. QED
    BY <1>0, <2>1, <2>2, <2>3 DEF Current, members, Admins
<1>5. CASE LookUp(q)
  <2>1. PICK i \in Pending(req[q].on) \cup {0} :
          /\ i = 0 => Pending(req[q].on) = {}
          /\ req' = [req EXCEPT ![q].at = "offering", ![q].inv = i]
    BY <1>5 DEF LookUp
  <2>2. req'[q].at = "offering" /\ req'[q].inv = i /\ req'[q].on = req[q].on
    BY <1>1, <2>1 DEF TypeOK, Memo
  <2>3. Pending(req[q].on) = IF i = 0 THEN {} ELSE {i}
    BY <2>1 DEF AloneInv, Pending
  <2>. QED
    BY <1>0, <2>2, <2>3 DEF Current, invites, Pending
<1>6. CASE CheckMember(q)
  <2>1. /\ req'[q].at = IF role[req[q].by] = "none" THEN "joining" ELSE "confirming"
        /\ req'[q].by = req[q].by /\ req'[q].inv = req[q].inv
    BY <1>1, <1>6 DEF CheckMember, TypeOK, Memo
  <2>. QED
    BY <1>0, <1>1, <1>6, <2>1 DEF Current, CheckMember, members, invites
<1>. QED
  BY <1>2, <1>3, <1>4, <1>5, <1>6 DEF Lost, Done

\* A request that writes, and is answered.
LEMMA WriteAlone ==
    ASSUME TypeOK, AloneInv, NEW q \in Request,
           Write(q) \/ Offer(q) \/ Close(q) \/ Join(q)
    PROVE  AloneInv'
<1>0. UNCHANGED overlap /\ req' = [req EXCEPT ![q] = Free]
  BY DEF Write, Offer, Close, Join, Done, meter
<1>1. Current(req[q])'
  BY <1>0 DEF TypeOK, Current, Free
<1>2. req[q] \in Memo /\ Fits(req[q])
  BY DEF TypeOK
<1>. SUFFICES ASSUME ~overlap
              PROVE  /\ \A i, j \in Invite :
                          offer'[i] = "pending" /\ offer'[j] = "pending" /\ to'[i] = to'[j]
                            => i = j
                     /\ Admins' # {}
  BY <1>0, <1>1, AloneKept DEF Serve
<1>3. Current(req[q]) /\ Admins # {}
  BY DEF AloneInv
<1>4. CASE Write(q)
  <2>1. UNCHANGED <<offer, to>>
    BY <1>4 DEF Write, invites
  <2>2. Admins' # {}
    <3>1. CASE req[q].saw = "admin" /\ req[q].new # "admin"
      <4>1. PICK u \in Admins : u # req[q].on
        BY <1>3, <1>4, <3>1 DEF Write, Current
      <4>2. role'[u] = "admin"
        BY <1>2, <1>4, <4>1 DEF Write, TypeOK, Admins, Memo
      <4>. QED
        BY <4>1, <4>2 DEF Admins
    <3>2. CASE req[q].saw # "admin"
      <4>1. PICK u \in User : role[u] = "admin"
        BY <1>3 DEF Admins
      <4>2. u # req[q].on
        BY <1>3, <1>4, <3>2, <4>1 DEF Write, Current
      <4>3. role'[u] = "admin"
        BY <1>2, <1>4, <4>1, <4>2 DEF Write, TypeOK, Memo
      <4>. QED
        BY <4>3 DEF Admins
    <3>3. CASE req[q].new = "admin"
      <4>1. PICK u \in User : role[u] = "admin"
        BY <1>3 DEF Admins
      <4>2. role'[u] = "admin"
        BY <1>2, <1>4, <3>3, <4>1 DEF Write, TypeOK, Memo
      <4>. QED
        BY <4>2 DEF Admins
    <3>. QED
      BY <3>1, <3>2, <3>3
  <2>. QED
    BY <2>1, <2>2 DEF AloneInv
<1>5. CASE Offer(q)
  <2>1. Admins' # {}
    BY <1>3, <1>5 DEF Offer, members, Admins
  <2>2. CASE UNCHANGED <<offer, to>>
    BY <2>1, <2>2 DEF AloneInv
  <2>3. CASE ~UNCHANGED <<offer, to>>
    <3>1. PICK n \in Invite :
            /\ offer' = [j \in Invite |-> IF j = n THEN "pending"
                                          ELSE IF j = req[q].inv THEN "revoked"
                                          ELSE offer[j]]
            /\ to' = [to EXCEPT ![n] = req[q].on]
      BY <1>5, <2>3 DEF Offer
    <3>2. \A i \in Invite : offer[i] = "pending" /\ to[i] = req[q].on => i = req[q].inv
      BY <1>3, <1>5 DEF Offer, Current, Pending
    <3>3. \A i \in Invite : i # n /\ offer'[i] = "pending" =>
              offer[i] = "pending" /\ to'[i] = to[i] /\ to[i] # req[q].on
      BY <3>1, <3>2 DEF TypeOK
    <3>4. to'[n] = req[q].on
      BY <3>1 DEF TypeOK
    <3>. QED
      BY <2>1, <3>3, <3>4 DEF AloneInv
  <2>. QED
    BY <2>2, <2>3
<1>6. CASE Close(q) \/ Join(q)
  <2>1. \A i \in Invite : offer'[i] = "pending" => offer[i] = "pending"
    BY <1>2, <1>6 DEF Close, Join, TypeOK, Fits
  <2>2. UNCHANGED to
    BY <1>6 DEF Close, Join
  <2>3. \A u \in User : role[u] = "admin" => role'[u] = "admin"
    BY <1>6 DEF Close, Join, TypeOK, members
  <2>. QED
    BY <1>3, <2>1, <2>2, <2>3 DEF AloneInv, Admins
<1>. QED
  BY <1>4, <1>5, <1>6

\* Any step keeps what a request that is alone may rely on.
LEMMA AloneNext == TypeOK /\ AloneInv /\ [Next]_vars => AloneInv'
<1>. SUFFICES ASSUME TypeOK, AloneInv, [Next]_vars PROVE AloneInv'
  OBVIOUS
<1>1. ASSUME NEW q \in Request, Ask(q) \/ Serve(q) PROVE AloneInv'
  BY <1>1, AskAlone, ReadAlone, WriteAlone DEF Serve
<1>2. ASSUME UNCHANGED <<role, seat, offer, to, req, overlap>> PROVE AloneInv'
  BY <1>2 DEF AloneInv, Current, Pending, Admins
<1>. QED
  BY <1>1, <1>2 DEF Next, Overdue, vars, members, invites, meter

\* So it holds as long as no two requests have overlapped.
LEMMA AloneHeld == Spec => []AloneInv
<1>1. Init => AloneInv
  BY MembershipAssumption DEF Init, AloneInv, Current, Free, Admins
<1>. QED
  BY <1>1, AloneNext, TypeCorrect, PTL DEF Spec

\* As long as no two requests on a workspace overlap, it never runs out of admins,
\* whatever is demoted, removed or left, for any number of members.
THEOREM AnAdminRemains == Spec => []AdminRemains
<1>1. AloneInv => AdminRemains
  BY DEF AloneInv, AdminRemains
<1>. QED
  BY <1>1, AloneHeld, PTL

-------------------------------------------------------------------------------
(* The workspace keeps its promise, one request at a time                      *)

\* A step that leaves members and offers alone.
LEMMA SameRoster ==
    ASSUME UNCHANGED <<role, offer, to, grant>>
    PROVE  [overlap' \/ Promise!RosterNext]_(Promise!roster)
  BY DEF Promise!roster

\* A member's role is changed, or the member is gone, and an admin is left.
LEMMA WriteStep ==
    ASSUME TypeOK, AloneInv, AloneInv', ~overlap', NEW q \in Request, Write(q)
    PROVE  [Promise!RosterNext]_(Promise!roster)
<1>. DEFINE u == req[q].on
            r == req[q].new
<1>1. u \in User /\ r \in Roles \cup {"none"}
  BY DEF TypeOK, Memo
<1>2. CASE UNCHANGED role
  BY <1>2 DEF Write, invites, Promise!roster
<1>3. CASE ~UNCHANGED role
  <2>1. role[u] # "none" /\ role' = [role EXCEPT ![u] = r]
    BY <1>3 DEF Write
  <2>2. Promise!Managed'
    BY DEF AloneInv, Admins, Promise!Managed
  <2>3. Promise!Change(u, r)
    BY <2>1, <2>2 DEF Promise!Change, Write, invites
  <2>. QED
    BY <1>1, <2>3 DEF Promise!RosterNext, Promise!Roles, Roles
<1>. QED
  BY <1>2, <1>3

\* An offer is made, in the place of the one its addressee had.
LEMMA OfferStep ==
    ASSUME TypeOK, AloneInv, ~overlap, NEW q \in Request, Offer(q)
    PROVE  [Promise!RosterNext]_(Promise!roster)
<1>. DEFINE u == req[q].on
            r == req[q].new
<1>1. u \in User /\ r \in Roles
  BY DEF TypeOK, Memo, Fits, Offer
<1>2. CASE UNCHANGED <<offer, to, grant>>
  BY <1>2 DEF Offer, members, Promise!roster
<1>3. CASE ~UNCHANGED <<offer, to, grant>>
  <2>1. PICK n \in Invite :
          /\ offer[n] = "absent"
          /\ offer' = [j \in Invite |-> IF j = n THEN "pending"
                                        ELSE IF j = req[q].inv THEN "revoked"
                                        ELSE offer[j]]
          /\ to' = [to EXCEPT ![n] = u]
          /\ grant' = [grant EXCEPT ![n] = r]
    BY <1>3 DEF Offer
  <2>2. \A j \in Invite : offer[j] = "pending" /\ to[j] = u <=> j = req[q].inv
    <3>1. Pending(u) = IF req[q].inv = 0 THEN {} ELSE {req[q].inv}
      BY DEF AloneInv, Current, Offer
    <3>2. 0 \notin Invite
      BY MembershipAssumption DEF Invite
    <3>. QED
      BY <3>1, <3>2 DEF Pending
  <2>3. offer' = [j \in Invite |-> IF j = n THEN "pending"
                                   ELSE IF offer[j] = "pending" /\ to[j] = u THEN "revoked"
                                   ELSE offer[j]]
    BY <2>1, <2>2
  <2>4. Promise!Propose(n, u, r)
    BY <2>1, <2>3 DEF Promise!Propose, Offer, members
  <2>. QED
    BY <1>1, <2>4 DEF Promise!RosterNext, Promise!Roles, Roles
<1>. QED
  BY <1>2, <1>3

\* An offer is settled, and may let its addressee in.
LEMMA SettleStep ==
    ASSUME TypeOK, AloneInv, InvitedInv, ~overlap, NEW q \in Request, Close(q) \/ Join(q)
    PROVE  [Promise!RosterNext]_(Promise!roster)
<1>. DEFINE i == req[q].inv
<1>1. i \in Invite /\ offer[i] = "pending"
  BY DEF TypeOK, Fits, AloneInv, Current, Close, Join
<1>2. req[q].at \in {"confirming", "joining"} => to[i] = req[q].by
  BY DEF InvitedInv
<1>3. CASE Close(q)
  <2>1. req[q].at = "confirming" => role[to[i]] # "none"
    BY <1>2 DEF AloneInv, Current
  <2>2. Promise!Settle(i)
    BY <1>1, <1>3, <2>1 DEF Promise!Settle, Close, members
  <2>. QED
    BY <1>1, <2>2 DEF Promise!RosterNext
<1>4. CASE Join(q)
  <2>1. role[to[i]] = "none"
    BY <1>2, <1>4 DEF AloneInv, Current, Join
  <2>2. Promise!Admit(i)
    BY <1>1, <1>2, <1>4, <2>1 DEF Promise!Admit, Join
  <2>. QED
    BY <1>1, <2>2 DEF Promise!RosterNext
<1>. QED
  BY <1>3, <1>4

\* Every step of requests that do not overlap is a move of the roster, or none.
LEMMA RosterStep ==
    ASSUME TypeOK, AloneInv, AloneInv', InvitedInv, [Next]_vars
    PROVE  [overlap' \/ Promise!RosterNext]_(Promise!roster)
<1>. SUFFICES ASSUME ~overlap' PROVE [Promise!RosterNext]_(Promise!roster)
  OBVIOUS
<1>1. ASSUME NEW q \in Request, Ask(q) PROVE UNCHANGED <<role, offer, to, grant>>
  BY <1>1 DEF Ask, AskRemove, AskChange, AskInvite, AskJoin, members, invites
<1>2. ASSUME NEW q \in Request, Serve(q) PROVE [Promise!RosterNext]_(Promise!roster)
  <2>1. ~overlap
    BY <1>2, OnlyOne
  <2>2. CASE Read(q) \/ Count(q) \/ LookUp(q) \/ CheckMember(q) \/ Lost(q)
    BY <2>2 DEF Read, Count, LookUp, CheckMember, Lost, members, invites, Promise!roster
  <2>. QED
    BY <1>2, <2>1, <2>2, WriteStep, OfferStep, SettleStep DEF Serve
<1>3. CASE (\E i \in Invite : Overdue(i)) \/ UNCHANGED vars
  BY <1>3 DEF Overdue, vars, members, invites, Promise!roster
<1>. QED
  BY <1>1, <1>2, <1>3 DEF Next, Promise!roster

\* As long as no two requests overlap, the statements of each add up to one legal
\* move of the workspace: it implements the roster it promises.
THEOREM ImplementsRoster == Spec => KeepsRoster
<1>1. Init => Promise!RosterInit
  BY DEF Init, Promise!RosterInit
<1>2. TypeOK /\ AloneInv /\ AloneInv' /\ InvitedInv /\ [Next]_vars
        => [overlap' \/ Promise!RosterNext]_(Promise!roster)
  BY RosterStep
<1>3. Spec => []InvitedInv
  <2>1. Init => InvitedInv
    BY DEF Init, InvitedInv, OnlyTheInvited, Free
  <2>. QED
    BY <2>1, InvitedNext, TypeCorrect, PTL DEF Spec
<1>. QED
  BY <1>1, <1>2, <1>3, TypeCorrect, AloneHeld, PTL DEF Spec, KeepsRoster

===============================================================================
