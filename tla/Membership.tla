------------------------------ MODULE Membership ------------------------------
(***************************************************************************)
(* The members of one workspace and the invites to it.                     *)
(*                                                                         *)
(* Every request reads before it writes, statement by statement and under  *)
(* READ COMMITTED, with no lock and no condition on what it read: another  *)
(* request may commit between any two statements.  The permission check    *)
(* keeps only the caller's role, so that the target's row is always read   *)
(* from the table, even when the target is the caller.                     *)
(*                                                                         *)
(* A user stands for an address too, since an invite is accepted only by   *)
(* the user with its address.  Invite ids increase.                        *)
(***************************************************************************)
EXTENDS Naturals, FiniteSets

CONSTANTS
    User,         \* registered users
    Founder,      \* Workspace.owner_id
    Request,      \* requests that may be in flight
    MaxInvites,   \* bound: invites ever created
    MaxRequests   \* bound: requests ever made

ASSUME MembershipAssumption ==
    /\ IsFiniteSet(User)
    /\ Founder \in User
    /\ MaxInvites \in Nat
    /\ MaxRequests \in Nat

VARIABLES
    role,       \* WorkspaceMember.role, "none" for no row
    seat,       \* which row it is: a member who rejoins gets a new one
    offer,      \* WorkspaceInvite.status, "absent" before it is created
    to,         \* WorkspaceInvite.email
    grant,      \* WorkspaceInvite.role
    overdue,    \* has expires_at passed?
    admitted,   \* members an invite has let in
    req,        \* the requests in flight
    overlap,    \* have two of them ever been in flight at once?
    asked       \* requests so far, against MaxRequests

members == <<role, seat>>
invites == <<offer, to, grant, overdue, admitted>>
meter   == <<overlap, asked>>
vars    == <<members, invites, req, meter>>

Roles  == {"viewer", "member", "admin"}
Invite == 1..MaxInvites
Admins == {u \in User : role[u] = "admin"}

\* by asks for on to have the role new ("none": to be gone), or for the invite inv;
\* saw and row are the role and the row that were read.
Step == {"free", "reading", "counting", "writing", "looking", "offering",
         "expiring", "checking", "joining", "confirming"}

Memo == [at : Step, by : User, on : User, new : Roles \cup {"none"},
         inv : Invite \cup {0}, saw : Roles \cup {"none"}, row : Nat]

Free == [at |-> "free", by |-> Founder, on |-> Founder, new |-> "none",
         inv |-> 0, saw |-> "none", row |-> 0]

Fits(memo) ==
    /\ memo.at \in {"expiring", "checking", "joining", "confirming"} => memo.inv \in Invite
    /\ memo.at \in {"looking", "offering"} => memo.new \in Roles

TypeOK ==
    /\ role \in [User -> Roles \cup {"none"}]
    /\ seat \in [User -> Nat]
    /\ offer \in [Invite -> {"absent", "pending", "accepted", "revoked", "expired"}]
    /\ to \in [Invite -> User]
    /\ grant \in [Invite -> Roles]
    /\ overdue \in [Invite -> BOOLEAN]
    /\ admitted \in [Invite -> Nat]
    /\ req \in [Request -> Memo]
    /\ \A q \in Request : Fits(req[q])
    /\ overlap \in BOOLEAN
    /\ asked \in 0..MaxRequests

Pending(u) == {i \in Invite : offer[i] = "pending" /\ to[i] = u}

\* A request that passed its permission check.
Begin(q, memo) ==
    /\ req[q].at = "free"
    /\ asked < MaxRequests
    /\ asked' = asked + 1
    /\ req' = [req EXCEPT ![q] = memo]
    /\ overlap' = (overlap \/ \E p \in Request \ {q} : req[p].at # "free")

\* It is answered, with a result or an error.
Done(q) == req' = [req EXCEPT ![q] = Free] /\ UNCHANGED meter

-------------------------------------------------------------------------------
(* Mistakes the code could have made in the definitions below *)

\* Two admins at least, or one at most: the boundary of the count.
TooFewAdmins == Cardinality(Admins) < 1

\* Any bearer of the token may use it.
AnyBearer(u, i) == TRUE

\* Whatever its state.
AnyState(i) == offer[i] # "absent"

-------------------------------------------------------------------------------
(* change_role and remove_member *)

AskChange(q, u, v, new) ==
    /\ role[u] = "admin"
    /\ Begin(q, [Free EXCEPT !.at = "reading", !.by = u, !.on = v, !.new = new])
    /\ UNCHANGED <<members, invites>>

AskRemove(q, u, v) ==
    /\ role[u] # "none"
    /\ u = v \/ role[u] = "admin"
    /\ Begin(q, [Free EXCEPT !.at = "reading", !.by = u, !.on = v])
    /\ UNCHANGED <<members, invites>>

\* _get_membership of the target, which may be the caller's own row.
Read(q) ==
    LET memo == req[q]
        saw  == role[memo.on]
    IN
    /\ memo.at = "reading"
    /\ \/ role[memo.on] = "none" /\ Done(q)
       \/ /\ role[memo.on] # "none"
          /\ req' = [req EXCEPT ![q] =
                [memo EXCEPT !.saw = saw,
                             !.row = seat[memo.on],
                             !.at = IF saw = "admin" /\ memo.new # "admin"
                                    THEN "counting" ELSE "writing"]]
          /\ UNCHANGED meter
    /\ UNCHANGED <<members, invites>>

\* _count_admins() <= 1: the target is, as far as the request knows, an admin.
LastAdmin == Cardinality(Admins) <= 1

Count(q) ==
    /\ req[q].at = "counting"
    /\ \/ LastAdmin /\ Done(q)
       \/ /\ ~LastAdmin
          /\ req' = [req EXCEPT ![q].at = "writing"]
          /\ UNCHANGED meter
    /\ UNCHANGED <<members, invites>>

\* The row is written by its id.  If it is gone, the update is an error and the
\* deletion a warning; a role that was read as the new one is not written.
Write(q) ==
    LET memo == req[q] IN
    /\ memo.at = "writing"
    /\ role' = IF /\ role[memo.on] # "none"
                  /\ seat[memo.on] = memo.row
                  /\ memo.new # memo.saw
               THEN [role EXCEPT ![memo.on] = memo.new]
               ELSE role
    /\ Done(q)
    /\ UNCHANGED <<seat, invites>>

-------------------------------------------------------------------------------
(* create_invite *)

AskInvite(q, u, v, new) ==
    /\ role[u] = "admin"
    /\ Begin(q, [Free EXCEPT !.at = "looking", !.by = u, !.on = v, !.new = new])
    /\ UNCHANGED <<members, invites>>

\* The offer the new one is to supersede.
LookUp(q) ==
    /\ req[q].at = "looking"
    /\ \E i \in Pending(req[q].on) \cup {0} :
          /\ i = 0 => Pending(req[q].on) = {}
          /\ req' = [req EXCEPT ![q].at = "offering", ![q].inv = i]
    /\ UNCHANGED <<members, invites, meter>>

\* The old one is revoked, whatever became of it, and the new one inserted, unless
\* the partial unique index has another: then nothing is done.
Offer(q) ==
    LET memo == req[q] IN
    /\ memo.at = "offering"
    /\ \/ /\ Pending(memo.on) \ {memo.inv} = {}
          /\ \E i \in Invite :
                /\ offer[i] = "absent"
                /\ \A j \in Invite : j < i => offer[j] # "absent"
                /\ offer' = [j \in Invite |-> IF j = i THEN "pending"
                                              ELSE IF j = memo.inv THEN "revoked"
                                              ELSE offer[j]]
                /\ to' = [to EXCEPT ![i] = memo.on]
                /\ grant' = [grant EXCEPT ![i] = memo.new]
       \/ /\ Pending(memo.on) \ {memo.inv} # {}
          /\ UNCHANGED <<offer, to, grant>>
    /\ Done(q)
    /\ UNCHANGED <<members, overdue, admitted>>

\* Seven days go by.
Overdue(i) ==
    /\ offer[i] = "pending"
    /\ overdue' = [overdue EXCEPT ![i] = TRUE]
    /\ UNCHANGED <<members, offer, to, grant, admitted, req, meter>>

-------------------------------------------------------------------------------
(* accept_invite *)

MayUse(u, i) == to[i] = u
Usable(i) == offer[i] = "pending"

\* The token is found, pending, and overdue or the caller's own.
AskJoin(q, u, i) ==
    /\ Usable(i)
    /\ overdue[i] \/ MayUse(u, i)
    /\ Begin(q, [Free EXCEPT !.at = IF overdue[i] THEN "expiring" ELSE "checking",
                             !.by = u, !.inv = i])
    /\ UNCHANGED <<members, invites>>

CheckMember(q) ==
    /\ req[q].at = "checking"
    /\ req' = [req EXCEPT ![q].at = IF role[req[q].by] = "none"
                                    THEN "joining" ELSE "confirming"]
    /\ UNCHANGED <<members, invites, meter>>

\* No membership is made: the token was too late, or its bearer is a member.
Close(q) ==
    LET i == req[q].inv IN
    /\ req[q].at \in {"expiring", "confirming"}
    /\ offer' = [offer EXCEPT ![i] = IF req[q].at = "expiring"
                                     THEN "expired" ELSE "accepted"]
    /\ Done(q)
    /\ UNCHANGED <<members, to, grant, overdue, admitted>>

\* Membership and invite are committed together; a second membership of one user
\* is a unique violation.
Join(q) ==
    LET u == req[q].by
        i == req[q].inv
    IN
    /\ req[q].at = "joining"
    /\ \/ /\ role[u] = "none"
          /\ role' = [role EXCEPT ![u] = grant[i]]
          /\ seat' = [seat EXCEPT ![u] = @ + 1]
          /\ offer' = [offer EXCEPT ![i] = "accepted"]
          /\ admitted' = [admitted EXCEPT ![i] = @ + 1]
       \/ role[u] # "none" /\ UNCHANGED <<members, offer, admitted>>
    /\ Done(q)
    /\ UNCHANGED <<to, grant, overdue>>

\* A crash, a dropped connection, or an error of the database.
Lost(q) ==
    /\ req[q].at # "free"
    /\ Done(q)
    /\ UNCHANGED <<members, invites>>

-------------------------------------------------------------------------------
\* create_workspace makes its owner the first admin.
Init ==
    /\ role = [u \in User |-> IF u = Founder THEN "admin" ELSE "none"]
    /\ seat = [u \in User |-> 0]
    /\ offer = [i \in Invite |-> "absent"]
    /\ to = [i \in Invite |-> Founder]
    /\ grant = [i \in Invite |-> "viewer"]
    /\ overdue = [i \in Invite |-> FALSE]
    /\ admitted = [i \in Invite |-> 0]
    /\ req = [q \in Request |-> Free]
    /\ overlap = FALSE
    /\ asked = 0

Ask(q) ==
    \/ \E u, v \in User : AskRemove(q, u, v)
    \/ \E u, v \in User, new \in Roles : AskChange(q, u, v, new) \/ AskInvite(q, u, v, new)
    \/ \E u \in User, i \in Invite : AskJoin(q, u, i)

Serve(q) ==
    \/ Read(q)
    \/ Count(q)
    \/ Write(q)
    \/ LookUp(q)
    \/ Offer(q)
    \/ CheckMember(q)
    \/ Close(q)
    \/ Join(q)
    \/ Lost(q)

Next ==
    \/ \E q \in Request : Ask(q) \/ Serve(q)
    \/ \E i \in Invite : Overdue(i)

Spec == Init /\ [][Next]_vars

-------------------------------------------------------------------------------
(* What should hold of it *)

\* The check before a demotion, a removal or a departure keeps the workspace its
\* last admin (workspace_service.py:84,98), as long as no two requests overlap.
AdminRemains == ~overlap => Admins # {}

Promise == INSTANCE Roster

\* As long as no two requests overlap, the statements of each add up to one legal
\* move of members and invites: a settled offer stays settled, a new one replaces
\* the old, and nobody joins but by an offer that is still open.
KeepsRoster ==
    /\ Promise!RosterInit
    /\ [][overlap' \/ Promise!RosterNext]_(Promise!roster)

\* However requests race, nobody is in the workspace but its founder and those who
\* were let in by an invite to their own address (invite_service.py:185).
OnlyTheInvited ==
    \A u \in User : role[u] # "none" =>
        u = Founder \/ \E i \in Invite : to[i] = u /\ admitted[i] > 0

-------------------------------------------------------------------------------
(* Why it holds: the invariants the proofs in MembershipProofs rest on         *)

\* While requests do not overlap, there is at most one, and what it has read of
\* the tables is what they still hold.
Current(memo) ==
    /\ memo.at \in {"counting", "writing"} =>
          role[memo.on] # "none" /\ memo.saw = role[memo.on] /\ memo.row = seat[memo.on]
    /\ memo.at = "writing" /\ memo.saw = "admin" /\ memo.new # "admin" =>
          Admins \ {memo.on} # {}
    /\ memo.at = "offering" =>
          Pending(memo.on) = IF memo.inv = 0 THEN {} ELSE {memo.inv}
    /\ memo.at \in {"expiring", "checking", "joining", "confirming"} =>
          offer[memo.inv] = "pending"
    /\ memo.at = "joining" => role[memo.by] = "none"
    /\ memo.at = "confirming" => role[memo.by] # "none"

\* Besides, an address has one open offer, and the workspace an admin.
AloneInv ==
    ~overlap =>
        /\ \A p, q \in Request : req[p].at # "free" /\ req[q].at # "free" => p = q
        /\ \A q \in Request : Current(req[q])
        /\ \A i, j \in Invite :
              offer[i] = "pending" /\ offer[j] = "pending" /\ to[i] = to[j] => i = j
        /\ Admins # {}

\* Overlaps or not: an invite in use is addressed to its bearer, and an address
\* is written once.
InvitedInv ==
    /\ OnlyTheInvited
    /\ \A i \in Invite : admitted[i] > 0 => offer[i] # "absent"
    /\ \A q \in Request :
          /\ req[q].at \in {"expiring", "checking", "joining", "confirming"}
                => offer[req[q].inv] # "absent"
          /\ req[q].at \in {"checking", "joining", "confirming"}
                => to[req[q].inv] = req[q].by

===============================================================================
