-------------------------- MODULE ApprovalGateProofs --------------------------
(***************************************************************************)
(* Theorems about ApprovalGate, for any number of actions, conversations,  *)
(* payloads, decide requests and faults.                                   *)
(***************************************************************************)
EXTENDS ApprovalGate, TLAPS

Point == {"idle", "deciding", "approved", "carried", "failing", "telling"}

\* Counting up one entry of a tally leaves a tally.
LEMMA TallyType ==
    ASSUME NEW tally \in Tally, NEW a \in Action, NEW p \in Payload
    PROVE  [tally EXCEPT ![a][p] = @ + 1] \in Tally
  BY DEF Tally

-------------------------------------------------------------------------------
(* Type correctness, together with what was shown to a reviewer                *)

\* Proposals, agent turns and out-of-band writes keep the invariant: what becomes
\* pending went through the resolver.
LEMMA AskKeeps ==
    ASSUME TypeOK, GateInv, Ask
    PROVE  TypeOK' /\ GateInv'
<1>1. ASSUME NEW a \in Action, NEW p \in Payload, Propose(a, p)
      PROVE  TypeOK' /\ GateInv'
  <2>1. TypeOK'
    BY <1>1 DEF TypeOK, Propose, audit, world, graph, requests, mine, Status
  <2>2. GateInv'
    BY <1>1 DEF TypeOK, GateInv, MembersOnly, Propose, Resolves, world, requests, mine
  <2>. QED
    BY <2>1, <2>2
<1>2. ASSUME NEW a \in Action, NEW p \in Payload, Alter(a, p)
      PROVE  TypeOK' /\ GateInv'
  <2>1. TypeOK'
    BY <1>2, GateAssumption
       DEF TypeOK, Alter, Fault, audit, world, graph, requests, mine
  <2>2. GateInv'
    BY <1>2 DEF TypeOK, GateInv, MembersOnly, Alter, Resolves, world, requests, mine
  <2>. QED
    BY <2>1, <2>2
<1>3. ASSUME NEW t \in Thread, TurnRun(t) PROVE TypeOK' /\ GateInv'
  <2>1. /\ asked' \in [Thread -> SUBSET Action]
        /\ turn' \in [Thread -> SUBSET Action]
    BY <1>3 DEF TypeOK, TurnRun, Calls
  <2>2. UNCHANGED <<table, audit, world, told, requests, faults>>
    BY <1>3 DEF TurnRun
  <2>3. TypeOK'
    BY <2>1, <2>2 DEF TypeOK, table, audit, world, requests, mine
  <2>4. GateInv'
    BY <2>2 DEF GateInv, MembersOnly, Resolves, table, world, requests, mine
  <2>. QED
    BY <2>3, <2>4
<1>4. ASSUME NEW t \in Thread, TurnCommit(t) PROVE TypeOK' /\ GateInv'
  <2>1. PICK meant \in [turn[t] -> Payload] :
          LET offered == {a \in turn[t] : Resolves(meant[a])} IN
          /\ status' = [a \in Action |-> IF a \in offered THEN "pending"
                                         ELSE IF a \in turn[t] THEN "refused"
                                         ELSE status[a]]
          /\ payload' = [a \in Action |-> IF a \in offered THEN meant[a] ELSE payload[a]]
          /\ hash' = [a \in Action |-> IF a \in offered THEN meant[a] ELSE hash[a]]
          /\ \/ /\ Resumed(t)
                /\ told' = [a \in Action |-> IF a \in turn[t] THEN "rejected"
                                             ELSE told[a]]
             \/ UNCHANGED <<asked, told>>
    BY <1>4 DEF TurnCommit
  <2>2. turn' \in [Thread -> SUBSET Action]
    BY <1>4 DEF TypeOK, TurnCommit
  <2>3. asked' \in [Thread -> SUBSET Action]
    BY <2>1 DEF TypeOK, Resumed, Calls
  <2>4. told' \in [Action -> {"nothing", "done", "rejected", "failed"}]
    BY <2>1 DEF TypeOK
  <2>5. /\ status' \in [Action -> Status \cup {"absent"}]
        /\ payload' \in [Action -> Payload \cup {NoPayload}]
        /\ hash' \in [Action -> Payload \cup {NoPayload}]
    BY <2>1 DEF TypeOK, Status
  <2>6. UNCHANGED <<audit, world, requests, faults>>
    BY <1>4 DEF TurnCommit
  <2>7. TypeOK'
    BY <2>2, <2>3, <2>4, <2>5, <2>6 DEF TypeOK, audit, world, requests, mine
  <2>8. \A a \in Action : status'[a] = "pending" =>
            payload'[a] \in Payload /\ Resolves(payload'[a])
    BY <2>1 DEF GateInv, Resolves
  <2>9. GateInv'
    BY <2>6, <2>8 DEF GateInv, MembersOnly, Resolves, world, requests, mine
  <2>. QED
    BY <2>7, <2>9
<1>5. ASSUME NEW t \in Thread, TurnLost(t) PROVE TypeOK' /\ GateInv'
  <2>1. TypeOK'
    BY <1>5, GateAssumption
       DEF TypeOK, TurnLost, Fault, table, audit, world, requests, mine
  <2>2. GateInv'
    BY <1>5 DEF GateInv, MembersOnly, TurnLost, Resolves, table, world, requests, mine
  <2>. QED
    BY <2>1, <2>2
<1>. QED
  BY <1>1, <1>2, <1>3, <1>4, <1>5 DEF Ask

\* A request starts with a payload that equals its hash and resolves.
LEMMA ClickKeeps ==
    ASSUME TypeOK, GateInv, NEW r \in Reviewer, NEW a \in Action, Click(r, a)
    PROVE  TypeOK' /\ GateInv'
<1>1. /\ pc' = [pc EXCEPT ![r] = "deciding"]
      /\ on' = [on EXCEPT ![r] = a]
      /\ \E seen \in Payload : /\ Resolves(seen)
                               /\ copy' = [copy EXCEPT ![r] = seen]
                               /\ shown' = [shown EXCEPT ![r] = seen]
      /\ \E v \in {"edit", "approve", "reject"} : verdict' = [verdict EXCEPT ![r] = v]
      /\ clicks' \in 0..MaxClicks
      /\ UNCHANGED <<table, audit, world, graph, faults>>
  BY GateAssumption DEF Click, StillAsShown, EditAllowed, GateInv, Resolves, TypeOK
<1>2. TypeOK'
  BY <1>1 DEF TypeOK, table, audit, world, graph
<1>3. GateInv'
  BY <1>1 DEF TypeOK, GateInv, MembersOnly, Resolves, table, world
<1>. QED
  BY <1>2, <1>3

\* A request that is over leaves nothing behind.
LEMMA LeaveType ==
    ASSUME TypeOK, NEW r \in Reviewer, Leave(r)
    PROVE  /\ pc' \in [Reviewer -> Point]
           /\ on' \in [Reviewer -> Action \cup {NoAction}]
           /\ copy' \in [Reviewer -> Payload \cup {NoPayload}]
           /\ shown' \in [Reviewer -> Payload \cup {NoPayload}]
           /\ verdict' \in [Reviewer -> {"none", "approve", "edit", "reject", "done", "failed"}]
           /\ \A q \in Reviewer : pc'[q] # "idle" =>
                /\ q # r /\ pc'[q] = pc[q] /\ on'[q] = on[q]
                /\ copy'[q] = copy[q] /\ shown'[q] = shown[q]
  BY DEF TypeOK, Leave, Point

\* Every step of a decide request keeps the invariant.
LEMMA DecideKeeps ==
    ASSUME TypeOK, GateInv, NEW r \in Reviewer, Decide(r)
    PROVE  TypeOK' /\ GateInv'
<1>. DEFINE a == on[r]
<1>0. pc[r] # "idle" /\ a \in Action /\ copy[r] \in Payload /\ shown[r] \in Payload
  BY DEF Decide, Approve, Reject, Execute, ExecuteFails, Executed, MarkFailed, Tell, TypeOK
<1>1. CASE Approve(r)
  <2>1. approvals' \in Tally
    BY <1>0, <1>1, TallyType DEF TypeOK, Approve
  <2>2. TypeOK'
    BY <1>0, <1>1, <2>1 DEF TypeOK, Approve, Status, world, graph, mine
  <2>3. GateInv'
    BY <1>0, <1>1 DEF TypeOK, GateInv, MembersOnly, Approve, Resolves, world, mine
  <2>. QED
    BY <2>2, <2>3
<1>2. CASE Reject(r)
  <2>1. TypeOK'
    BY <1>0, <1>2 DEF TypeOK, Reject, Status, world, graph, mine
  <2>2. GateInv'
    BY <1>0, <1>2 DEF TypeOK, GateInv, MembersOnly, Reject, Resolves, world, mine
  <2>. QED
    BY <2>1, <2>2
<1>3. CASE Execute(r) \/ ExecuteFails(r)
  <2>1. /\ \/ UNCHANGED mails
           \/ mails' = [mails EXCEPT ![a][copy[r]] = @ + 1]
        /\ \E next \in {"carried", "failing"} : pc' = [pc EXCEPT ![r] = next]
        /\ UNCHANGED <<table, audit, rows, graph, mine, verdict, clicks, faults>>
    BY <1>3 DEF Execute, ExecuteFails
  <2>2. mails' \in Tally
    <3>1. [mails EXCEPT ![a][copy[r]] = @ + 1] \in Tally
      BY <1>0, TallyType DEF TypeOK
    <3>. QED
      BY <2>1, <3>1 DEF TypeOK
  <2>3. TypeOK'
    BY <1>0, <2>1, <2>2 DEF TypeOK, table, audit, graph, mine
  <2>4. Resolves(copy[r])
    BY <1>0 DEF GateInv
  <2>5. MembersOnly'
    <3>1. ASSUME NEW b \in Action, NEW p \in Payload, ~(b = a /\ p = copy[r])
          PROVE  mails'[b][p] = mails[b][p]
      BY <1>0, <2>1, <3>1 DEF TypeOK, Tally
    <3>. QED
      BY <2>4, <3>1 DEF GateInv, MembersOnly, Resolves
  <2>6. GateInv'
    BY <1>0, <2>1, <2>5 DEF TypeOK, GateInv, Resolves, table, mine
  <2>. QED
    BY <2>3, <2>6
<1>4. CASE Executed(r)
  <2>1. rows' \in Tally
    <3>1. [rows EXCEPT ![a][copy[r]] = @ + 1] \in Tally
      BY <1>0, TallyType DEF TypeOK
    <3>. QED
      BY <1>4, <3>1 DEF TypeOK, Executed
  <2>2. TypeOK'
    BY <1>0, <1>4, <2>1 DEF TypeOK, Executed, Status, graph, mine
  <2>3. GateInv'
    BY <1>0, <1>4 DEF TypeOK, GateInv, MembersOnly, Executed, Resolves, mine
  <2>. QED
    BY <2>2, <2>3
<1>5. CASE MarkFailed(r)
  <2>1. TypeOK'
    BY <1>0, <1>5 DEF TypeOK, MarkFailed, Status, world, graph, mine
  <2>2. GateInv'
    BY <1>0, <1>5 DEF TypeOK, GateInv, MembersOnly, MarkFailed, Resolves, world, mine
  <2>. QED
    BY <2>1, <2>2
<1>6. CASE Tell(r)
  <2>1. Leave(r) /\ UNCHANGED <<table, audit, world, turn, clicks, faults>>
    BY <1>6 DEF Tell
  <2>2. told' \in [Action -> {"nothing", "done", "rejected", "failed"}]
    <3>1. verdict[r] \in {"done", "failed", "reject"}
      BY <1>6 DEF Tell, GateInv
    <3>2. [done |-> "done", failed |-> "failed", reject |-> "rejected"][verdict[r]]
              \in {"done", "failed", "rejected"}
      BY <3>1
    <3>. QED
      BY <1>6, <3>2 DEF Tell, TypeOK
  <2>3. asked' \in [Thread -> SUBSET Action]
    BY <1>6 DEF Tell, TypeOK, Resumed, Calls
  <2>4. TypeOK'
    BY <2>1, <2>2, <2>3, LeaveType DEF TypeOK, Point, table, audit, world
  <2>5. GateInv'
    <3>1. \A q \in Reviewer : pc'[q] # "idle" => verdict'[q] = verdict[q]
      BY <2>1 DEF Leave, TypeOK
    <3>2. \A q \in Reviewer : pc'[q] # "idle" => /\ pc'[q] = pc[q]
                                                /\ copy'[q] = copy[q]
                                                /\ shown'[q] = shown[q]
      BY <2>1, LeaveType
    <3>. QED
      BY <2>1, <3>1, <3>2 DEF GateInv, MembersOnly, Resolves, table, world
  <2>. QED
    BY <2>4, <2>5
<1>. QED
  BY <1>1, <1>2, <1>3, <1>4, <1>5, <1>6 DEF Decide

\* Every step of the gate does.
LEMMA NextKeeps == TypeOK /\ GateInv /\ [Next]_vars => TypeOK' /\ GateInv'
<1>. SUFFICES ASSUME TypeOK, GateInv, [Next]_vars PROVE TypeOK' /\ GateInv'
  OBVIOUS
<1>1. CASE Ask
  BY <1>1, AskKeeps
<1>2. ASSUME NEW r \in Reviewer, NEW a \in Action, Click(r, a) PROVE TypeOK' /\ GateInv'
  BY <1>2, ClickKeeps
<1>3. ASSUME NEW r \in Reviewer, Decide(r) PROVE TypeOK' /\ GateInv'
  BY <1>3, DecideKeeps
<1>4. ASSUME NEW r \in Reviewer, Lost(r) PROVE TypeOK' /\ GateInv'
  <2>1. /\ Leave(r) /\ UNCHANGED <<table, audit, world, graph, clicks>>
        /\ faults' \in 0..MaxFaults
    BY <1>4, GateAssumption DEF Lost, Fault, TypeOK
  <2>2. TypeOK'
    BY <2>1, LeaveType DEF TypeOK, Point, table, audit, world, graph
  <2>3. \A q \in Reviewer : pc'[q] # "idle" => /\ pc'[q] = pc[q]
                                              /\ copy'[q] = copy[q]
                                              /\ shown'[q] = shown[q]
    BY <2>1, LeaveType
  <2>4. \A q \in Reviewer : pc'[q] # "idle" => verdict'[q] = verdict[q]
    BY <2>1 DEF Leave, TypeOK
  <2>5. GateInv'
    BY <2>1, <2>3, <2>4 DEF GateInv, MembersOnly, Resolves, table, world
  <2>. QED
    BY <2>2, <2>5
<1>5. CASE UNCHANGED vars
  BY <1>5 DEF vars, TypeOK, GateInv, MembersOnly, Resolves, table, audit, world,
              graph, requests, mine
<1>. QED
  BY <1>1, <1>2, <1>3, <1>4, <1>5 DEF Next

\* The gate starts empty.
LEMMA InitGate == Init => TypeOK /\ GateInv
  BY GateAssumption DEF Init, TypeOK, GateInv, MembersOnly, Zero, Tally

\* The table, the audit log, the graphs and the requests in flight hold values of
\* their types, and a request past its read is about an action and a payload.
THEOREM TypeCorrect == Spec => []TypeOK
  BY InitGate, NextKeeps, PTL DEF Spec

\* No message ever leaves for anybody whom the server did not find among the
\* members of the workspace, whatever reviewers edit, race or lose.
THEOREM OnlyMembersAreAddressed == Spec => []MembersOnly
<1>1. Spec => []GateInv
  BY InitGate, NextKeeps, PTL DEF Spec
<1>2. GateInv => MembersOnly
  BY DEF GateInv
<1>. QED
  BY <1>1, <1>2, PTL

-------------------------------------------------------------------------------
(* The gate implements the consent it promises                                 *)

\* Nothing that ConsentGate speaks of has changed.
LEMMA SameConsent ==
    ASSUME UNCHANGED <<approvals, world>>,
           \A q \in Reviewer : Allowed(q)' = Allowed(q)
    PROVE  UNCHANGED Consent!gate
<1>1. UNCHANGED [q \in Reviewer |-> Allowed(q)]
  OBVIOUS
<1>. QED
  BY <1>1 DEF Consent!gate, world

\* A request that ends wastes the consent it had, if any.
LEMMA LeaveConsent ==
    ASSUME TypeOK, NEW r \in Reviewer, Leave(r), UNCHANGED <<approvals, world>>
    PROVE  [Consent!GateNext]_(Consent!gate)
<1>1. /\ Allowed(r)' = {}
      /\ \A q \in Reviewer : q # r => Allowed(q)' = Allowed(q)
  BY DEF Leave, Allowed, TypeOK
<1>2. CASE Allowed(r) = {}
  BY <1>1, <1>2, SameConsent
<1>3. CASE Allowed(r) # {}
  <2>1. Consent!Waste(r)
    BY <1>1, <1>3 DEF Consent!Waste, Consent!Nothing, world
  <2>. QED
    BY <2>1 DEF Consent!GateNext
<1>. QED
  BY <1>2, <1>3

\* Counting an effect once, among the messages or among the rows, whichever the
\* action's kind makes the visible one.
LEMMA CarryOnce ==
    ASSUME TypeOK, NEW r \in Reviewer, NEW a \in Action, NEW p \in Payload,
           Allowed(r) = {<<a, p>>}, Allowed(r)' = {},
           \A q \in Reviewer : q # r => Allowed(q)' = Allowed(q),
           \/ /\ a \in Sending
              /\ mails' = [mails EXCEPT ![a][p] = @ + 1]
              /\ UNCHANGED rows
           \/ /\ a \notin Sending
              /\ rows' = [rows EXCEPT ![a][p] = @ + 1]
              /\ UNCHANGED mails,
           UNCHANGED approvals
    PROVE  Consent!GateNext
<1>. DEFINE visible == [b \in Action |-> IF b \in Sending THEN mails[b] ELSE rows[b]]
            allowed == [q \in Reviewer |-> Allowed(q)]
<1>1. allowed' = [allowed EXCEPT ![r] = {}]
  OBVIOUS
<1>2. \A b \in Action : visible'[b] = IF b = a THEN [visible[a] EXCEPT ![p] = @ + 1]
                                     ELSE visible[b]
  BY DEF TypeOK, Tally
<1>3. visible' = [visible EXCEPT ![a][p] = @ + 1]
  BY <1>2
<1>4. allowed[r] = {<<a, p>>}
  OBVIOUS
<1>5. Consent!CarryOut(r, a, p)
  BY <1>1, <1>3, <1>4 DEF Consent!CarryOut, Consent!Nothing
<1>. QED
  BY <1>5 DEF Consent!GateNext

\* Every step grants, spends or wastes one consent, or is invisible.
LEMMA ConsentStep ==
    ASSUME TypeOK, GateInv, [Next]_vars
    PROVE  [Consent!GateNext]_(Consent!gate)
<1>1. CASE Ask
  <2>1. UNCHANGED <<approvals, world, pc, on, copy>>
    BY <1>1 DEF Ask, Propose, Alter, TurnRun, TurnCommit, TurnLost, audit, requests, mine
  <2>2. \A q \in Reviewer : Allowed(q)' = Allowed(q)
    BY <2>1 DEF Allowed
  <2>. QED
    BY <2>1, <2>2, SameConsent
<1>2. ASSUME NEW r \in Reviewer, NEW a \in Action, Click(r, a)
      PROVE  [Consent!GateNext]_(Consent!gate)
  <2>1. \A q \in Reviewer : Allowed(q)' = Allowed(q)
    BY <1>2 DEF Click, Allowed, TypeOK
  <2>. QED
    BY <1>2, <2>1, SameConsent DEF Click, audit
<1>3. ASSUME NEW r \in Reviewer, Approve(r)
      PROVE  [Consent!GateNext]_(Consent!gate)
  <2>1. on[r] \in Action /\ copy[r] \in Payload /\ copy[r] = shown[r]
    BY <1>3 DEF Approve, TypeOK, GateInv
  <2>2. /\ Allowed(r) = {}
        /\ Allowed(r)' = {<<on[r], copy[r]>>}
        /\ \A q \in Reviewer : q # r => Allowed(q)' = Allowed(q)
    BY <1>3 DEF Approve, Allowed, TypeOK, mine
  <2>3. Consent!Consent(r, on[r], copy[r])
    BY <1>3, <2>1, <2>2 DEF Approve, Consent!Consent, Consent!Nothing, world
  <2>. QED
    BY <2>1, <2>3 DEF Consent!GateNext
<1>4. ASSUME NEW r \in Reviewer, Reject(r) \/ MarkFailed(r)
      PROVE  [Consent!GateNext]_(Consent!gate)
  <2>1. UNCHANGED <<approvals, world, on, copy>>
    BY <1>4 DEF Reject, MarkFailed, mine
  <2>2. \A q \in Reviewer : Allowed(q)' = Allowed(q)
    BY <1>4, <2>1 DEF Reject, MarkFailed, Allowed, TypeOK
  <2>. QED
    BY <2>1, <2>2, SameConsent
<1>5. ASSUME NEW r \in Reviewer, pc[r] = "approved",
             mails' = [mails EXCEPT ![on[r]][copy[r]] = @ + 1],
             on[r] \in Sending,
             \E next \in {"carried", "failing"} : pc' = [pc EXCEPT ![r] = next],
             UNCHANGED <<approvals, rows, mine>>
      PROVE  [Consent!GateNext]_(Consent!gate)
  <2>1. on[r] \in Action /\ copy[r] \in Payload
    BY <1>5 DEF TypeOK
  <2>2. /\ Allowed(r) = {<<on[r], copy[r]>>}
        /\ Allowed(r)' = {}
        /\ \A q \in Reviewer : q # r => Allowed(q)' = Allowed(q)
    BY <1>5 DEF Allowed, TypeOK, mine
  <2>. QED
    BY <1>5, <2>1, <2>2, CarryOnce
<1>6. ASSUME NEW r \in Reviewer, Execute(r)
      PROVE  [Consent!GateNext]_(Consent!gate)
  <2>1. CASE on[r] \in Sending
    BY <1>5, <1>6, <2>1 DEF Execute, audit
  <2>2. CASE on[r] \notin Sending
    <3>1. \A q \in Reviewer : Allowed(q)' = Allowed(q)
      BY <1>6, <2>2 DEF Execute, Allowed, TypeOK, mine
    <3>. QED
      BY <1>6, <2>2, <3>1, SameConsent DEF Execute, audit, world
  <2>. QED
    BY <2>1, <2>2
<1>7. ASSUME NEW r \in Reviewer, ExecuteFails(r)
      PROVE  [Consent!GateNext]_(Consent!gate)
  <2>1. CASE UNCHANGED mails
    <3>1. /\ Allowed(r) # {} /\ Allowed(r)' = {}
          /\ \A q \in Reviewer : q # r => Allowed(q)' = Allowed(q)
      BY <1>7 DEF ExecuteFails, Allowed, TypeOK, mine
    <3>2. Consent!Waste(r)
      BY <1>7, <2>1, <3>1 DEF ExecuteFails, Consent!Waste, Consent!Nothing, audit
    <3>. QED
      BY <3>2 DEF Consent!GateNext
  <2>2. CASE ~UNCHANGED mails
    BY <1>5, <1>7, <2>2 DEF ExecuteFails, audit
  <2>. QED
    BY <2>1, <2>2
<1>8. ASSUME NEW r \in Reviewer, Executed(r)
      PROVE  [Consent!GateNext]_(Consent!gate)
  <2>1. on[r] \in Action /\ copy[r] \in Payload
    BY <1>8 DEF Executed, TypeOK
  <2>2. \A q \in Reviewer : q # r => Allowed(q)' = Allowed(q)
    BY <1>8 DEF Executed, Allowed, TypeOK, mine
  <2>3. CASE on[r] \in Sending
    <3>1. Allowed(r)' = Allowed(r)
      BY <1>8, <2>3 DEF Executed, Allowed, TypeOK, mine
    <3>2. UNCHANGED [q \in Reviewer |-> Allowed(q)]
      BY <2>2, <3>1
    <3>3. UNCHANGED [b \in Action |-> IF b \in Sending THEN mails[b] ELSE rows[b]]
      <4>1. \A b \in Action : b \notin Sending => rows'[b] = rows[b]
        BY <1>8, <2>3 DEF Executed, TypeOK, Tally
      <4>. QED
        BY <1>8, <4>1 DEF Executed
    <3>. QED
      BY <1>8, <3>2, <3>3 DEF Executed, Consent!gate
  <2>4. CASE on[r] \notin Sending
    <3>1. on[r] \in Storing
      BY <2>1, <2>4, GateAssumption DEF Sending, Storing
    <3>2. /\ Allowed(r) = {<<on[r], copy[r]>>}
          /\ Allowed(r)' = {}
      BY <1>8, <2>4 DEF Executed, Allowed, TypeOK, mine
    <3>. QED
      BY <1>8, <2>1, <2>2, <2>4, <3>1, <3>2, CarryOnce DEF Executed
  <2>. QED
    BY <2>3, <2>4
<1>9. ASSUME NEW r \in Reviewer, Tell(r) \/ Lost(r)
      PROVE  [Consent!GateNext]_(Consent!gate)
  BY <1>9, LeaveConsent DEF Tell, Lost, audit
<1>10. CASE UNCHANGED vars
  <2>1. \A q \in Reviewer : Allowed(q)' = Allowed(q)
    BY <1>10 DEF vars, requests, mine, Allowed
  <2>. QED
    BY <1>10, <2>1, SameConsent DEF vars, audit
<1>. QED
  BY <1>1, <1>2, <1>3, <1>4, <1>6, <1>7, <1>8, <1>9, <1>10 DEF Next, Decide

\* The gate, with its table, requests, crashes and graphs, implements the consent
\* it promises: every effect spends one recorded approval of exactly that payload.
THEOREM ImplementsConsent == Spec => KeepsConsent
<1>1. Init => Consent!GateInit
  BY DEF Init, Consent!GateInit, Consent!Nothing, Allowed, Zero
<1>2. TypeOK /\ GateInv /\ [Next]_vars => [Consent!GateNext]_(Consent!gate)
  BY ConsentStep
<1>3. Spec => [](TypeOK /\ GateInv)
  BY InitGate, NextKeeps, PTL DEF Spec
<1>. QED
  BY <1>1, <1>2, <1>3, PTL DEF Spec, KeepsConsent, Consent!Spec

-------------------------------------------------------------------------------
(* An approval is always in hand                                               *)

LEMMA InHandKeeps ==
    ASSUME TypeOK, ApprovedIsInHand, [Next]_vars
    PROVE  ApprovedIsInHand'
<1>1. CASE Ask
  <2>1. UNCHANGED <<pc, on>>
    BY <1>1 DEF Ask, Propose, Alter, TurnRun, TurnCommit, TurnLost, requests, mine
  <2>2. faults' = faults \/ faults' = faults + 1
    BY <1>1 DEF Ask, Propose, Alter, TurnRun, TurnCommit, TurnLost, Fault
  <2>3. \A a \in Action : status'[a] = "approved" => status[a] = "approved"
    <3>1. ASSUME NEW t \in Thread, TurnCommit(t), NEW a \in Action
          PROVE  status'[a] \in {"pending", "refused", status[a]}
      BY <3>1 DEF TurnCommit
    <3>. QED
      BY <1>1, <3>1 DEF Ask, Propose, Alter, TurnRun, TurnLost, TypeOK, table
  <2>. QED
    BY <2>1, <2>2, <2>3 DEF ApprovedIsInHand, TypeOK
<1>2. ASSUME NEW r \in Reviewer, NEW a \in Action, Click(r, a)
      PROVE  ApprovedIsInHand'
  BY <1>2 DEF Click, ApprovedIsInHand, TypeOK, table
<1>3. ASSUME NEW r \in Reviewer, Decide(r)
      PROVE  ApprovedIsInHand'
  <2>1. CASE Approve(r)
    BY <2>1 DEF Approve, ApprovedIsInHand, TypeOK, mine
  <2>2. CASE Reject(r) \/ Executed(r) \/ MarkFailed(r)
    <3>1. /\ \A a \in Action : status'[a] = "approved" =>
                status[a] = "approved" /\ a # on[r]
          /\ UNCHANGED <<on, faults>>
          /\ \A q \in Reviewer : q # r => pc'[q] = pc[q]
      BY <2>2 DEF Reject, Executed, MarkFailed, TypeOK, mine
    <3>. QED
      BY <3>1 DEF ApprovedIsInHand
  <2>3. CASE Execute(r) \/ ExecuteFails(r)
    BY <2>3 DEF Execute, ExecuteFails, ApprovedIsInHand, TypeOK, table, mine
  <2>4. CASE Tell(r)
    BY <2>4 DEF Tell, Leave, ApprovedIsInHand, TypeOK, table
  <2>. QED
    BY <1>3, <2>1, <2>2, <2>3, <2>4 DEF Decide
<1>4. ASSUME NEW r \in Reviewer, Lost(r)
      PROVE  ApprovedIsInHand'
  BY <1>4 DEF Lost, Fault, ApprovedIsInHand, TypeOK
<1>5. CASE UNCHANGED vars
  BY <1>5 DEF vars, table, requests, mine, ApprovedIsInHand
<1>. QED
  BY <1>1, <1>2, <1>3, <1>4, <1>5 DEF Next

\* Only the request that approved an action takes it out of that state, unless a
\* fault ends it: nothing stays approved with nobody at work on it.
THEOREM ApprovalsAreInHand == Spec => []ApprovedIsInHand
<1>1. Init => ApprovedIsInHand
  BY DEF Init, ApprovedIsInHand
<1>2. Spec => []TypeOK
  BY TypeCorrect
<1>. QED
  BY <1>1, <1>2, InHandKeeps, PTL DEF Spec

-------------------------------------------------------------------------------
(* The agent is not told of a success that was not committed                   *)

\* What a resumed graph goes on to ask belongs to its own conversation.
LEMMA ResumedAsks ==
    ASSUME TypeOK, NEW t \in Thread, Resumed(t),
           \A u \in Thread : \A a \in asked[u] : ThreadOf[a] = u
    PROVE  \A u \in Thread : \A a \in asked'[u] : ThreadOf[a] = u
  BY DEF TypeOK, Resumed, Calls

LEMMA ToldKeeps ==
    ASSUME TypeOK, GateInv, ToldInv, [Next]_vars
    PROVE  ToldInv'
<1>1. CASE Ask
  <2>1. UNCHANGED <<executions, pc, on, verdict>>
    BY <1>1 DEF Ask, Propose, Alter, TurnRun, TurnCommit, TurnLost, audit, requests, mine
  <2>2. \A a \in ByAgent : told'[a] = "done" => told[a] = "done"
    <3>1. ASSUME NEW t \in Thread, TurnCommit(t)
          PROVE  \/ UNCHANGED told
                 \/ told' = [a \in Action |-> IF a \in turn[t] THEN "rejected" ELSE told[a]]
      BY <3>1 DEF TurnCommit
    <3>. QED
      BY <1>1, <3>1 DEF Ask, Propose, Alter, TurnRun, TurnLost, ByAgent, graph
  <2>3. \A u \in Thread : \A a \in asked'[u] : ThreadOf[a] = u
    <3>1. ASSUME NEW t \in Thread, TurnCommit(t)
          PROVE  UNCHANGED asked \/ Resumed(t)
      BY <3>1 DEF TurnCommit
    <3>2. ASSUME NEW t \in Thread, TurnRun(t) PROVE Resumed(t)
      BY <3>2 DEF TurnRun, Resumed
    <3>. QED
      BY <1>1, <3>1, <3>2, ResumedAsks DEF Ask, Propose, Alter, TurnLost, ToldInv, graph
  <2>. QED
    BY <2>1, <2>2, <2>3 DEF ToldInv, NoFalseSuccess
<1>2. ASSUME NEW r \in Reviewer, NEW a \in Action, Click(r, a)
      PROVE  ToldInv'
  BY <1>2 DEF Click, ToldInv, NoFalseSuccess, TypeOK, audit, graph
<1>3. ASSUME NEW r \in Reviewer, Approve(r) \/ Reject(r) \/ Execute(r) \/ ExecuteFails(r)
      PROVE  ToldInv'
  <2>1. UNCHANGED <<executions, graph, mine, verdict>>
    BY <1>3 DEF Approve, Reject, Execute, ExecuteFails, audit
  <2>2. \A q \in Reviewer : pc'[q] = "telling" /\ verdict'[q] = "done" => pc[q] = "telling"
    BY <1>3 DEF Approve, Reject, Execute, ExecuteFails, TypeOK
  <2>. QED
    BY <2>1, <2>2 DEF ToldInv, NoFalseSuccess, graph, mine
<1>4. ASSUME NEW r \in Reviewer, Executed(r) \/ MarkFailed(r)
      PROVE  ToldInv'
  <2>1. UNCHANGED <<graph, mine>> /\ on[r] \in Action
    BY <1>4 DEF Executed, MarkFailed, TypeOK
  <2>2. \A a \in Action : executions[a] > 0 => executions'[a] > 0
    BY <1>4 DEF Executed, MarkFailed, TypeOK
  <2>3. \A q \in Reviewer : pc'[q] = "telling" /\ verdict'[q] = "done" =>
            \/ pc[q] = "telling" /\ verdict[q] = "done"
            \/ q = r /\ executions'[on[r]] > 0
    BY <1>4, <2>1 DEF Executed, MarkFailed, TypeOK
  <2>. QED
    BY <2>1, <2>2, <2>3 DEF ToldInv, NoFalseSuccess, TypeOK, graph, mine
<1>5. ASSUME NEW r \in Reviewer, Tell(r)
      PROVE  ToldInv'
  <2>. DEFINE t == ThreadOf[on[r]]
  <2>1. /\ on[r] \in Action
        /\ verdict[r] \in {"done", "failed", "reject"}
        /\ UNCHANGED executions
        /\ Leave(r)
    BY <1>5 DEF Tell, TypeOK, GateInv, audit
  <2>2. \/ UNCHANGED <<asked, told>>
        \/ /\ t \in Thread
           /\ Resumed(t)
           /\ \E call \in asked[t] : \A a \in Action : told'[a] = "done" =>
                 told[a] = "done" \/ (a = call /\ verdict[r] = "done")
    <3>1. ThreadOf[on[r]] # NoThread => t \in Thread
      BY <2>1, GateAssumption
    <3>. QED
      BY <1>5, <2>1, <3>1 DEF Tell, ByAgent, TypeOK
  <2>3. \A u \in Thread : \A a \in asked'[u] : ThreadOf[a] = u
    BY <2>2, ResumedAsks DEF ToldInv
  <2>4. \A q \in Reviewer : pc'[q] = "telling" =>
            pc[q] = "telling" /\ verdict'[q] = verdict[q] /\ on'[q] = on[q]
    BY <2>1 DEF Leave, TypeOK
  <2>5. NoFalseSuccess'
    BY <1>5, <2>1, <2>2 DEF Tell, ToldInv, NoFalseSuccess, ByAgent
  <2>. QED
    BY <2>1, <2>3, <2>4, <2>5 DEF ToldInv
<1>6. ASSUME NEW r \in Reviewer, Lost(r)
      PROVE  ToldInv'
  <2>1. \A q \in Reviewer : pc'[q] = "telling" =>
            pc[q] = "telling" /\ verdict'[q] = verdict[q] /\ on'[q] = on[q]
    BY <1>6 DEF Lost, Leave, TypeOK
  <2>. QED
    BY <1>6, <2>1 DEF Lost, ToldInv, NoFalseSuccess, audit, graph
<1>7. CASE UNCHANGED vars
  BY <1>7 DEF vars, audit, graph, requests, mine, ToldInv, NoFalseSuccess
<1>. QED
  BY <1>1, <1>2, <1>3, <1>4, <1>5, <1>6, <1>7 DEF Next, Decide

\* A graph hears "done" of a call only after an action of its own conversation
\* was committed as executed, however requests and turns interleave.
THEOREM SuccessIsCommitted == Spec => []NoFalseSuccess
<1>1. Init => ToldInv
  BY DEF Init, ToldInv, NoFalseSuccess, ByAgent
<1>2. Spec => [](TypeOK /\ GateInv)
  BY InitGate, NextKeeps, PTL DEF Spec
<1>3. Spec => []ToldInv
  BY <1>1, <1>2, ToldKeeps, PTL DEF Spec
<1>4. ToldInv => NoFalseSuccess
  BY DEF ToldInv
<1>. QED
  BY <1>3, <1>4, PTL

-------------------------------------------------------------------------------
(* The status is the truth about an action that one reviewer decided            *)

\* Counting an entry up once makes nothing of it into once, and nothing else does.
LEMMA CountedOnce ==
    ASSUME NEW tally \in Tally, NEW counted, NEW a \in Action, NEW p \in Payload,
           \A q \in Payload : counted[a][q] = IF q = p THEN tally[a][q] + 1
                                                       ELSE tally[a][q]
    PROVE  /\ Never(tally, a) => Once(counted, a)
           /\ AtMostOnce(counted, a) => Never(tally, a)
           /\ ~Never(counted, a)
<1>1. \A q \in Payload : tally[a][q] \in Nat
  BY DEF Tally
<1>. QED
  BY <1>1 DEF Never, Once, AtMostOnce

\* What is true of an action stays true when nothing happens to it, or when a
\* proposal becomes a row before anybody has decided.
LEMMA TruthFrame ==
    ASSUME NEW a \in Action, DecidedAlone(a) => Truthful(a),
           \/ status'[a] = status[a]
           \/ {status[a], status'[a]} \subseteq {"absent", "pending", "refused"},
           approvals'[a] = approvals[a], rejections'[a] = rejections[a],
           mails'[a] = mails[a], rows'[a] = rows[a],
           \A q \in Reviewer : Working(q, a)' => Working(q, a) /\ pc'[q] = pc[q]
    PROVE  (DecidedAlone(a) => Truthful(a))'
<1>1. /\ Never(approvals, a)' <=> Never(approvals, a)
      /\ Once(approvals, a)' <=> Once(approvals, a)
      /\ Never(mails, a)' <=> Never(mails, a)
      /\ Once(mails, a)' <=> Once(mails, a)
      /\ Never(rows, a)' <=> Never(rows, a)
      /\ Once(rows, a)' <=> Once(rows, a)
  BY DEF Never, Once
<1>. QED
  BY <1>1 DEF DecidedAlone, Truthful, AtMostOnce, Undecided

\* An action in a turn becomes a row once, when the turn is committed, and never
\* stops being one.
LEMMA TurnKeeps ==
    ASSUME TypeOK, TurnInv, [Next]_vars
    PROVE  TurnInv'
<1>1. ASSUME NEW a \in Action, NEW p \in Payload, Propose(a, p) \/ Alter(a, p)
      PROVE  TurnInv'
  <2>1. /\ UNCHANGED <<turn, pc, on>>
        /\ \A b \in Action : status'[b] = status[b] \/ (b \notin ByAgent /\ status'[b] = "pending")
    BY <1>1 DEF Propose, Alter, TypeOK, graph, requests, mine
  <2>2. \A t \in Thread : \A b \in turn[t] : b \in ByAgent
    BY GateAssumption DEF TypeOK, TurnInv, ByAgent
  <2>. QED
    BY <2>1, <2>2 DEF TurnInv, TypeOK
<1>2. ASSUME NEW t \in Thread, TurnRun(t) \/ TurnLost(t)
      PROVE  TurnInv'
  BY <1>2 DEF TurnRun, TurnLost, Calls, Known, TypeOK, TurnInv, table, requests, mine
<1>3. ASSUME NEW t \in Thread, TurnCommit(t)
      PROVE  TurnInv'
  <2>1. /\ turn' = [turn EXCEPT ![t] = {}]
        /\ UNCHANGED requests
    BY <1>3 DEF TurnCommit
  <2>2. \A b \in Action : /\ b \in turn[t] => status'[b] \in {"pending", "refused"}
                          /\ b \notin turn[t] => status'[b] = status[b]
    BY <1>3 DEF TurnCommit
  <2>. QED
    BY <2>1, <2>2 DEF TurnInv, TypeOK, requests, mine
<1>4. ASSUME NEW r \in Reviewer, NEW a \in Action, Click(r, a)
      PROVE  TurnInv'
  BY <1>4 DEF Click, TurnInv, TypeOK, table, graph
<1>5. ASSUME NEW r \in Reviewer, Tell(r) \/ Lost(r)
      PROVE  TurnInv'
  BY <1>5 DEF Tell, Lost, Leave, TurnInv, TypeOK, table, graph
<1>6. ASSUME NEW r \in Reviewer, Decide(r), ~Tell(r)
      PROVE  TurnInv'
  <2>1. /\ UNCHANGED <<turn, on>>
        /\ pc[r] # "idle"
        /\ \A q \in Reviewer : q # r => pc'[q] = pc[q]
        /\ \A b \in Action : status'[b] = status[b] \/ (b = on[r] /\ status'[b] # "absent")
    BY <1>6 DEF Decide, Approve, Reject, Execute, ExecuteFails, Executed, MarkFailed,
                TypeOK, table, graph, mine
  <2>. QED
    BY <2>1 DEF TurnInv, TypeOK
<1>7. CASE UNCHANGED vars
  BY <1>7 DEF vars, table, graph, requests, mine, TurnInv
<1>. QED
  BY <1>1, <1>2, <1>3, <1>4, <1>5, <1>6, <1>7 DEF Next, Ask, Decide

\* Proposals and the agent's turns say nothing new of what anybody has decided.
LEMMA AskTruth ==
    ASSUME TypeOK, TurnInv, TruthInv, Ask
    PROVE  TruthInv'
<1>1. UNCHANGED <<audit, world, requests>>
  BY DEF Ask, Propose, Alter, TurnRun, TurnCommit, TurnLost
<1>2. ASSUME NEW b \in Action
      PROVE  \/ status'[b] = status[b]
             \/ status[b] = "absent" /\ status'[b] \in {"pending", "refused"}
  <2>1. ASSUME NEW t \in Thread, TurnCommit(t)
        PROVE  \/ status'[b] = status[b]
               \/ status[b] = "absent" /\ status'[b] \in {"pending", "refused"}
    <3>1. \/ status'[b] = status[b]
          \/ b \in turn[t] /\ status'[b] \in {"pending", "refused"}
      BY <2>1 DEF TurnCommit
    <3>. QED
      BY <3>1 DEF TurnInv
  <2>2. ASSUME NEW a \in Action, NEW p \in Payload, Propose(a, p)
        PROVE  \/ status'[b] = status[b]
               \/ status[b] = "absent" /\ status'[b] = "pending"
    BY <2>2 DEF Propose, TypeOK
  <2>. QED
    BY <2>1, <2>2 DEF Ask, Alter, TurnRun, TurnLost, table
<1>3. \A b \in Action : (DecidedAlone(b) => Truthful(b))'
  BY <1>1, <1>2, TruthFrame DEF TruthInv, Working, audit, world, requests, mine
<1>. QED
  BY <1>3 DEF TruthInv

\* A decide request that is let in, ends or is lost takes no action in hand.
LEMMA RequestTruth ==
    ASSUME TypeOK, TruthInv, NEW r \in Reviewer,
           (\E a \in Action : Click(r, a)) \/ Tell(r) \/ Lost(r)
    PROVE  TruthInv'
<1>1. UNCHANGED <<table, audit, world>>
  BY DEF Click, Tell, Lost
<1>2. \A q \in Reviewer, b \in Action : Working(q, b)' => Working(q, b) /\ pc'[q] = pc[q]
  BY DEF Click, Tell, Lost, Leave, Working, TypeOK
<1>3. \A b \in Action : (DecidedAlone(b) => Truthful(b))'
  BY <1>1, <1>2, TruthFrame DEF TruthInv, table, audit, world
<1>. QED
  BY <1>3 DEF TruthInv

\* The request that decides, and acts on its decision, keeps the truth about its
\* action as long as it is the only one that decided it.
LEMMA DecideTruth ==
    ASSUME TypeOK, TurnInv, TruthInv, NEW r \in Reviewer, Decide(r), ~Tell(r)
    PROVE  TruthInv'
<1>1. /\ on[r] \in Action /\ copy[r] \in Payload /\ shown[r] \in Payload
      /\ UNCHANGED mine
  BY DEF Decide, Approve, Reject, Execute, ExecuteFails, Executed, MarkFailed, TypeOK
<1>0. PICK a \in Action : a = on[r]
  BY <1>1
<1>. USE <1>0, <1>1
<1>10. ASSUME NEW b \in Action \ {a}
      PROVE  (DecidedAlone(b) => Truthful(b))'
  <2>1. /\ status'[b] = status[b]
        /\ rejections'[b] = rejections[b]
        /\ \A q \in Reviewer : q # r => pc'[q] = pc[q]
    BY DEF Decide, Approve, Reject, Execute, ExecuteFails, Executed, MarkFailed,
           TypeOK, table, audit
  <2>2. approvals'[b] = approvals[b] /\ mails'[b] = mails[b] /\ rows'[b] = rows[b]
    BY DEF Decide, Approve, Reject, Execute, ExecuteFails, Executed, MarkFailed,
           TypeOK, Tally, audit, world
  <2>3. \A q \in Reviewer : Working(q, b)' => Working(q, b) /\ pc'[q] = pc[q]
    BY <2>1 DEF Working, mine
  <2>. QED
    BY <2>1, <2>2, <2>3, TruthFrame DEF TruthInv
<1>2. ASSUME Approve(r), DecidedAlone(a)'
      PROVE  Truthful(a)'
  <2>1. /\ status'[a] = "approved"
        /\ pc' = [pc EXCEPT ![r] = "approved"]
        /\ UNCHANGED <<mails, rows, rejections>>
    BY <1>2 DEF Approve, TypeOK, world
  <2>2. /\ Never(approvals, a) => Once(approvals, a)'
        /\ AtMostOnce(approvals, a)' => Never(approvals, a)
        /\ ~Never(approvals, a)'
    <3>1. \A q \in Payload : approvals'[a][q] = IF q = shown[r] THEN approvals[a][q] + 1
                                                                ELSE approvals[a][q]
      BY <1>2 DEF Approve, TypeOK, Tally
    <3>2. approvals \in Tally
      BY DEF TypeOK
    <3>3. /\ Never(approvals, a) => Once(approvals', a)
          /\ AtMostOnce(approvals', a) => Never(approvals, a)
          /\ ~Never(approvals', a)
      BY <3>1, <3>2, CountedOnce
    <3>. QED
      BY <3>3 DEF Never, Once, AtMostOnce
  <2>3. Undecided(a) /\ Truthful(a)
    BY <1>2, <2>1, <2>2 DEF DecidedAlone, AtMostOnce, Undecided, TruthInv
  <2>4. /\ \A q \in Reviewer : ~Working(q, a)
        /\ Never(mails, a) /\ Never(rows, a)
    BY <2>3 DEF Truthful
  <2>5. Never(mails, a)' /\ Never(rows, a)'
    BY <2>1, <2>4 DEF Never
  <2>6. \A q \in Reviewer : Working(q, a)' => q = r /\ pc'[q] = "approved"
    BY <2>1, <2>4 DEF Working, TypeOK, mine
  <2>. QED
    BY <2>1, <2>2, <2>5, <2>6 DEF Truthful, Undecided, AtMostOnce
<1>3. ASSUME Reject(r), DecidedAlone(a)'
      PROVE  Truthful(a)'
  <2>1. /\ status'[a] = "rejected"
        /\ pc' = [pc EXCEPT ![r] = "telling"]
        /\ rejections'[a] = rejections[a] + 1
        /\ rejections[a] \in Nat
        /\ UNCHANGED <<mails, rows, approvals>>
    BY <1>3 DEF Reject, TypeOK, world
  <2>2. Never(approvals, a)' <=> Never(approvals, a)
    BY <2>1 DEF Never
  <2>3. Undecided(a) /\ Truthful(a)
    BY <1>3, <2>1, <2>2 DEF DecidedAlone, Undecided, TruthInv
  <2>4. /\ \A q \in Reviewer : ~Working(q, a)
        /\ Never(mails, a) /\ Never(rows, a)
    BY <2>3 DEF Truthful
  <2>5. Never(mails, a)' /\ Never(rows, a)'
    BY <2>1, <2>4 DEF Never
  <2>6. \A q \in Reviewer : ~Working(q, a)'
    BY <2>1, <2>4 DEF Working, TypeOK, mine
  <2>. QED
    BY <2>1, <2>5, <2>6 DEF Truthful, Undecided, AtMostOnce
\* What an approved action's one request does.
<1>4. ASSUME pc[r] \in {"approved", "carried", "failing"}, UNCHANGED <<approvals, rejections>>,
             DecidedAlone(a)'
      PROVE  /\ Truthful(a)
             /\ status[a] = "approved"
             /\ ~Undecided(a)'
             /\ \A q \in Reviewer : Working(q, a) => q = r
             /\ pc[r] = "approved" => Never(mails, a)
             /\ pc[r] = "carried" /\ a \in Sending => Once(mails, a)
             /\ AtMostOnce(mails, a)
             /\ Never(rows, a)
  <2>1. /\ DecidedAlone(a)' <=> DecidedAlone(a)
        /\ Undecided(a)' <=> Undecided(a)
    BY <1>4 DEF DecidedAlone, Undecided, Never, Once
  <2>2. Truthful(a)
    BY <1>4, <2>1 DEF TruthInv
  <2>3. Working(r, a)
    BY <1>4 DEF Working
  <2>. QED
    BY <1>4, <2>1, <2>2, <2>3 DEF Truthful
<1>5. ASSUME Execute(r) \/ ExecuteFails(r), DecidedAlone(a)'
      PROVE  Truthful(a)'
  <2>1. /\ pc[r] = "approved"
        /\ UNCHANGED <<status, approvals, rejections, rows>>
        /\ \E next \in {"carried", "failing"} : pc' = [pc EXCEPT ![r] = next]
        /\ \/ UNCHANGED mails /\ (a \in Sending => pc' = [pc EXCEPT ![r] = "failing"])
           \/ mails' = [mails EXCEPT ![a][copy[r]] = @ + 1]
    BY <1>5 DEF Execute, ExecuteFails, table, audit
  <2>2. /\ status[a] = "approved" /\ ~Undecided(a)' /\ Never(mails, a) /\ Never(rows, a)
        /\ \A q \in Reviewer : Working(q, a) => q = r
    BY <1>4, <1>5, <2>1
  <2>3. /\ AtMostOnce(mails, a)'
        /\ pc'[r] = "carried" /\ a \in Sending => Once(mails, a)'
    <3>1. CASE UNCHANGED mails /\ (a \in Sending => pc' = [pc EXCEPT ![r] = "failing"])
      BY <2>2, <3>1 DEF AtMostOnce, Never, TypeOK
    <3>2. CASE mails' = [mails EXCEPT ![a][copy[r]] = @ + 1]
      <4>1. \A q \in Payload : mails'[a][q] = IF q = copy[r] THEN mails[a][q] + 1
                                                            ELSE mails[a][q]
        BY <3>2 DEF TypeOK, Tally
      <4>2. mails \in Tally
        BY DEF TypeOK
      <4>3. copy[r] \in Payload /\ Never(mails, a)
        BY <2>1, <2>2 DEF TypeOK
      <4>4. Once(mails', a)
        BY <4>1, <4>2, <4>3, CountedOnce
      <4>. QED
        BY <4>4 DEF Once, AtMostOnce
    <3>. QED
      BY <2>1, <3>1, <3>2
  <2>4. \A q \in Reviewer : Working(q, a)' => q = r /\ pc'[q] # "approved"
    BY <2>1, <2>2 DEF Working, TypeOK, mine
  <2>5. Never(rows, a)'
    BY <2>1, <2>2 DEF Never
  <2>. QED
    BY <2>1, <2>2, <2>3, <2>4, <2>5 DEF Truthful
<1>6. ASSUME Executed(r), DecidedAlone(a)'
      PROVE  Truthful(a)'
  <2>1. /\ pc[r] = "carried"
        /\ UNCHANGED <<approvals, rejections, mails>>
        /\ status'[a] = "executed"
        /\ pc' = [pc EXCEPT ![r] = "telling"]
        /\ IF a \in Storing THEN rows' = [rows EXCEPT ![a][copy[r]] = @ + 1]
                            ELSE UNCHANGED rows
    BY <1>6 DEF Executed, TypeOK
  <2>2. /\ ~Undecided(a)' /\ Never(rows, a)
        /\ AtMostOnce(mails, a)
        /\ a \in Sending => Once(mails, a)
        /\ \A q \in Reviewer : Working(q, a) => q = r
    BY <1>4, <1>6, <2>1
  <2>3. /\ AtMostOnce(mails, a)'
        /\ a \in Sending => Once(mails, a)'
    BY <2>1, <2>2 DEF AtMostOnce, Never, Once
  <2>4. IF a \in Storing THEN Once(rows, a)' ELSE Never(rows, a)'
    <3>1. CASE a \in Storing
      <4>1. \A q \in Payload : rows'[a][q] = IF q = copy[r] THEN rows[a][q] + 1
                                                           ELSE rows[a][q]
        BY <2>1, <3>1 DEF TypeOK, Tally
      <4>2. rows \in Tally
        BY DEF TypeOK
      <4>3. Once(rows', a)
        BY <2>2, <4>1, <4>2, CountedOnce
      <4>. QED
        BY <3>1, <4>3 DEF Once
    <3>2. CASE a \notin Storing
      BY <2>1, <2>2, <3>2 DEF Never
    <3>. QED
      BY <3>1, <3>2
  <2>5. \A q \in Reviewer : ~Working(q, a)'
    BY <2>1, <2>2 DEF Working, TypeOK, mine
  <2>. QED
    BY <2>1, <2>2, <2>3, <2>4, <2>5 DEF Truthful
<1>7. ASSUME MarkFailed(r), DecidedAlone(a)'
      PROVE  Truthful(a)'
  <2>1. /\ pc[r] = "failing"
        /\ UNCHANGED <<approvals, rejections, mails, rows>>
        /\ status'[a] = "failed"
        /\ pc' = [pc EXCEPT ![r] = "telling"]
    BY <1>7 DEF MarkFailed, TypeOK, world
  <2>2. /\ ~Undecided(a)' /\ Never(rows, a)
        /\ AtMostOnce(mails, a)
        /\ \A q \in Reviewer : Working(q, a) => q = r
    BY <1>4, <1>7, <2>1
  <2>3. AtMostOnce(mails, a)' /\ Never(rows, a)'
    BY <2>1, <2>2 DEF AtMostOnce, Never, Once
  <2>4. \A q \in Reviewer : ~Working(q, a)'
    BY <2>1, <2>2 DEF Working, TypeOK, mine
  <2>. QED
    BY <2>1, <2>2, <2>3, <2>4 DEF Truthful
<1>8. (DecidedAlone(a) => Truthful(a))'
  BY <1>2, <1>3, <1>5, <1>6, <1>7 DEF Decide
<1>. QED
  BY <1>8, <1>10 DEF TruthInv

\* The world agrees with the status of every action that was decided once, however
\* requests, turns and faults interleave.
THEOREM TheStatusIsTrue == Spec => []StatusIsTruth
<1>1. Init => TurnInv /\ TruthInv
  <2>. SUFFICES ASSUME Init PROVE TurnInv /\ TruthInv
    OBVIOUS
  <2>1. \A a \in Action : Never(approvals, a) /\ Never(mails, a) /\ Never(rows, a)
    BY DEF Init, Zero, Never
  <2>2. \A a \in Action, r \in Reviewer : ~Working(r, a)
    BY DEF Init, Working
  <2>3. \A a \in Action : Truthful(a)
    BY <2>1, <2>2 DEF Init, Truthful, Undecided, AtMostOnce
  <2>. QED
    BY <2>3 DEF Init, TurnInv, TruthInv
<1>2. TypeOK /\ TurnInv /\ TruthInv /\ [Next]_vars => TurnInv' /\ TruthInv'
  <2>. SUFFICES ASSUME TypeOK, TurnInv, TruthInv, [Next]_vars PROVE TurnInv' /\ TruthInv'
    OBVIOUS
  <2>1. TurnInv'
    BY TurnKeeps
  <2>2. CASE UNCHANGED vars
    <3>1. \A b \in Action : (DecidedAlone(b) => Truthful(b))'
      BY <2>2, TruthFrame DEF vars, TruthInv, Working, table, audit, world, requests, mine
    <3>. QED
      BY <2>1, <3>1 DEF TruthInv
  <2>3. CASE Next
    BY <2>1, <2>3, AskTruth, RequestTruth, DecideTruth DEF Next
  <2>. QED
    BY <2>2, <2>3
<1>3. TruthInv => StatusIsTruth
  BY DEF TruthInv, Truthful, StatusIsTruth, AtMostOnce
<1>. QED
  BY <1>1, <1>2, <1>3, TypeCorrect, PTL DEF Spec

-------------------------------------------------------------------------------
(* What the two say together *)

Promise == INSTANCE ConsentGateProofs
              WITH consent <- [r \in Reviewer |-> Allowed(r)],
                   given <- approvals,
                   carried <- [a \in Action |-> IF a \in Sending THEN mails[a]
                                                ELSE rows[a]]

\* However many requests race, no payload of an action is carried out more often
\* than its approvals in the audit log.
THEOREM NoEffectUnapproved ==
    ASSUME IsFiniteSet(Reviewer)
    PROVE  Spec => []Consent!NeverUnasked
<1>1. Promise!Spec => []Promise!NeverUnasked
  BY Promise!NothingUnasked DEF IsFiniteSet, Promise!IsFiniteSet
<1>2. Consent!GateInit => Promise!GateInit
  BY DEF Consent!GateInit, Promise!GateInit, Consent!Nothing, Promise!Nothing
<1>3. [Consent!GateNext]_(Consent!gate) => [Promise!GateNext]_(Promise!gate)
  BY DEF Consent!GateNext, Promise!GateNext, Consent!gate, Promise!gate,
         Consent!Consent, Promise!Consent, Consent!CarryOut, Promise!CarryOut,
         Consent!Waste, Promise!Waste, Consent!Nothing, Promise!Nothing
<1>4. Promise!NeverUnasked => Consent!NeverUnasked
  BY DEF Consent!NeverUnasked, Promise!NeverUnasked
<1>. QED
  BY <1>1, <1>2, <1>3, <1>4, ImplementsConsent, PTL
     DEF KeepsConsent, Consent!Spec, Promise!Spec

===============================================================================
