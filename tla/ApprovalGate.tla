----------------------------- MODULE ApprovalGate -----------------------------
(***************************************************************************)
(* The approval gate: actions proposed by the agent or through the email   *)
(* endpoint, the reviewers who decide them, the executor that carries an   *)
(* approved action out, and the agent run that waits for the outcome.      *)
(*                                                                         *)
(* A decide request reads the row, writes its decision, acts on the world, *)
(* writes the outcome and resumes the graph: five steps with an await      *)
(* between any two, and no lock on the row.  Under READ COMMITTED another  *)
(* request may run in every gap, and a crash may end the request there.    *)
(*                                                                         *)
(* A payload is a model value; Who gives the people it is addressed to.    *)
(* Hashing is injective, so payload_hash is the payload it was taken of.   *)
(***************************************************************************)
EXTENDS Naturals, FiniteSets

CONSTANTS
    Action,      \* rows of pending_actions
    NoAction,    \* no row
    Thread,      \* conversations with the agent
    NoThread,    \* the thread_id of a manual proposal
    ThreadOf,    \* PendingAction.thread_id
    Kind,        \* PendingAction.type
    Private,     \* events without guests: no edit gives them any
    Payload,     \* what can be proposed
    NoPayload,   \* no payload, or the rejected arguments of a refused proposal
    Who,         \* the addresses of a payload
    Members,     \* the values of Who that resolve to workspace members
    Reviewer,    \* decide requests that may be in flight
    MaxCalls,    \* bound: actions proposed, or asked for by a graph, at a time
    MaxClicks,   \* bound: decide requests ever made
    MaxFaults    \* bound: crashes, failed commits and out-of-band writes

ASSUME GateAssumption ==
    /\ NoThread \notin Thread
    /\ NoPayload \notin Payload
    /\ NoAction \notin Action
    /\ ThreadOf \in [Action -> Thread \cup {NoThread}]
    /\ Kind \in [Action -> {"send_email", "create_event", "create_tasks"}]
    /\ \A a \in Private \cap Action : Kind[a] = "create_event"
    /\ MaxCalls \in Nat
    /\ MaxClicks \in Nat
    /\ MaxFaults \in Nat

VARIABLES
    status,      \* PendingAction.status, "absent" before there is a row
    payload,     \* PendingAction.payload
    hash,        \* PendingAction.payload_hash
    approvals,   \* audit entries ACTION_APPROVED, by action and payload hash
    rejections,  \* audit entries ACTION_REJECTED
    executions,  \* audit entries ACTION_EXECUTED
    failures,    \* audit entries ACTION_FAILED
    mails,       \* messages the mail provider has accepted
    rows,        \* committed events, or batches of tasks
    asked,       \* the tool calls a thread's graph is paused on
    turn,        \* the calls a run_agent request has in hand and not committed
    told,        \* what the graph was told of an action
    pc,          \* where each decide request is
    on,          \* action_id of the request
    copy,        \* the request's own copy of the payload
    shown,       \* and of its hash, which is the one the reviewer echoed
    verdict,     \* decision of the request
    clicks,      \* decide requests so far, against MaxClicks
    faults       \* faults so far, against MaxFaults

table    == <<status, payload, hash>>
audit    == <<approvals, rejections, executions, failures>>
world    == <<mails, rows>>
graph    == <<asked, turn, told>>
mine     == <<on, copy, shown>>
requests == <<pc, mine, verdict, clicks>>
vars     == <<table, audit, world, graph, requests, faults>>

Status  == {"pending", "approved", "rejected", "executed", "refused", "failed"}
Sending == {a \in Action \ Private : Kind[a] # "create_tasks"}
Storing == {a \in Action : Kind[a] # "send_email"}
ByAgent == {a \in Action : ThreadOf[a] # NoThread}
Tally   == [Action -> [Payload -> Nat]]

TypeOK ==
    /\ status \in [Action -> Status \cup {"absent"}]
    /\ payload \in [Action -> Payload \cup {NoPayload}]
    /\ hash \in [Action -> Payload \cup {NoPayload}]
    /\ approvals \in Tally
    /\ rejections \in [Action -> Nat]
    /\ executions \in [Action -> Nat]
    /\ failures \in [Action -> Nat]
    /\ mails \in Tally
    /\ rows \in Tally
    /\ asked \in [Thread -> SUBSET Action]
    /\ turn \in [Thread -> SUBSET Action]
    /\ told \in [Action -> {"nothing", "done", "rejected", "failed"}]
    /\ pc \in [Reviewer -> {"idle", "deciding", "approved", "carried", "failing",
                            "telling"}]
    /\ on \in [Reviewer -> Action \cup {NoAction}]
    /\ copy \in [Reviewer -> Payload \cup {NoPayload}]
    /\ shown \in [Reviewer -> Payload \cup {NoPayload}]
    /\ verdict \in [Reviewer -> {"none", "approve", "edit", "reject", "done", "failed"}]
    /\ \A r \in Reviewer : pc[r] # "idle" =>
          on[r] \in Action /\ copy[r] \in Payload /\ shown[r] \in Payload
    /\ clicks \in 0..MaxClicks
    /\ faults \in 0..MaxFaults

Fault == faults < MaxFaults /\ faults' = faults + 1

\* The request is answered, and its session closed.
Leave(r) ==
    /\ pc' = [pc EXCEPT ![r] = "idle"]
    /\ on' = [on EXCEPT ![r] = NoAction]
    /\ copy' = [copy EXCEPT ![r] = NoPayload]
    /\ shown' = [shown EXCEPT ![r] = NoPayload]
    /\ verdict' = [verdict EXCEPT ![r] = "none"]

-------------------------------------------------------------------------------
(* Mistakes the code could have made in the definitions below, each one that *)
(* some property has to notice.                                              *)

\* The echoed hash is compared with the column it was read from.
HashOfTheColumn(a) == hash[a] # NoPayload

\* An edit may redirect an action.
EditAnything(a, edited) == Kind[a] # "create_tasks"

\* The graph is resumed before the outcome is committed.
ExecuteAndTell(r) ==
    /\ pc[r] = "approved"
    /\ mails' = [mails EXCEPT ![on[r]][copy[r]] = @ + 1]
    /\ pc' = [pc EXCEPT ![r] = "telling"]
    /\ verdict' = [verdict EXCEPT ![r] = "done"]
    /\ UNCHANGED <<table, audit, rows, graph, mine, clicks, faults>>

\* Only some errors of the executor are caught.
ExecuteRaises(r) ==
    /\ pc[r] = "approved"
    /\ Leave(r)
    /\ UNCHANGED <<table, audit, world, graph, clicks, faults>>

\* No rollback before the action is marked failed.
MarkFailedKeepingRows(r) ==
    /\ pc[r] = "failing"
    /\ status' = [status EXCEPT ![on[r]] = "failed"]
    /\ rows' = [rows EXCEPT ![on[r]][copy[r]] = @ + 1]
    /\ pc' = [pc EXCEPT ![r] = "telling"]
    /\ verdict' = [verdict EXCEPT ![r] = "failed"]
    /\ UNCHANGED <<payload, hash, audit, mails, graph, mine, clicks, faults>>

-------------------------------------------------------------------------------
(* Proposals *)

Resolves(p) == Who[p] \in Members

Known == {a \in Action : status[a] # "absent"}
            \cup UNION {asked[t] \cup turn[t] : t \in Thread}
Room(calls) == Cardinality(Known \cup calls) <= MaxCalls

\* The new tool calls a run of t's graph may end on.
Calls(t) == {calls \in SUBSET {a \in Action \ Known : ThreadOf[a] = t} : Room(calls)}

\* propose_email: recipients that do not resolve are a NotFound, and no row.
Propose(a, p) ==
    /\ status[a] = "absent"
    /\ a \notin ByAgent
    /\ Resolves(p)
    /\ Room({a})
    /\ status' = [status EXCEPT ![a] = "pending"]
    /\ payload' = [payload EXCEPT ![a] = p]
    /\ hash' = [hash EXCEPT ![a] = p]
    /\ UNCHANGED <<audit, world, graph, requests, faults>>

\* run_agent, the graph: the checkpoint with its interrupts is committed on a
\* connection of its own.  A message to a paused thread starts a new run, and
\* the tool calls the old one waited on are forgotten.  (Talk that asks for
\* nothing, in a thread that waits for nothing, leaves no trace here.)
TurnRun(t) ==
    /\ turn[t] = {}
    /\ \E calls \in Calls(t) :
          /\ calls # {} \/ asked[t] # {}
          /\ asked' = [asked EXCEPT ![t] = calls]
          /\ turn' = [turn EXCEPT ![t] = calls]
    /\ UNCHANGED <<table, audit, world, told, requests, faults>>

\* What the graph does when it is resumed with decisions for the calls it is
\* paused on: it ends its turn, or asks for something new.  The result is read
\* for its reply only.
Resumed(t) == \E calls \in Calls(t) : asked' = [asked EXCEPT ![t] = calls]

\* run_agent, the database: every call the server can resolve becomes a pending
\* action, every other one a refused action.  Only if all were refused is the
\* graph resumed here.
TurnCommit(t) ==
    /\ turn[t] # {}
    /\ turn' = [turn EXCEPT ![t] = {}]
    /\ \E meant \in [turn[t] -> Payload] :
        LET offered == {a \in turn[t] : Resolves(meant[a])} IN
        /\ turn[t] \cap Private \subseteq offered   \* nobody to resolve
        /\ status' = [a \in Action |-> IF a \in offered THEN "pending"
                                       ELSE IF a \in turn[t] THEN "refused"
                                       ELSE status[a]]
        /\ payload' = [a \in Action |-> IF a \in offered THEN meant[a] ELSE payload[a]]
        /\ hash' = [a \in Action |-> IF a \in offered THEN meant[a] ELSE hash[a]]
        /\ IF offered = {} /\ asked[t] = turn[t]
           THEN /\ Resumed(t)
                /\ told' = [a \in Action |-> IF a \in turn[t] THEN "rejected"
                                             ELSE told[a]]
           ELSE UNCHANGED <<asked, told>>
    /\ UNCHANGED <<audit, world, requests, faults>>

\* The provider fails, or the process dies, after the checkpoint was written.
TurnLost(t) ==
    /\ turn[t] # {}
    /\ Fault
    /\ turn' = [turn EXCEPT ![t] = {}]
    /\ UNCHANGED <<table, audit, world, asked, told, requests>>

\* What the hash is there for: the stored payload of a proposal changes after
\* it was shown (test_agent_approval.py:227), its recipients excepted.
Alter(a, p) ==
    /\ status[a] = "pending"
    /\ Who[p] = Who[payload[a]]
    /\ Fault
    /\ payload' = [payload EXCEPT ![a] = p]
    /\ UNCHANGED <<status, hash, audit, world, graph, requests>>

-------------------------------------------------------------------------------
(* decide *)

\* The reviewer echoes the payload_hash that came with the action, and the
\* server takes the hash of what it holds now.
StillAsShown(a) == payload[a] = hash[a]

\* _validate_edit: the merge keeps the server's own recipients.
EditAllowed(a, edited) == Kind[a] # "create_tasks" /\ Who[edited] = Who[payload[a]]

\* The row is read and found pending, and the request is acceptable.  All the
\* refusals (409, or an audited hash mismatch) leave no trace in this state.
Click(r, a) ==
    /\ pc[r] = "idle"
    /\ clicks < MaxClicks
    /\ status[a] = "pending"
    /\ StillAsShown(a)
    /\ \/ \E edited \in Payload :
            /\ EditAllowed(a, edited)
            /\ verdict' = [verdict EXCEPT ![r] = "edit"]
            /\ copy' = [copy EXCEPT ![r] = edited]
            /\ shown' = [shown EXCEPT ![r] = edited]
       \/ \E v \in {"approve", "reject"} :
            /\ verdict' = [verdict EXCEPT ![r] = v]
            /\ copy' = [copy EXCEPT ![r] = payload[a]]
            /\ shown' = [shown EXCEPT ![r] = hash[a]]
    /\ pc' = [pc EXCEPT ![r] = "deciding"]
    /\ on' = [on EXCEPT ![r] = a]
    /\ clicks' = clicks + 1
    /\ UNCHANGED <<table, audit, world, graph, faults>>

\* The decision is committed, on the strength of that read.
Approve(r) ==
    LET a == on[r] IN
    /\ pc[r] = "deciding"
    /\ verdict[r] \in {"approve", "edit"}
    /\ status' = [status EXCEPT ![a] = "approved"]
    /\ IF verdict[r] = "edit"
       THEN /\ payload' = [payload EXCEPT ![a] = copy[r]]
            /\ hash' = [hash EXCEPT ![a] = shown[r]]
       ELSE UNCHANGED <<payload, hash>>
    /\ approvals' = [approvals EXCEPT ![a][shown[r]] = @ + 1]
    /\ pc' = [pc EXCEPT ![r] = "approved"]
    /\ UNCHANGED <<rejections, executions, failures, world, graph, mine,
                   verdict, clicks, faults>>

Reject(r) ==
    LET a == on[r] IN
    /\ pc[r] = "deciding"
    /\ verdict[r] = "reject"
    /\ status' = [status EXCEPT ![a] = "rejected"]
    /\ rejections' = [rejections EXCEPT ![a] = @ + 1]
    /\ pc' = [pc EXCEPT ![r] = "telling"]
    /\ UNCHANGED <<payload, hash, approvals, executions, failures, world, graph,
                   mine, verdict, clicks, faults>>

\* execute: mail goes out here, unless there is nobody to send it to; events and
\* tasks are only flushed as yet.
Execute(r) ==
    LET a == on[r] IN
    /\ pc[r] = "approved"
    /\ IF a \in Sending
       THEN mails' = [mails EXCEPT ![a][copy[r]] = @ + 1]
       ELSE UNCHANGED mails
    /\ pc' = [pc EXCEPT ![r] = "carried"]
    /\ UNCHANGED <<table, audit, rows, graph, mine, verdict, clicks, faults>>

\* execute raises: nothing was sent, or the provider took the message and its
\* answer was lost.
ExecuteFails(r) ==
    LET a == on[r] IN
    /\ pc[r] = "approved"
    /\ \/ UNCHANGED mails
       \/ a \in Sending /\ mails' = [mails EXCEPT ![a][copy[r]] = @ + 1]
    /\ pc' = [pc EXCEPT ![r] = "failing"]
    /\ UNCHANGED <<table, audit, rows, graph, mine, verdict, clicks, faults>>

\* The outcome, its audit entry and the rows are committed together.
Executed(r) ==
    LET a == on[r] IN
    /\ pc[r] = "carried"
    /\ status' = [status EXCEPT ![a] = "executed"]
    /\ executions' = [executions EXCEPT ![a] = @ + 1]
    /\ IF a \in Storing
       THEN rows' = [rows EXCEPT ![a][copy[r]] = @ + 1]
       ELSE UNCHANGED rows
    /\ pc' = [pc EXCEPT ![r] = "telling"]
    /\ verdict' = [verdict EXCEPT ![r] = "done"]
    /\ UNCHANGED <<payload, hash, approvals, rejections, failures, mails, graph,
                   mine, clicks, faults>>

\* _mark_failed: the transaction is rolled back, the row read again and marked,
\* whatever its status has become.
MarkFailed(r) ==
    LET a == on[r] IN
    /\ pc[r] = "failing"
    /\ status' = [status EXCEPT ![a] = "failed"]
    /\ failures' = [failures EXCEPT ![a] = @ + 1]
    /\ pc' = [pc EXCEPT ![r] = "telling"]
    /\ verdict' = [verdict EXCEPT ![r] = "failed"]
    /\ UNCHANGED <<payload, hash, approvals, rejections, executions, world, graph,
                   mine, clicks, faults>>

\* _resume_graph, with the one decision of this request.  A graph that is not
\* paused, or paused on several calls, does not take it; neither raising nor
\* ignoring it changes anything.
Tell(r) ==
    LET a == on[r]
        t == ThreadOf[a]
        heard == [done |-> "done", failed |-> "failed", reject |-> "rejected"]
    IN
    /\ pc[r] = "telling"
    /\ \/ /\ a \in ByAgent
          /\ \E call \in asked[t] :
                /\ asked[t] = {call}
                /\ told' = [told EXCEPT ![call] = heard[verdict[r]]]
          /\ Resumed(t)
       \/ /\ a \in ByAgent => \A call \in asked[t] : asked[t] # {call}
          /\ UNCHANGED <<asked, told>>
    /\ Leave(r)
    /\ UNCHANGED <<table, audit, world, turn, clicks, faults>>

\* The process dies, a commit fails, or the model provider does: the request
\* ends where it is and nobody takes it up again.
Lost(r) ==
    /\ pc[r] # "idle"
    /\ Fault
    /\ Leave(r)
    /\ UNCHANGED <<table, audit, world, graph, clicks>>

-------------------------------------------------------------------------------
Zero == [a \in Action |-> [p \in Payload |-> 0]]

Init ==
    /\ status = [a \in Action |-> "absent"]
    /\ payload = [a \in Action |-> NoPayload]
    /\ hash = [a \in Action |-> NoPayload]
    /\ approvals = Zero
    /\ rejections = [a \in Action |-> 0]
    /\ executions = [a \in Action |-> 0]
    /\ failures = [a \in Action |-> 0]
    /\ mails = Zero
    /\ rows = Zero
    /\ asked = [t \in Thread |-> {}]
    /\ turn = [t \in Thread |-> {}]
    /\ told = [a \in Action |-> "nothing"]
    /\ pc = [r \in Reviewer |-> "idle"]
    /\ on = [r \in Reviewer |-> NoAction]
    /\ copy = [r \in Reviewer |-> NoPayload]
    /\ shown = [r \in Reviewer |-> NoPayload]
    /\ verdict = [r \in Reviewer |-> "none"]
    /\ clicks = 0
    /\ faults = 0

Ask ==
    \/ \E a \in Action, p \in Payload : Propose(a, p) \/ Alter(a, p)
    \/ \E t \in Thread : TurnRun(t) \/ TurnCommit(t) \/ TurnLost(t)

Decide(r) ==
    \/ Approve(r)
    \/ Reject(r)
    \/ Execute(r)
    \/ ExecuteFails(r)
    \/ Executed(r)
    \/ MarkFailed(r)
    \/ Tell(r)

Next ==
    \/ Ask
    \/ \E r \in Reviewer :
        \/ \E a \in Action : Click(r, a)
        \/ Decide(r)
        \/ Lost(r)

Spec == Init /\ [][Next]_vars

-------------------------------------------------------------------------------
(* What should hold of it *)

Never(tally, a) == \A p \in Payload : tally[a][p] = 0
Once(tally, a)  == \E p \in Payload : /\ tally[a][p] = 1
                                      /\ \A q \in Payload \ {p} : tally[a][q] = 0
AtMostOnce(tally, a) == Never(tally, a) \/ Once(tally, a)

\* At most one decision is on record for the action.
DecidedAlone(a) ==
    \/ Never(approvals, a) /\ rejections[a] <= 1
    \/ Once(approvals, a) /\ rejections[a] = 0

\* A request that has consent and has not used it.  What is mailed is acted on
\* when the message leaves, tasks and events without guests when they are
\* committed.
Allowed(r) ==
    IF pc[r] = "approved" \/ (pc[r] = "carried" /\ on[r] \notin Sending)
    THEN {<<on[r], copy[r]>>} ELSE {}

Consent == INSTANCE ConsentGate
              WITH consent <- [r \in Reviewer |-> Allowed(r)],
                   given <- approvals,
                   carried <- [a \in Action |-> IF a \in Sending THEN mails[a]
                                                ELSE rows[a]]

\* Seen, hashed and executed are one object (D20): whatever two reviewers, an
\* altered row, an edit, a crash or a lost answer do, a payload is carried out
\* only for a recorded approval of that very payload, and each at most once.
KeepsConsent == Consent!Spec

\* Recipients are never taken from the model or from an edit (D21): mail goes to
\* people the server found in the workspace when the action was proposed.
MembersOnly ==
    \A a \in Action, p \in Payload : mails[a][p] > 0 => Resolves(p)

\* Where one reviewer decided alone, the status says what happened: "executed" is
\* everything and once, "failed" left no rows behind, anything else is nothing.
StatusIsTruth ==
    \A a \in Action : DecidedAlone(a) =>
        /\ AtMostOnce(mails, a) /\ AtMostOnce(rows, a)
        /\ status[a] = "executed" => /\ a \in Sending => Once(mails, a)
                                     /\ a \in Storing => Once(rows, a)
        /\ status[a] # "executed" => Never(rows, a)
        /\ status[a] \notin {"executed", "approved", "failed"} => Never(mails, a)

\* "approved" never comes to mean that somebody once clicked approve
\* (approval_service.py:296-301): without a fault, a request is still at work on it.
ApprovedIsInHand ==
    faults = 0 => \A a \in Action : status[a] = "approved" =>
        \E r \in Reviewer : on[r] = a /\ pc[r] \in {"approved", "carried", "failing"}

\* The agent is told of success only after something its conversation asked for
\* was committed as executed.
NoFalseSuccess ==
    \A a \in ByAgent : told[a] = "done" =>
        \E b \in Action : ThreadOf[b] = ThreadOf[a] /\ executions[b] > 0

-------------------------------------------------------------------------------
(* Why it holds: the invariant the proofs in ApprovalGateProofs rest on        *)

\* What a reviewer has been shown went through the resolver, and a request acts
\* on the very payload whose hash it compared.
GateInv ==
    /\ \A a \in Action : status[a] = "pending" =>
          payload[a] \in Payload /\ Resolves(payload[a])
    /\ \A r \in Reviewer : pc[r] # "idle" => copy[r] = shown[r] /\ Resolves(copy[r])
    /\ \A r \in Reviewer : pc[r] = "telling" => verdict[r] \in {"done", "failed", "reject"}
    /\ MembersOnly

\* The request has approved the action and not committed what came of it.
Working(r, a) == on[r] = a /\ pc[r] \in {"approved", "carried", "failing"}

Undecided(a) == Never(approvals, a) /\ rejections[a] = 0

\* Where one reviewer decided alone: one request at most works on the action,
\* while its status is "approved", and how far it has come shows in the world.
Truthful(a) ==
    /\ Undecided(a) <=> status[a] \in {"absent", "pending", "refused"}
    /\ \A r \in Reviewer : Working(r, a) => status[a] = "approved"
    /\ \A q, r \in Reviewer : Working(q, a) /\ Working(r, a) => q = r
    /\ \A r \in Reviewer : Working(r, a) =>
          /\ pc[r] = "approved" => Never(mails, a)
          /\ pc[r] = "carried" /\ a \in Sending => Once(mails, a)
    /\ AtMostOnce(mails, a)
    /\ status[a] # "executed" => Never(rows, a)
    /\ status[a] = "executed" => /\ a \in Sending => Once(mails, a)
                                 /\ IF a \in Storing THEN Once(rows, a)
                                                     ELSE Never(rows, a)
    /\ status[a] \notin {"executed", "approved", "failed"} => Never(mails, a)

TruthInv == \A a \in Action : DecidedAlone(a) => Truthful(a)

\* The calls of a turn in hand are its thread's own and have no row yet; what a
\* request decides has one.
TurnInv ==
    /\ \A t \in Thread : \A a \in turn[t] : ThreadOf[a] = t /\ status[a] = "absent"
    /\ \A r \in Reviewer : pc[r] # "idle" => status[on[r]] # "absent"

\* What the graphs are paused on was asked for in their own conversation, and a
\* request that reports success has committed it.
ToldInv ==
    /\ \A t \in Thread : \A a \in asked[t] : ThreadOf[a] = t
    /\ \A r \in Reviewer : pc[r] = "telling" /\ verdict[r] = "done" =>
          executions[on[r]] > 0
    /\ NoFalseSuccess

===============================================================================
