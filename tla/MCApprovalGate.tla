---------------------------- MODULE MCApprovalGate ----------------------------
(* Instances of ApprovalGate for TLC: the agent proposes an event with guests, *)
(* an event without and a batch of tasks in one conversation, and a member     *)
(* composes an email.                                                          *)
EXTENDS ApprovalGate, TLC

CONSTANTS event, note, tasks, email, chat, p1, p2, p3

MCKind == event :> "create_event" @@ note :> "create_event"
             @@ tasks :> "create_tasks" @@ email :> "send_email"
MCThreadOf == event :> chat @@ note :> chat @@ tasks :> chat @@ email :> NoThread
MCKindOf   == [a \in Action |-> MCKind[a]]
MCThread   == [a \in Action |-> MCThreadOf[a]]

\* Two wordings to one member, and one to somebody outside the workspace.
MCWho     == [p \in Payload |-> IF p = p3 THEN {"stranger"} ELSE {"member"}]
MCMembers == {{"member"}}

\* Decide requests are interchangeable, and so are the two wordings.
Interchangeable == Permutations(Reviewer) \cup Permutations(Payload \ {p3})

-------------------------------------------------------------------------------
(* What a comment of the program says, and the code does not do.              *)

\* "This is what makes approving twice execute once, even if two clicks race"
\* (approval_service.py:225-226).
ExecutedOnce == \A a \in Action : AtMostOnce(mails, a) /\ AtMostOnce(rows, a)

===============================================================================
