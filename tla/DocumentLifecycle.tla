--------------------------- MODULE DocumentLifecycle ---------------------------
(***************************************************************************)
(* What a workspace is promised about a document, with no queue in sight:  *)
(* the steps its status may take, and when its text can be searched.  The  *)
(* promise is the one the status field makes to the user interface         *)
(* (DocumentStatus in app/constants.py): a document becomes ready only by  *)
(* being processed, and one that has failed stays failed until somebody    *)
(* uploads it again.                                                       *)
(***************************************************************************)
CONSTANT Doc

VARIABLES
    status,     \* Document.status
    searchable  \* does a search find its chunks?

life == <<status, searchable>>

Move(d, from, to) ==
    /\ status[d] \in from
    /\ status' = [status EXCEPT ![d] = to]
    /\ UNCHANGED searchable

\* A document is uploaded, and after it failed, uploaded again.
Offer(d) == Move(d, {"unborn"}, "pending")
Again(d) == Move(d, {"failed"}, "pending")

\* Work begins, also over again on a document that is ready already when
\* nobody could be told that it was.
Take(d)   == Move(d, {"pending", "processing", "ready"}, "processing")
GiveUp(d) == Move(d, {"pending", "processing", "ready"}, "failed")

\* What a dead process was working on is pending again, several at a time.
HandBack(D) ==
    /\ \A d \in D : status[d] = "processing"
    /\ status' = [d \in Doc |-> IF d \in D THEN "pending" ELSE status[d]]
    /\ UNCHANGED searchable

\* The text becomes searchable in the step that says it is.
Publish(d) ==
    /\ status[d] = "processing"
    /\ status' = [status EXCEPT ![d] = "ready"]
    /\ searchable' = [searchable EXCEPT ![d] = TRUE]

\* A document that is removed takes its text with it.
Remove(d) ==
    /\ status[d] \notin {"unborn", "deleted"}
    /\ status' = [status EXCEPT ![d] = "deleted"]
    /\ searchable' = [searchable EXCEPT ![d] = FALSE]

LifeInit ==
    /\ status = [d \in Doc |-> "unborn"]
    /\ searchable = [d \in Doc |-> FALSE]

LifeNext ==
    \/ \E d \in Doc : \/ Offer(d) \/ Again(d) \/ Take(d) \/ GiveUp(d)
                      \/ Publish(d) \/ Remove(d)
    \/ \E D \in SUBSET Doc : HandBack(D)

Spec == LifeInit /\ [][LifeNext]_life

===============================================================================
