----------------------------- MODULE DocumentsPage -----------------------------
(***************************************************************************)
(* The documents screen of one browser over DocumentStore: its list, the   *)
(* loads of useAsync that fill it, the poll that runs while something is   *)
(* being ingested, and the uploads and deletions its user starts.  Every   *)
(* request of the store is one of this page's, so it ought to know.        *)
(***************************************************************************)
EXTENDS DocumentStore

VARIABLES
    list,      \* documents.data, by document; "absent" for not in the list
    load,      \* the load whose generation is current: none, sent or read
    copy,      \* what the server has read for it
    asked,     \* what the page waits for on each request
    target,    \* the document of a removal
    captured,  \* the list as it was when the removal was clicked
    tangled,   \* has a removal overlapped anything else, or a load failed?
    unfinished \* documents some run made ready without completing their job

pageVars == <<list, load, copy, asked, target, captured, tangled>>
vars == <<storeVars, pageVars, unfinished>>

Shown   == [Key -> {"absent", "settling", "ready", "failed"}]
Nothing == [k \in Key |-> "absent"]

\* list_documents.  Pending and processing are the statuses the page polls for.
ListNow == [k \in Key |-> CASE row[k] \notin Status -> "absent"
                           [] row[k] \in {"pending", "processing"} -> "settling"
                           [] OTHER -> row[k]]

Settling(shown) == \E k \in Key : shown[k] = "settling"

\* A removal overlaps a load, a poll or another operation of the page.
Tangle ==
    tangled' = \/ tangled
               \/ \E r \in Request :
                    /\ asked'[r] = "removal"
                    /\ load' # "none" \/ \E q \in Request \ {r} : asked'[q] # "nothing"

-------------------------------------------------------------------------------

\* useAsync starts a load; the one before it is abandoned, its generation gone.
StartsLoad == load' = "sent" /\ copy' = Nothing

\* A file is dropped or chosen; and a document's Delete is confirmed.
Choose(r, c) ==
    /\ asked[r] = "nothing"
    /\ Upload(r, c)
    /\ asked' = [asked EXCEPT ![r] = "upload"]
    /\ UNCHANGED <<list, load, copy, target, captured, unfinished>>
    /\ Tangle

Remove(r, k) ==
    /\ asked[r] = "nothing"
    /\ list[k] # "absent"
    /\ Delete(r, k)
    /\ asked' = [asked EXCEPT ![r] = "removal"]
    /\ target' = [target EXCEPT ![r] = k]
    /\ captured' = [captured EXCEPT ![r] = list]
    /\ UNCHANGED <<list, load, copy, unfinished>>
    /\ Tangle

\* The answer is taken, and what was kept for it goes.
Forgets(r) ==
    /\ answer' = [answer EXCEPT ![r] = "none"]
    /\ asked' = [asked EXCEPT ![r] = "nothing"]
    /\ target' = [target EXCEPT ![r] = 0]
    /\ captured' = [captured EXCEPT ![r] = Nothing]

\* A mistake the page could have made in the definition below: an upload that
\* trusts the poll to show what it has done.
UploadUnseen(r) ==
    /\ asked[r] = "upload" /\ pc[r] = "idle"
    /\ Forgets(r)
    /\ UNCHANGED <<rowVars, object, nextKey, runVars, pc, file, key, faults, collided,
                   condemned, list, load, copy, unfinished>>
    /\ Tangle

\* However an upload ends, the list is loaded again.
UploadAnswered(r) ==
    /\ asked[r] = "upload" /\ pc[r] = "idle"
    /\ Forgets(r)
    /\ StartsLoad
    /\ UNCHANGED <<rowVars, object, nextKey, runVars, pc, file, key, faults, collided,
                   condemned, list, unfinished>>
    /\ Tangle

\* A document that was deleted is taken out of the list of the render in which
\* it was clicked, without a load; an error changes nothing but the banner.
RemovalAnswered(r) ==
    /\ asked[r] = "removal" /\ pc[r] = "idle"
    /\ list' = IF answer[r] = "done"
               THEN [captured[r] EXCEPT ![target[r]] = "absent"]
               ELSE list
    /\ Forgets(r)
    /\ UNCHANGED <<rowVars, object, nextKey, runVars, pc, file, key, faults, collided,
                   condemned, load, copy, tangled, unfinished>>

\* The interval of 2.5 s runs while the list has something unsettled.
Poll ==
    /\ Settling(list)
    /\ StartsLoad
    /\ UNCHANGED <<storeVars, list, asked, target, captured, unfinished>>
    /\ Tangle

ServerReads ==
    /\ load = "sent"
    /\ load' = "read"
    /\ copy' = ListNow
    /\ UNCHANGED <<storeVars, list, asked, target, captured, tangled, unfinished>>

Lands ==
    /\ load = "read"
    /\ list' = copy
    /\ load' = "none"
    /\ copy' = Nothing
    /\ UNCHANGED <<storeVars, asked, target, captured, tangled, unfinished>>

\* The load fails: the list stays, under a banner.
LoadFails ==
    /\ load # "none"
    /\ Fault
    /\ load' = "none"
    /\ copy' = Nothing
    /\ tangled' = TRUE
    /\ UNCHANGED <<rowVars, object, nextKey, runVars, reqVars, collided, condemned,
                   list, asked, target, captured, unfinished>>

-------------------------------------------------------------------------------

PageInit ==
    /\ Init
    /\ list = Nothing
    /\ load = "sent"
    /\ copy = Nothing
    /\ asked = [r \in Request |-> "nothing"]
    /\ target = [r \in Request |-> 0]
    /\ captured = [r \in Request |-> Nothing]
    /\ tangled = FALSE
    /\ unfinished = {}

\* What a run does, out of the page's sight, and what ends it early.
RunUnseen ==
    /\ ReadObject \/ Publish \/ Finish \/ \E k \in Key : TakeJob(k)
    /\ UNCHANGED <<pageVars, unfinished>>

BreaksOff ==
    /\ Interrupted \/ GivesUp
    /\ unfinished' = unfinished \cup {k \in Key : k = inHand /\ text = "published"}
    /\ UNCHANGED pageVars

PageNext ==
    \/ RunUnseen \/ BreaksOff
    \/ (\E r \in Request : Serve(r)) /\ UNCHANGED <<pageVars, unfinished>>
    \/ \E r \in Request :
        \/ \E c \in Content : Choose(r, c)
        \/ \E k \in 1..(nextKey - 1) : Remove(r, k)
        \/ UploadAnswered(r)
        \/ RemovalAnswered(r)
    \/ Poll \/ ServerReads \/ Lands \/ LoadFails

PageSpec == PageInit /\ [][PageNext]_vars

\* A list is true of a document, or shows as ready one that a run made ready
\* without completing its job, and that another run has taken up again since.
TrueOf(shown, k) ==
    \/ shown[k] = ListNow[k]
    \/ k \in unfinished /\ shown[k] = "ready" /\ ListNow[k] # "absent"

\* The page never comes to rest on a list that is wrong: while it differs from
\* the table something is polling, loading or about to.  It holds for a page
\* whose requests are the only ones, whatever becomes of them, as long as no
\* load failed and no removal overlapped anything.
RestsOnTruth ==
    ~tangled =>
        \/ \A k \in Key : TrueOf(list, k)
        \/ Settling(list)
        \/ load # "none"
        \/ \E r \in Request : asked[r] # "nothing"

-------------------------------------------------------------------------------
(* The inductive invariant behind RestsOnTruth.                              *)

PageTypeOK ==
    /\ list \in Shown
    /\ load \in {"none", "sent", "read"}
    /\ copy \in Shown
    /\ asked \in [Request -> {"nothing", "upload", "removal"}]
    /\ target \in [Request -> Key \cup {0}]
    /\ captured \in [Request -> Shown]
    /\ tangled \in BOOLEAN
    /\ unfinished \in SUBSET Key

\* The runner settles what is unsettled, and takes up again only what it made
\* ready without completing the job.
Unsettled(k) == row[k] \in {"pending", "processing"}
Published(k) == row[k] = "ready" /\ inHand = k /\ text = "published"

JobsAreUnsettled ==
    /\ \A k \in Key :
          queued[k] => \/ Unsettled(k) \/ Published(k)
                       \/ row[k] = "ready" /\ k \in unfinished
    /\ inHand # 0 => \/ Unsettled(inHand) \/ row[inHand] \notin Status
                     \/ Published(inHand)

\* A list is behind the table at k by no more than a poll will bring, and where
\* no poll runs it is as true as a list can be.
Behind(shown, k) ==
    \/ TrueOf(shown, k)
    \/ shown[k] = "settling" /\ ListNow[k] \in {"ready", "failed"}

Quiet == \A r \in Request : asked[r] = "nothing"

\* An untangled removal is alone: what it captured is the list, and its document
\* is the only one the list may be wrong about, once it is deleted.
Alone(r) ==
    /\ load = "none"
    /\ \A q \in Request \ {r} : asked[q] = "nothing"
    /\ captured[r] = list
    /\ \A k \in Key :
          IF k = target[r] /\ pc[r] = "idle" /\ answer[r] = "done"
          THEN row[k] = "deleted" ELSE Behind(list, k)

PageInv ==
    /\ JobsAreUnsettled
    /\ \A r \in Request :
          /\ pc[r] # "idle" => asked[r] # "nothing"
          /\ asked[r] = "removal" =>
                /\ pc[r] \in {"idle", "delete", "found", "erased"}
                /\ pc[r] # "idle" => key[r] = target[r]
    /\ ~tangled =>
          /\ \A r \in Request : asked[r] = "removal" => Alone(r)
          /\ Quiet /\ load = "none" => \A k \in Key : Behind(list, k)
          /\ Quiet /\ load = "read" => \A k \in Key : Behind(copy, k)
================================================================================
