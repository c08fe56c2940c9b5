---------------------------- MODULE IngestionQueue ----------------------------
(***************************************************************************)
(* The ingestion queue: the Postgres table ingestion_jobs, the documents   *)
(* it works on, the runner task inside every API process that drains it,   *)
(* and the upload, re-upload and delete requests that feed it.             *)
(*                                                                         *)
(* A database transaction is one step, taken at its commit: that is what   *)
(* READ COMMITTED lets others observe.  Every await between two            *)
(* transactions of the code is a step boundary here, so crashes, shutdowns *)
(* and other processes interleave exactly where they can in the program.   *)
(*                                                                         *)
(* Job ids are handed out in increasing order and stand for created_at as  *)
(* well: claim_next takes the oldest row, and a purged id never returns.   *)
(* The clock is reduced to what the code asks of it, whether lease_until   *)
(* has passed: a lease is "live" until Lapse makes it "lapsed".            *)
(***************************************************************************)
EXTENDS Integers, FiniteSets

CONSTANTS
    Doc,             \* document rows that will ever be uploaded
    Worker,          \* API processes, each with one ingestion runner
    Requester,       \* in-flight requests re-uploading a failed document
    None,            \* no document
    MaxAttempts,     \* MAX_INGESTION_ATTEMPTS
    HeartbeatsFail,  \* may a heartbeat task die under a job (a database error)?
    MaxJobs,         \* bound: job rows ever created
    MaxFaults        \* bound: crashes, shutdowns, failed database calls, and
                     \* failures of the embedder that were partly paid for

ASSUME QueueAssumption ==
    /\ None \notin Doc
    /\ IsFiniteSet(Worker)
    /\ MaxAttempts \in Nat \ {0}
    /\ HeartbeatsFail \in BOOLEAN
    /\ MaxJobs \in Nat
    /\ MaxFaults \in Nat

VARIABLES
    docStatus,  \* Document.status, with "unborn" and "deleted" for no row
    chunks,     \* the document's sets of DocumentChunk rows, each named by
                \* the number of the usage record it was committed with
    billed,     \* embedding usage records written for the document
    embedded,   \* how often the embedder was paid for the document's text
    jobDoc,     \* IngestionJob.document_id
    jobStatus,  \* IngestionJob.status, "absent" when there is no such row
    lease,      \* IngestionJob.lease_until against the database clock
    attempts,   \* IngestionJob.attempts
    nextJob,    \* the id the next inserted job row gets
    pc,         \* where each runner is in _drain_one
    held,       \* job_id, the local variable of _drain_one
    beating,    \* is the heartbeat task of the held job alive?
    gone,       \* the chunk sets the runner's open transaction has deleted
    retrying,   \* the document a re-upload has read as failed
    faults      \* faults so far, against MaxFaults

jobVars == <<jobDoc, jobStatus, lease, attempts, nextJob>>
docVars == <<docStatus, chunks, billed, embedded>>
runVars == <<pc, held, beating, gone>>
vars == <<docVars, jobVars, runVars, retrying, faults>>

JobId    == 1..MaxJobs
Live     == {"pending", "running"}
Terminal == {"done", "failed"}
InTry    == {"claimed", "ingesting", "embedded", "ingested", "completed"}
Holding  == InTry \cup {"failing", "releasing"}

TypeOK ==
    /\ docStatus \in [Doc -> {"unborn", "pending", "processing", "ready",
                              "failed", "deleted"}]
    /\ chunks \in [Doc -> SUBSET Nat]
    /\ billed \in [Doc -> Nat]
    /\ embedded \in [Doc -> Nat]
    /\ jobDoc \in [JobId -> Doc \cup {None}]
    /\ jobStatus \in [JobId -> Live \cup Terminal \cup {"absent"}]
    /\ lease \in [JobId -> {"none", "live", "lapsed"}]
    /\ attempts \in [JobId -> Nat]
    /\ nextJob \in 1..(MaxJobs + 1)
    /\ pc \in [Worker -> Holding \cup {"down", "idle"}]
    /\ held \in [Worker -> JobId \cup {0}]
    /\ beating \in [Worker -> BOOLEAN]
    /\ gone \in [Worker -> SUBSET Nat]
    /\ retrying \in [Requester -> Doc \cup {None}]
    /\ faults \in 0..MaxFaults

-------------------------------------------------------------------------------
(* Mistakes the code could have made in the definitions below, each one that *)
(* some property has to notice.                                              *)

\* claim_next takes a running job without looking at its lease.
ClaimableUnleased(j) == jobStatus[j] \in Live

\* A known document is queued again whatever its status.
RetryAnything(r, d) ==
    /\ retrying[r] = None
    /\ docStatus[d] \notin {"unborn", "deleted"}
    /\ retrying' = [retrying EXCEPT ![r] = d]
    /\ UNCHANGED <<docVars, jobVars, runVars, faults>>

\* The old chunks stay beside the new ones.
FinishOverOld(w) ==
    /\ pc[w] = "embedded"
    /\ docStatus[jobDoc[held[w]]] # "deleted"
    /\ docStatus' = [docStatus EXCEPT ![jobDoc[held[w]]] = "ready"]
    /\ chunks' = [chunks EXCEPT
                    ![jobDoc[held[w]]] = @ \cup {billed[jobDoc[held[w]]] + 1}]
    /\ billed' = [billed EXCEPT ![jobDoc[held[w]]] = @ + 1]
    /\ pc' = [pc EXCEPT ![w] = "ingested"]
    /\ gone' = [gone EXCEPT ![w] = {}]
    /\ UNCHANGED <<embedded, jobVars, held, beating, retrying, faults>>

Finished(w, status) ==
    /\ pc[w] = "ingested"
    /\ jobStatus' = [jobStatus EXCEPT
                        ![held[w]] = IF @ = "absent" THEN @ ELSE status]
    /\ lease' = [lease EXCEPT ![held[w]] = "none"]
    /\ pc' = [pc EXCEPT ![w] = "completed"]
    /\ UNCHANGED <<docVars, jobDoc, attempts, nextJob, held, beating, gone,
                   retrying, faults>>

\* complete hands the job back.
CompleteAsPending(w) == Finished(w, "pending")

Failed(w, status, docAs) ==
    /\ pc[w] = "failing"
    /\ jobStatus' = [jobStatus EXCEPT
                        ![held[w]] = IF @ = "absent" THEN @ ELSE status]
    /\ docStatus' = [docStatus EXCEPT
                        ![jobDoc[held[w]]] =
                            IF status = "failed" /\ jobStatus[held[w]] # "absent"
                            THEN docAs ELSE @]
    /\ lease' = [lease EXCEPT ![held[w]] = "none"]
    /\ pc' = [pc EXCEPT ![w] = "idle"]
    /\ held' = [held EXCEPT ![w] = 0]
    /\ beating' = [beating EXCEPT ![w] = FALSE]
    /\ UNCHANGED <<chunks, billed, embedded, jobDoc, attempts, nextJob, gone,
                   retrying, faults>>

\* fail gives up without telling the document; one attempt early; one late.
FailSilently(w) ==
    Failed(w, IF attempts[held[w]] >= MaxAttempts THEN "failed" ELSE "pending",
           docStatus[jobDoc[held[w]]])
FailEarly(w) ==
    Failed(w, IF attempts[held[w]] + 1 >= MaxAttempts THEN "failed" ELSE "pending",
           "failed")
FailLate(w) ==
    Failed(w, IF attempts[held[w]] > MaxAttempts THEN "failed" ELSE "pending",
           "failed")

\* release clears the lease and leaves the job running.
ReleaseRunning(w) ==
    /\ pc[w] = "releasing"
    /\ lease' = [lease EXCEPT ![held[w]] = "none"]
    /\ pc' = [pc EXCEPT ![w] = "down"]
    /\ held' = [held EXCEPT ![w] = 0]
    /\ beating' = [beating EXCEPT ![w] = FALSE]
    /\ UNCHANGED <<docVars, jobDoc, jobStatus, attempts, nextJob, gone, retrying,
                   faults>>

-------------------------------------------------------------------------------
(* Reading the tables *)

Exists(d)  == docStatus[d] \notin {"unborn", "deleted"}
Row(j)     == jobStatus[j] # "absent"
RowsOf(d)  == {j \in JobId : jobDoc[j] = d /\ Row(j)}
HasLive(d) == \E j \in JobId : jobDoc[j] = d /\ jobStatus[j] \in Live
Held(j)    == \E w \in Worker : pc[w] \in Holding /\ held[w] = j

\* The WHERE clause of claim_next.
Claimable(j) ==
    \/ jobStatus[j] = "pending"
    \/ jobStatus[j] = "running" /\ lease[j] = "lapsed"

\* purge_terminal_jobs: the statuses once d's finished rows are deleted.
Purged(d) ==
    [j \in JobId |-> IF jobDoc[j] = d /\ jobStatus[j] \in Terminal
                     THEN "absent" ELSE jobStatus[j]]

\* enqueue, over the statuses st its transaction has reached so far.  The
\* partial unique index turns a second live row into no row at all.
Enqueue(d, st) ==
    \/ /\ HasLive(d)
       /\ jobStatus' = st
       /\ UNCHANGED <<jobDoc, lease, attempts, nextJob>>
    \/ /\ ~HasLive(d)
       /\ nextJob <= MaxJobs
       /\ jobStatus' = [st EXCEPT ![nextJob] = "pending"]
       /\ jobDoc' = [jobDoc EXCEPT ![nextJob] = d]
       /\ lease' = [lease EXCEPT ![nextJob] = "none"]
       /\ attempts' = [attempts EXCEPT ![nextJob] = 0]
       /\ nextJob' = nextJob + 1

Fault == faults < MaxFaults /\ faults' = faults + 1

-------------------------------------------------------------------------------
(* The requests *)

\* upload_document, new bytes: the row and its job in one transaction.
Upload(d) ==
    /\ docStatus[d] = "unborn"
    /\ docStatus' = [docStatus EXCEPT ![d] = "pending"]
    /\ Enqueue(d, jobStatus)
    /\ UNCHANGED <<chunks, billed, embedded, runVars, retrying, faults>>

\* upload_document, known bytes: the row is read, and found failed ...
RetryRead(r, d) ==
    /\ retrying[r] = None
    /\ docStatus[d] = "failed"
    /\ retrying' = [retrying EXCEPT ![r] = d]
    /\ UNCHANGED <<docVars, jobVars, runVars, faults>>

\* ... and queued again on the strength of that read.
RetryCommit(r) ==
    /\ retrying[r] # None
    /\ docStatus[retrying[r]] # "deleted"
    /\ docStatus' = [docStatus EXCEPT ![retrying[r]] = "pending"]
    /\ Enqueue(retrying[r], Purged(retrying[r]))
    /\ retrying' = [retrying EXCEPT ![r] = None]
    /\ UNCHANGED <<chunks, billed, embedded, runVars, faults>>

\* The row went away in between: the UPDATE matches nothing and raises.
RetryLost(r) ==
    /\ retrying[r] # None
    /\ docStatus[retrying[r]] = "deleted"
    /\ retrying' = [retrying EXCEPT ![r] = None]
    /\ UNCHANGED <<docVars, jobVars, runVars, faults>>

\* delete_document: chunks and jobs go with the row, by ON DELETE CASCADE.
Delete(d) ==
    /\ Exists(d)
    /\ docStatus' = [docStatus EXCEPT ![d] = "deleted"]
    /\ chunks' = [chunks EXCEPT ![d] = {}]
    /\ jobStatus' = [j \in JobId |-> IF jobDoc[j] = d THEN "absent"
                                     ELSE jobStatus[j]]
    /\ UNCHANGED <<billed, embedded, jobDoc, lease, attempts, nextJob, runVars,
                   retrying, faults>>

-------------------------------------------------------------------------------
(* The runner *)

\* start and _reclaim_on_startup: every lapsed job goes back to pending, and
\* with it the document it left at processing.  A reclaim that raises is
\* logged and skipped.
Start(w) ==
    LET lapsed == {j \in JobId : jobStatus[j] = "running" /\ lease[j] = "lapsed"}
    IN
    /\ pc[w] = "down"
    /\ pc' = [pc EXCEPT ![w] = "idle"]
    /\ \/ /\ jobStatus' = [j \in JobId |-> IF j \in lapsed THEN "pending"
                                           ELSE jobStatus[j]]
          /\ lease' = [j \in JobId |-> IF j \in lapsed THEN "none" ELSE lease[j]]
          /\ docStatus' =
                [d \in Doc |-> IF /\ docStatus[d] = "processing"
                                  /\ \E j \in lapsed : jobDoc[j] = d
                               THEN "pending" ELSE docStatus[d]]
          /\ UNCHANGED faults
       \/ Fault /\ UNCHANGED <<jobStatus, lease, docStatus>>
    /\ UNCHANGED <<chunks, billed, embedded, jobDoc, attempts, nextJob, held,
                   beating, gone, retrying>>

\* claim_next and the start of the heartbeat task.
Claim(w) ==
    /\ pc[w] = "idle"
    /\ \E j \in JobId :
        /\ Claimable(j)
        /\ \A i \in JobId : Claimable(i) => j <= i
        /\ jobStatus' = [jobStatus EXCEPT ![j] = "running"]
        /\ lease' = [lease EXCEPT ![j] = "live"]
        /\ attempts' = [attempts EXCEPT ![j] = @ + 1]
        /\ held' = [held EXCEPT ![w] = j]
    /\ pc' = [pc EXCEPT ![w] = "claimed"]
    /\ beating' = [beating EXCEPT ![w] = TRUE]
    /\ UNCHANGED <<docVars, jobDoc, nextJob, gone, retrying, faults>>

\* ingest_document up to its first commit.  A document deleted before the
\* read is skipped; deleted between the read and the commit, it raises.
BeginIngest(w) ==
    /\ pc[w] = "claimed"
    /\ LET d == jobDoc[held[w]] IN
        \/ /\ Exists(d)
           /\ docStatus' = [docStatus EXCEPT ![d] = "processing"]
           /\ pc' = [pc EXCEPT ![w] = "ingesting"]
        \/ /\ ~Exists(d)
           /\ \E next \in {"ingested", "failing"} : pc' = [pc EXCEPT ![w] = next]
           /\ UNCHANGED docStatus
    /\ UNCHANGED <<chunks, billed, embedded, jobVars, held, beating, gone,
                   retrying, faults>>

\* The text was fetched, cut up and embedded, which is when it is paid for, and
\* the transaction that is to store it has deleted the chunks it sees.
Embed(w) ==
    LET d == jobDoc[held[w]] IN
    /\ pc[w] = "ingesting"
    /\ embedded' = [embedded EXCEPT ![d] = @ + 1]
    /\ gone' = [gone EXCEPT ![w] = chunks[d]]
    /\ pc' = [pc EXCEPT ![w] = "embedded"]
    /\ UNCHANGED <<docStatus, chunks, billed, jobVars, held, beating, retrying,
                   faults>>

\* ingest_document's second commit: chunks, usage record and status.
\* Writing chunks for a deleted document violates the foreign key.
FinishIngest(w) ==
    /\ pc[w] = "embedded"
    /\ LET d == jobDoc[held[w]] IN
        \/ /\ Exists(d)
           /\ docStatus' = [docStatus EXCEPT ![d] = "ready"]
           /\ chunks' = [chunks EXCEPT ![d] = (@ \ gone[w]) \cup {billed[d] + 1}]
           /\ billed' = [billed EXCEPT ![d] = @ + 1]
           /\ pc' = [pc EXCEPT ![w] = "ingested"]
        \/ /\ ~Exists(d)
           /\ pc' = [pc EXCEPT ![w] = "failing"]
           /\ UNCHANGED <<docStatus, chunks, billed>>
    /\ gone' = [gone EXCEPT ![w] = {}]
    /\ UNCHANGED <<embedded, jobVars, held, beating, retrying, faults>>

\* Storage, extraction, the embedder or the database raised before anything was
\* paid for: a text that cannot be extracted does so at every attempt.
IngestError(w) ==
    /\ pc[w] \in {"claimed", "ingesting"}
    /\ pc' = [pc EXCEPT ![w] = "failing"]
    /\ UNCHANGED <<docVars, jobVars, held, beating, gone, retrying, faults>>

\* The embedder raised after some of the batches: they are paid for and lost.
EmbedError(w) ==
    /\ pc[w] = "ingesting"
    /\ Fault
    /\ embedded' = [embedded EXCEPT ![jobDoc[held[w]]] = @ + 1]
    /\ pc' = [pc EXCEPT ![w] = "failing"]
    /\ UNCHANGED <<docStatus, chunks, billed, jobVars, held, beating, gone,
                   retrying>>

\* The transaction that stores the chunks raised, or, after the document became
\* ready, complete or purge_terminal_jobs: one except clause catches them all.
CleanupError(w) ==
    /\ pc[w] \in {"embedded", "ingested", "completed"}
    /\ Fault
    /\ pc' = [pc EXCEPT ![w] = "failing"]
    /\ gone' = [gone EXCEPT ![w] = {}]
    /\ UNCHANGED <<docVars, jobVars, held, beating, retrying>>

\* complete: no condition on who holds the row, or on its status.
Complete(w) ==
    /\ pc[w] = "ingested"
    /\ IF Row(held[w])
       THEN /\ jobStatus' = [jobStatus EXCEPT ![held[w]] = "done"]
            /\ lease' = [lease EXCEPT ![held[w]] = "none"]
       ELSE UNCHANGED <<jobStatus, lease>>
    /\ pc' = [pc EXCEPT ![w] = "completed"]
    /\ UNCHANGED <<docVars, jobDoc, attempts, nextJob, held, beating, gone,
                   retrying, faults>>

\* The worker is done with its job, its heartbeat task is cancelled, and what its
\* transaction had not committed is rolled back.
LetGo(w, next) ==
    /\ pc' = [pc EXCEPT ![w] = next]
    /\ held' = [held EXCEPT ![w] = 0]
    /\ beating' = [beating EXCEPT ![w] = FALSE]
    /\ gone' = [gone EXCEPT ![w] = {}]

\* purge_terminal_jobs after complete.
Purge(w) ==
    /\ pc[w] = "completed"
    /\ jobStatus' = Purged(jobDoc[held[w]])
    /\ LetGo(w, "idle")
    /\ UNCHANGED <<docVars, jobDoc, lease, attempts, nextJob, retrying, faults>>

\* fail: the row's own attempts decide between another go and giving up.
Fail(w) ==
    /\ pc[w] = "failing"
    /\ LET j == held[w]
           givenUp == attempts[j] >= MaxAttempts
       IN IF Row(j)
          THEN /\ jobStatus' = [jobStatus EXCEPT
                                  ![j] = IF givenUp THEN "failed" ELSE "pending"]
               /\ lease' = [lease EXCEPT ![j] = "none"]
               /\ docStatus' = [docStatus EXCEPT
                                  ![jobDoc[j]] = IF givenUp THEN "failed" ELSE @]
          ELSE UNCHANGED <<jobStatus, lease, docStatus>>
    /\ LetGo(w, "idle")
    /\ UNCHANGED <<chunks, billed, embedded, jobDoc, attempts, nextJob, retrying,
                   faults>>

\* fail itself raised: _loop logs it, and the row stays running.
Abandon(w) ==
    /\ pc[w] = "failing"
    /\ Fault
    /\ LetGo(w, "idle")
    /\ UNCHANGED <<docVars, jobVars, retrying>>

\* stop: the cancellation lands inside the try block, and is caught there ...
Shutdown(w) ==
    /\ pc[w] \in InTry
    /\ Fault
    /\ pc' = [pc EXCEPT ![w] = "releasing"]
    /\ gone' = [gone EXCEPT ![w] = {}]
    /\ UNCHANGED <<docVars, jobVars, held, beating, retrying>>

\* ... and the job is handed back, whatever has become of it meanwhile.
Release(w) ==
    /\ pc[w] = "releasing"
    /\ IF Row(held[w])
       THEN /\ jobStatus' = [jobStatus EXCEPT ![held[w]] = "pending"]
            /\ lease' = [lease EXCEPT ![held[w]] = "none"]
       ELSE UNCHANGED <<jobStatus, lease>>
    /\ LetGo(w, "down")
    /\ UNCHANGED <<docVars, jobDoc, attempts, nextJob, retrying, faults>>

\* The process dies, or is told to stop where nothing catches it.
Crash(w) ==
    /\ pc[w] # "down"
    /\ Fault
    /\ LetGo(w, "down")
    /\ UNCHANGED <<docVars, jobVars, retrying>>

-------------------------------------------------------------------------------
(* Leases *)

\* heartbeat: pushes the lease of job_id out, with no other condition.
Heartbeat(w) ==
    /\ pc[w] \in Holding
    /\ beating[w]
    /\ Row(held[w])
    /\ lease[held[w]] # "live"
    /\ lease' = [lease EXCEPT ![held[w]] = "live"]
    /\ UNCHANGED <<docVars, jobDoc, jobStatus, attempts, nextJob, runVars,
                   retrying, faults>>

\* One database error ends the heartbeat task; nobody looks until the job ends.
HeartbeatDies(w) ==
    /\ HeartbeatsFail
    /\ pc[w] \in Holding
    /\ beating[w]
    /\ Fault
    /\ beating' = [beating EXCEPT ![w] = FALSE]
    /\ UNCHANGED <<docVars, jobVars, pc, held, gone, retrying>>

\* INGESTION_LEASE_SECONDS pass without a heartbeat.
Lapse(j) ==
    /\ jobStatus[j] = "running"
    /\ lease[j] = "live"
    /\ \A w \in Worker : ~(pc[w] \in Holding /\ held[w] = j /\ beating[w])
    /\ lease' = [lease EXCEPT ![j] = "lapsed"]
    /\ UNCHANGED <<docVars, jobDoc, jobStatus, attempts, nextJob, runVars,
                   retrying, faults>>

-------------------------------------------------------------------------------
Init ==
    /\ docStatus = [d \in Doc |-> "unborn"]
    /\ chunks = [d \in Doc |-> {}]
    /\ billed = [d \in Doc |-> 0]
    /\ embedded = [d \in Doc |-> 0]
    /\ jobDoc = [j \in JobId |-> None]
    /\ jobStatus = [j \in JobId |-> "absent"]
    /\ lease = [j \in JobId |-> "none"]
    /\ attempts = [j \in JobId |-> 0]
    /\ nextJob = 1
    /\ pc = [w \in Worker |-> "down"]
    /\ held = [w \in Worker |-> 0]
    /\ beating = [w \in Worker |-> FALSE]
    /\ gone = [w \in Worker |-> {}]
    /\ retrying = [r \in Requester |-> None]
    /\ faults = 0

\* What a runner does of its own accord.
Work(w) ==
    \/ BeginIngest(w)
    \/ Embed(w)
    \/ FinishIngest(w)
    \/ IngestError(w)
    \/ Complete(w)
    \/ Purge(w)
    \/ Fail(w)
    \/ Release(w)

Request ==
    \/ \E d \in Doc : Upload(d) \/ Delete(d)
    \/ \E r \in Requester, d \in Doc : RetryRead(r, d)
    \/ \E r \in Requester : RetryCommit(r) \/ RetryLost(r)

Disrupt(w) ==
    \/ EmbedError(w)
    \/ CleanupError(w)
    \/ Abandon(w)
    \/ Shutdown(w)
    \/ Crash(w)
    \/ HeartbeatDies(w)

Next ==
    \/ Request
    \/ \E w \in Worker : Start(w) \/ Claim(w) \/ Work(w) \/ Heartbeat(w) \/ Disrupt(w)
    \/ \E j \in JobId : Lapse(j)

Spec == Init /\ [][Next]_vars

\* The runner task is started by the lifespan of every process, the platform
\* restarts a process that died, the loop polls for ever, and clocks advance.
\* Requests owe nothing, and no fault has to happen.
Fairness ==
    /\ \A w \in Worker : /\ WF_vars(Start(w))
                         /\ WF_vars(Claim(w))
                         /\ WF_vars(Work(w))
    /\ \A j \in JobId : WF_vars(Lapse(j))

FairSpec == Spec /\ Fairness

-------------------------------------------------------------------------------
(* What should hold of it *)

\* Document.ingestion_jobs carries a partial unique index over live rows; with
\* purge_terminal_jobs in every path that queues again, a document never even
\* has two rows, live or finished, so no fail or release can run into the index.
OneRowPerDocument ==
    \A i, j \in JobId : Row(i) /\ Row(j) /\ jobDoc[i] = jobDoc[j] => i = j

\* As long as heartbeats run, two runners never work on one job: SKIP LOCKED
\* keeps claims apart and the lease keeps a reclaim off a job in progress.
OneWorkerPerJob ==
    ~HeartbeatsFail =>
        \A v, w \in Worker :
            pc[v] \in Holding /\ pc[w] \in Holding /\ held[v] = held[w] => v = w

\* A document the user sees as pending or processing is on the queue: the spinner
\* always stands for work that somebody will still do (document_service.py:91).
UnsettledIsQueued ==
    \A d \in Doc : docStatus[d] \in {"pending", "processing"} => HasLive(d)

TextStored ==
    \A d \in Doc : /\ docStatus[d] = "ready" => chunks[d] # {}
                   /\ chunks[d] # {} => Exists(d) /\ billed[d] > 0

StoredOnce == ~HeartbeatsFail => \A d \in Doc : \A a, b \in chunks[d] : a = b

\* Status, chunks and the usage record change together: a document that ever
\* reached ready keeps its text through every crash, failure and re-ingestion, and
\* chunks that exist are on the bill.  Re-ingestion replaces them ("idempotent by
\* construction", ingest_document.py:34): as long as heartbeats run, no passage is
\* stored twice.
ReadyIsSearchable == TextStored /\ StoredOnce

\* A text that was paid for is paid for again only on account of a fault
\* (queue.py:27-29, ingest_document.py:78): while heartbeats run and re-uploads come
\* one at a time, failures before the embedding, retries and re-uploads never lead
\* to a document's being embedded anew.
PaidAgainForFaultsOnly == \A d \in Doc : embedded[d] <= 1 + faults

\* A job is tried MAX_INGESTION_ATTEMPTS times, and beyond that no more often than
\* crashes, shutdowns and dead heartbeats took an attempt from it (queue.py:176 looks
\* at the limit in fail only): no interplay of runners lets one go round for ever.
AttemptsBounded == \A j \in JobId : attempts[j] <= MaxAttempts + faults

\* A document is retired only by the attempt that used up the last try of the
\* job it has now, never by an older job's runner (queue.py:165-168).
RetiredAtTheLimit ==
    \A d \in Doc, j \in JobId :
        docStatus[d] = "failed" /\ jobDoc[j] = d /\ Row(j) =>
            attempts[j] >= MaxAttempts

\* The queue seen from the document list: its table, leases and runners hidden.
Searchable == [d \in Doc |-> chunks[d] # {}]

Lifecycle == INSTANCE DocumentLifecycle
                WITH status <- docStatus, searchable <- Searchable

\* Every step of the queue moves a document as its lifecycle allows, or not at
\* all: no runner brings back a document that was retired, and none becomes
\* ready without having been processed.
KeepsLifecycle == Lifecycle!Spec

\* A document that was asked for settles: it is ready, failed or deleted in the
\* end, provided the faults stop.
Settles ==
    \A d \in Doc : docStatus[d] \in {"pending", "processing"}
                     ~> docStatus[d] \in {"ready", "failed", "deleted"}

-------------------------------------------------------------------------------
(* Why it holds: the invariants the proofs in IngestionQueueProofs rest on     *)

\* Whatever the faults: rows exist below nextJob only, always for a document
\* that exists, a runner holds a job that was once there, and a re-upload never
\* read a document that was not.
TableInv ==
    /\ \A j \in JobId : /\ j < nextJob <=> jobDoc[j] # None
                        /\ Row(j) => jobDoc[j] # None /\ Exists(jobDoc[j])
    /\ \A w \in Worker : pc[w] \in Holding => held[w] \in JobId /\ held[w] < nextJob
    /\ \A r \in Requester :
          retrying[r] # None => docStatus[retrying[r]] # "unborn"
    /\ OneRowPerDocument
    /\ RetiredAtTheLimit
    /\ TextStored

\* While heartbeats run, a job in hand is not up for grabs.
LeaseInv ==
    ~HeartbeatsFail =>
        /\ \A w \in Worker : pc[w] \in Holding =>
              /\ beating[w]
              /\ jobStatus[held[w]] # "pending"
              /\ jobStatus[held[w]] = "running" => lease[held[w]] = "live"
        /\ OneWorkerPerJob

\* Then the job of a runner that has not stored its chunks yet is running still, and
\* what it is about to store takes the place of all there is.
Busy == {"claimed", "ingesting", "embedded"}

ReplacesAll(w) ==
    pc[w] \in Busy /\ docStatus[jobDoc[held[w]]] # "deleted" =>
        /\ jobStatus[held[w]] = "running"
        /\ pc[w] = "embedded" => chunks[jobDoc[held[w]]] \subseteq gone[w]

StoreInv == StoredOnce /\ (~HeartbeatsFail => \A w \in Worker : ReplacesAll(w))

\* With one re-upload at a time besides: where its job stands says where the
\* document stands, so no step settles the job and leaves the document behind.
OneAtATime == ~HeartbeatsFail /\ \A q, r \in Requester : q = r

WorkInv(w) ==
    pc[w] \in Holding =>
        LET d == jobDoc[held[w]] IN
        /\ \/ jobStatus[held[w]] = "absent" /\ docStatus[d] = "deleted"
           \/ jobStatus[held[w]] = "running" /\ pc[w] # "completed"
           \/ /\ jobStatus[held[w]] = "done"
              /\ pc[w] \in {"completed", "failing", "releasing"}
        /\ Row(held[w]) /\ (pc[w] = "ingested" \/ jobStatus[held[w]] = "done")
              => docStatus[d] = "ready"
        /\ Row(held[w]) /\ pc[w] \in {"ingesting", "embedded"}
              => docStatus[d] = "processing"

QueueInv ==
    OneAtATime =>
        /\ UnsettledIsQueued
        /\ \A w \in Worker : WorkInv(w)
        /\ \A d \in Doc, j \in JobId :
              docStatus[d] = "failed" /\ jobDoc[j] = d
                => jobStatus[j] \in {"absent", "failed"}
        /\ \A r \in Requester :
              retrying[r] # None => docStatus[retrying[r]] \in {"failed", "deleted"}

\* A document's text is paid for and not to be paid for again unless something goes
\* wrong: whoever works on it is past the embedding, and nothing else is queued.
WorksOn(w, d) == pc[w] \in Holding /\ jobDoc[held[w]] = d

Settled(d) ==
    /\ docStatus[d] \notin {"unborn", "failed"}
    /\ \A w \in Worker : WorksOn(w, d) =>
          \/ pc[w] \in {"embedded", "ingested", "completed"}
          \/ pc[w] = "failing" /\ ~Row(held[w])
    /\ \A j \in RowsOf(d) :
          jobStatus[j] = "done" \/ (jobStatus[j] = "running" /\ Held(j))

SpentInv ==
    OneAtATime =>
        /\ \A v, w \in Worker, d \in Doc : WorksOn(v, d) /\ WorksOn(w, d) => v = w
        /\ \A d \in Doc : embedded[d] <= faults + IF Settled(d) THEN 1 ELSE 0

\* Every attempt beyond the limit was lost by a fault of its own.  A job is loose
\* when it is, or soon may be, up for another attempt that no fault was charged for.
Releasing == {w \in Worker : pc[w] = "releasing"}
Beats(w, j) == pc[w] \in Holding /\ held[w] = j /\ beating[w]
Loose(j) ==
    \/ jobStatus[j] = "pending"
    \/ jobStatus[j] = "running" /\ \A w \in Worker : Beats(w, j) => pc[w] = "completed"

AttemptsInv ==
    /\ Cardinality(Releasing) <= faults
    /\ \A j \in JobId :
          /\ attempts[j] + Cardinality(Releasing) + (IF Loose(j) THEN 1 ELSE 0)
                <= MaxAttempts + faults
          /\ jobStatus[j] = "running" /\ lease[j] = "lapsed"
                => \A w \in Worker : ~Beats(w, j)

===============================================================================
