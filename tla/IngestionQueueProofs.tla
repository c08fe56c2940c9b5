------------------------- MODULE IngestionQueueProofs -------------------------
(***************************************************************************)
(* Theorems about IngestionQueue, for any number of documents, runners,    *)
(* requests, jobs and faults.                                              *)
(***************************************************************************)
EXTENDS IngestionQueue, FiniteSetTheorems, TLAPS

-------------------------------------------------------------------------------
(* Type correctness *)

\* enqueue keeps the job table well typed.
LEMMA EnqueueType ==
    ASSUME TypeOK, NEW d \in Doc,
           NEW st \in [JobId -> Live \cup Terminal \cup {"absent"}],
           Enqueue(d, st)
    PROVE  /\ jobDoc' \in [JobId -> Doc \cup {None}]
           /\ jobStatus' \in [JobId -> Live \cup Terminal \cup {"absent"}]
           /\ lease' \in [JobId -> {"none", "live", "lapsed"}]
           /\ attempts' \in [JobId -> Nat]
           /\ nextJob' \in 1..(MaxJobs + 1)
<1>1. CASE HasLive(d)
  BY <1>1 DEF TypeOK, Enqueue
<1>2. CASE ~HasLive(d)
  <2>1. nextJob \in JobId
    BY <1>2, QueueAssumption DEF TypeOK, Enqueue, JobId
  <2>2. nextJob' \in 1..(MaxJobs + 1)
    BY <1>2, QueueAssumption DEF TypeOK, Enqueue
  <2>. QED
    BY <1>2, <2>1, <2>2 DEF TypeOK, Enqueue, Live
<1>. QED
  BY <1>1, <1>2

\* Uploads, deletions and re-uploads keep the types.
LEMMA RequestType ==
    ASSUME TypeOK, Request
    PROVE  TypeOK'
<1>1. ASSUME NEW d \in Doc, Upload(d) PROVE TypeOK'
  BY <1>1, EnqueueType DEF TypeOK, Upload, runVars
<1>2. ASSUME NEW d \in Doc, Delete(d) PROVE TypeOK'
  BY <1>2 DEF TypeOK, Delete, runVars, Live, Terminal
<1>3. ASSUME NEW r \in Requester, NEW d \in Doc, RetryRead(r, d) PROVE TypeOK'
  BY <1>3 DEF TypeOK, RetryRead, docVars, jobVars, runVars
<1>4. ASSUME NEW r \in Requester, RetryCommit(r) PROVE TypeOK'
  <2>1. Purged(retrying[r]) \in [JobId -> Live \cup Terminal \cup {"absent"}]
    BY DEF TypeOK, Purged
  <2>2. retrying[r] \in Doc
    BY <1>4 DEF TypeOK, RetryCommit
  <2>. QED
    BY <1>4, <2>1, <2>2, EnqueueType DEF TypeOK, RetryCommit, runVars
<1>5. ASSUME NEW r \in Requester, RetryLost(r) PROVE TypeOK'
  BY <1>5 DEF TypeOK, RetryLost, docVars, jobVars, runVars
<1>. QED
  BY <1>1, <1>2, <1>3, <1>4, <1>5 DEF Request

\* So does everything a runner does of its own accord ...
LEMMA WorkType ==
    ASSUME TypeOK, TableInv, NEW w \in Worker, Work(w)
    PROVE  TypeOK'
<1>. USE DEF TypeOK, Holding, InTry, Live, Terminal
<1>1. CASE BeginIngest(w)
  <2>1. \E at \in {"ingesting", "ingested", "failing"} : pc' = [pc EXCEPT ![w] = at]
    BY <1>1 DEF BeginIngest
  <2>2. pc' \in [Worker -> Holding \cup {"down", "idle"}]
    BY <2>1
  <2>3. docStatus' \in [Doc -> {"unborn", "pending", "processing", "ready",
                               "failed", "deleted"}]
    BY <1>1 DEF BeginIngest
  <2>4. UNCHANGED <<chunks, billed, embedded, jobVars, held, beating, gone,
                    retrying, faults>>
    BY <1>1 DEF BeginIngest
  <2>. QED
    BY <2>2, <2>3, <2>4 DEF jobVars
<1>2. CASE FinishIngest(w)
  <2>1. docStatus' \in [Doc -> {"unborn", "pending", "processing", "ready",
                               "failed", "deleted"}]
    BY <1>2 DEF FinishIngest
  <2>2. chunks' \in [Doc -> SUBSET Nat] /\ billed' \in [Doc -> Nat]
    <3>1. CASE UNCHANGED <<chunks, billed>>
      BY <3>1
    <3>2. CASE ~UNCHANGED <<chunks, billed>>
      <4>. DEFINE d == jobDoc[held[w]]
                  new == (chunks[d] \ gone[w]) \cup {billed[d] + 1}
      <4>1. /\ chunks' = [chunks EXCEPT ![d] = new]
            /\ billed' = [billed EXCEPT ![d] = billed[d] + 1]
        BY <1>2, <3>2 DEF FinishIngest
      <4>2. d \in Doc => new \in SUBSET Nat
        OBVIOUS
      <4>3. chunks' \in [Doc -> SUBSET Nat]
        BY <4>1, <4>2
      <4>4. billed' \in [Doc -> Nat]
        <5>. DEFINE n == billed[d] + 1
        <5>1. d \in Doc => n \in Nat
          OBVIOUS
        <5>2. billed' = [billed EXCEPT ![d] = n]
          BY <4>1
        <5>. HIDE DEF n, d
        <5>. QED
          BY <5>1, <5>2
      <4>. QED
        BY <4>3, <4>4
    <3>. QED
      BY <3>1, <3>2
  <2>4. pc' \in [Worker -> Holding \cup {"down", "idle"}]
    BY <1>2 DEF FinishIngest
  <2>5. /\ gone' \in [Worker -> SUBSET Nat]
        /\ UNCHANGED <<embedded, jobVars, held, beating, retrying, faults>>
    BY <1>2 DEF FinishIngest
  <2>. QED
    BY <2>1, <2>2, <2>4, <2>5 DEF jobVars
<1>3. CASE IngestError(w)
  BY <1>3 DEF IngestError, jobVars, docVars
<1>4. CASE Complete(w)
  BY <1>4 DEF Complete, docVars
<1>5. CASE Purge(w)
  <2>1. Purged(jobDoc[held[w]]) \in [JobId -> Live \cup Terminal \cup {"absent"}]
    BY DEF Purged
  <2>. QED
    BY <1>5, <2>1 DEF Purge, LetGo, docVars
<1>6. CASE Fail(w)
  BY <1>6 DEF Fail, LetGo
<1>7. CASE Release(w)
  BY <1>7 DEF Release, LetGo, docVars
<1>8. CASE Embed(w)
  <2>. DEFINE d == jobDoc[held[w]]
  <2>1. d \in Doc
    BY <1>8, QueueAssumption DEF Embed, TableInv, JobId
  <2>2. gone' \in [Worker -> SUBSET Nat] /\ embedded' \in [Doc -> Nat]
    BY <1>8, <2>1 DEF Embed
  <2>. QED
    BY <1>8, <2>2 DEF Embed, jobVars
<1>. QED
  BY <1>1, <1>2, <1>3, <1>4, <1>5, <1>6, <1>7, <1>8 DEF Work

\* ... and everything that interrupts it.
LEMMA DisruptType ==
    ASSUME TypeOK, NEW w \in Worker, Disrupt(w)
    PROVE  TypeOK'
<1>. USE QueueAssumption
     DEF TypeOK, Holding, InTry, Live, Terminal, Fault, docVars, jobVars
<1>1. CASE CleanupError(w)
  BY <1>1 DEF CleanupError
<1>2. CASE Abandon(w)
  BY <1>2 DEF Abandon, LetGo
<1>3. CASE Shutdown(w)
  BY <1>3 DEF Shutdown
<1>4. CASE Crash(w)
  BY <1>4 DEF Crash, LetGo
<1>5. CASE HeartbeatDies(w)
  BY <1>5 DEF HeartbeatDies
<1>6. CASE EmbedError(w)
  <2>. DEFINE d == jobDoc[held[w]]
              n == embedded[d] + 1
  <2>1. d \in Doc => n \in Nat
    OBVIOUS
  <2>2. embedded' \in [Doc -> Nat]
    <3>1. embedded' = [embedded EXCEPT ![d] = n]
      BY <1>6 DEF EmbedError
    <3>. HIDE DEF n, d
    <3>. QED
      BY <2>1, <3>1
  <2>. QED
    BY <1>6, <2>2 DEF EmbedError
<1>. QED
  BY <1>1, <1>2, <1>3, <1>4, <1>5, <1>6 DEF Disrupt

\* Every step keeps the types, as long as the job in hand has a document.
LEMMA NextType == TypeOK /\ TableInv /\ [Next]_vars => TypeOK'
<1>. SUFFICES ASSUME TypeOK, TableInv, [Next]_vars PROVE TypeOK'
  OBVIOUS
<1>1. CASE Request
  BY <1>1, RequestType
<1>2. ASSUME NEW w \in Worker, Start(w) PROVE TypeOK'
  BY <1>2, QueueAssumption
     DEF TypeOK, Start, Fault, Holding, InTry, Live, Terminal
<1>3. ASSUME NEW w \in Worker, Claim(w) PROVE TypeOK'
  BY <1>3 DEF TypeOK, Claim, docVars, Holding, InTry, Live
<1>4. ASSUME NEW w \in Worker, Work(w) PROVE TypeOK'
  BY <1>4, WorkType
<1>5. ASSUME NEW w \in Worker, Heartbeat(w) PROVE TypeOK'
  BY <1>5 DEF TypeOK, Heartbeat, docVars, runVars
<1>6. ASSUME NEW w \in Worker, Disrupt(w) PROVE TypeOK'
  BY <1>6, DisruptType
<1>7. ASSUME NEW j \in JobId, Lapse(j) PROVE TypeOK'
  BY <1>7 DEF TypeOK, Lapse, docVars, runVars
<1>8. CASE UNCHANGED vars
  BY <1>8 DEF TypeOK, vars, docVars, jobVars, runVars
<1>. QED
  BY <1>1, <1>2, <1>3, <1>4, <1>5, <1>6, <1>7, <1>8 DEF Next

-------------------------------------------------------------------------------
(* The tables: what holds of them whatever the faults                          *)

\* A step that inserts no job keeps the tables in order, if it only ever removes
\* rows, and retires no document before its row has used up its attempts.
LEMMA TableKept ==
    ASSUME TypeOK, TypeOK', TableInv,
           UNCHANGED <<jobDoc, nextJob>>,
           \A j \in JobId : attempts'[j] >= attempts[j],
           \A j \in JobId : Row(j)' => Row(j) /\ Exists(jobDoc[j])',
           \A w \in Worker : pc'[w] \in Holding =>
                                held'[w] \in JobId /\ held'[w] < nextJob,
           \A d \in Doc : docStatus'[d] = "failed" =>
                \/ docStatus[d] = "failed"
                \/ \A j \in JobId : jobDoc[j] = d /\ Row(j) => attempts[j] >= MaxAttempts,
           \A r \in Requester :
                retrying'[r] # None => docStatus'[retrying'[r]] # "unborn",
           TextStored'
    PROVE  TableInv'
<1>1. RetiredAtTheLimit'
  <2>. SUFFICES ASSUME NEW d \in Doc, NEW j \in JobId,
                       docStatus'[d] = "failed", jobDoc'[j] = d, Row(j)'
                PROVE  attempts'[j] >= MaxAttempts
    BY DEF RetiredAtTheLimit
  <2>1. attempts[j] >= MaxAttempts
    BY DEF TableInv, RetiredAtTheLimit
  <2>. QED
    BY <2>1, QueueAssumption DEF TypeOK
<1>2. OneRowPerDocument'
  BY DEF TableInv, OneRowPerDocument
<1>. QED
  BY <1>1, <1>2 DEF TableInv

\* enqueue for a document whose finished rows, if any, its transaction has just
\* purged.
LEMMA EnqueueTable ==
    ASSUME TypeOK, TypeOK', TableInv, NEW d \in Doc,
           NEW st, \/ st = jobStatus /\ docStatus[d] = "unborn"
                   \/ st = Purged(d),
           Enqueue(d, st),
           docStatus' = [docStatus EXCEPT ![d] = "pending"],
           docStatus[d] # "deleted",
           UNCHANGED <<chunks, billed, runVars>>,
           \A r \in Requester : retrying'[r] \in {retrying[r], None}
    PROVE  TableInv'
<1>1. \A j \in JobId : st[j] # "absent" => Row(j)
  BY DEF Purged, TypeOK, Row
<1>2. \A j \in JobId : st[j] # "absent" /\ jobDoc[j] = d => HasLive(d)
  <2>1. ASSUME NEW j \in JobId, st[j] # "absent", jobDoc[j] = d PROVE jobStatus[j] \in Live
    <3>1. CASE st = jobStatus /\ docStatus[d] = "unborn"
      BY <2>1, <3>1 DEF Row, Exists, TableInv
    <3>2. CASE st = Purged(d)
      BY <2>1, <3>2 DEF Purged, TypeOK
    <3>. QED
      BY <3>1, <3>2
  <2>. QED
    BY <2>1 DEF HasLive
<1>3. \A j \in JobId : jobDoc[j] # None => jobDoc[j] \in Doc
  BY DEF TypeOK
<1>4. \A e \in Doc : /\ Exists(e) => Exists(e)'
                     /\ docStatus'[e] = "failed" => docStatus[e] = "failed" /\ e # d
                     /\ docStatus[e] # "unborn" => docStatus'[e] # "unborn"
  BY DEF TypeOK, Exists
<1>5. Exists(d)'
  BY DEF TypeOK, Exists
<1>6. TextStored'
  BY <1>4 DEF TableInv, TextStored, TypeOK, Exists
<1>7. \A r \in Requester : retrying'[r] # None => docStatus'[retrying'[r]] # "unborn"
  BY <1>4 DEF TypeOK, TableInv
<1>8. CASE HasLive(d)
  <2>1. /\ jobStatus' = st
        /\ UNCHANGED <<jobDoc, attempts, nextJob>>
    BY <1>8 DEF Enqueue
  <2>2. \A j \in JobId : Row(j)' => Row(j) /\ Exists(jobDoc[j])'
    BY <1>1, <1>3, <1>4, <2>1 DEF Row, Exists, TableInv
  <2>3. \A w \in Worker : pc'[w] \in Holding => held'[w] \in JobId /\ held'[w] < nextJob
    BY DEF runVars, TableInv
  <2>4. \A j \in JobId : attempts'[j] >= attempts[j]
    BY <2>1 DEF TypeOK
  <2>. QED
    BY <1>4, <1>6, <1>7, <2>1, <2>2, <2>3, <2>4, TableKept
<1>9. CASE ~HasLive(d)
  <2>1. /\ nextJob \in JobId
        /\ jobStatus' = [st EXCEPT ![nextJob] = "pending"]
        /\ jobDoc' = [jobDoc EXCEPT ![nextJob] = d]
        /\ attempts' = [attempts EXCEPT ![nextJob] = 0]
        /\ nextJob' = nextJob + 1
    BY <1>9, QueueAssumption DEF Enqueue, TypeOK, JobId
  <2>2. \A j \in JobId : /\ j # nextJob => /\ jobDoc'[j] = jobDoc[j]
                                           /\ attempts'[j] = attempts[j]
                                           /\ Row(j)' => Row(j) /\ jobDoc[j] # d
                         /\ j = nextJob => jobDoc'[j] = d
    BY <1>1, <1>2, <1>9, <2>1 DEF TypeOK, Row, Purged
  <2>3. \A j \in JobId : j < nextJob' <=> jobDoc'[j] # None
    BY <2>1, <2>2, QueueAssumption DEF JobId, TableInv
  <2>4. \A j \in JobId : Row(j)' => jobDoc'[j] # None /\ Exists(jobDoc[j])'
    <3>1. ASSUME NEW j \in JobId, Row(j)', j # nextJob
          PROVE  jobDoc'[j] # None /\ Exists(jobDoc[j])'
      <4>1. Row(j) /\ jobDoc'[j] = jobDoc[j]
        BY <2>2, <3>1 DEF Row
      <4>2. jobDoc[j] \in Doc /\ jobDoc[j] # None /\ Exists(jobDoc[j])
        BY <1>3, <4>1 DEF TableInv
      <4>. QED
        BY <1>4, <4>1, <4>2 DEF Exists
    <3>2. d # None
      BY QueueAssumption
    <3>3. ASSUME NEW j \in JobId, Row(j)', j = nextJob
          PROVE  jobDoc'[j] # None /\ Exists(jobDoc[j])'
      BY <1>5, <2>2, <3>2, <3>3 DEF Exists
    <3>. QED
      BY <3>1, <3>3
  <2>5. \A w \in Worker : pc'[w] \in Holding => held'[w] \in JobId /\ held'[w] < nextJob'
    <3>1. nextJob \in Int /\ \A w \in Worker : pc[w] \in Holding => held[w] \in Int
      BY DEF TypeOK, TableInv, JobId
    <3>. QED
      BY <2>1, <3>1 DEF runVars, TableInv
  <2>6. OneRowPerDocument'
    <3>. SUFFICES ASSUME NEW i \in JobId, NEW j \in JobId, Row(i)', Row(j)',
                         jobDoc'[i] = jobDoc'[j]
                  PROVE  i = j
      BY DEF OneRowPerDocument
    <3>1. CASE i = nextJob \/ j = nextJob
      BY <2>2, <3>1 DEF Row
    <3>2. CASE i # nextJob /\ j # nextJob
      BY <2>2, <3>2 DEF TableInv, OneRowPerDocument, Row
    <3>. QED
      BY <3>1, <3>2
  <2>7. RetiredAtTheLimit'
    <3>. SUFFICES ASSUME NEW e \in Doc, NEW j \in JobId,
                         docStatus'[e] = "failed", jobDoc'[j] = e, Row(j)'
                  PROVE  attempts'[j] >= MaxAttempts
      BY DEF RetiredAtTheLimit
    <3>1. docStatus[e] = "failed" /\ j # nextJob
      BY <1>4, <2>2
    <3>. QED
      BY <2>2, <3>1 DEF TableInv, RetiredAtTheLimit, Row
  <2>. QED
    BY <1>6, <1>7, <2>3, <2>4, <2>5, <2>6, <2>7 DEF TableInv
<1>. QED
  BY <1>8, <1>9

\* No upload, deletion or re-upload brings the tables out of order.
LEMMA TableRequest ==
    ASSUME TypeOK, TypeOK', TableInv, Request
    PROVE  TableInv'
<1>1. ASSUME NEW d \in Doc, Upload(d) PROVE TableInv'
  BY <1>1, EnqueueTable DEF Upload
<1>2. ASSUME NEW r \in Requester, RetryCommit(r) PROVE TableInv'
  <2>1. retrying[r] \in Doc
    BY <1>2 DEF TypeOK, RetryCommit
  <2>2. \A q \in Requester : retrying'[q] \in {retrying[q], None}
    BY <1>2 DEF TypeOK, RetryCommit
  <2>. QED
    BY <1>2, <2>1, <2>2, EnqueueTable DEF RetryCommit
<1>3. ASSUME NEW d \in Doc, Delete(d) PROVE TableInv'
  <2>1. \A j \in JobId : Row(j)' => Row(j) /\ jobDoc[j] # d
    BY <1>3 DEF Delete, Row
  <2>2. \A j \in JobId : Row(j)' => Row(j) /\ Exists(jobDoc[j])'
    BY <1>3, <2>1 DEF Delete, TableInv, TypeOK, Exists
  <2>3. TextStored'
    BY <1>3 DEF Delete, TableInv, TextStored, TypeOK, Exists
  <2>4. \A r \in Requester : retrying'[r] # None => docStatus'[retrying'[r]] # "unborn"
    BY <1>3 DEF Delete, TableInv, TypeOK
  <2>5. \A e \in Doc : docStatus'[e] = "failed" => docStatus[e] = "failed"
    BY <1>3 DEF Delete, TypeOK
  <2>6. \A w \in Worker : pc'[w] \in Holding => held'[w] \in JobId /\ held'[w] < nextJob
    BY <1>3 DEF Delete, TableInv, runVars
  <2>7. \A j \in JobId : attempts'[j] >= attempts[j]
    BY <1>3 DEF Delete, TypeOK
  <2>. QED
    BY <1>3, <2>2, <2>3, <2>4, <2>5, <2>6, <2>7, TableKept DEF Delete
<1>4. ASSUME NEW r \in Requester, NEW d \in Doc, RetryRead(r, d) PROVE TableInv'
  <2>1. \A q \in Requester : retrying'[q] # None => docStatus'[retrying'[q]] # "unborn"
    BY <1>4 DEF RetryRead, TableInv, TypeOK, docVars
  <2>. QED
    BY <1>4, <2>1 DEF RetryRead, TableInv, docVars, jobVars, runVars, Row, Exists,
                      OneRowPerDocument, RetiredAtTheLimit, TextStored
<1>5. ASSUME NEW r \in Requester, RetryLost(r) PROVE TableInv'
  <2>1. \A q \in Requester : retrying'[q] # None => docStatus'[retrying'[q]] # "unborn"
    BY <1>5 DEF RetryLost, TableInv, TypeOK, docVars
  <2>. QED
    BY <1>5, <2>1 DEF RetryLost, TableInv, docVars, jobVars, runVars, Row, Exists,
                      OneRowPerDocument, RetiredAtTheLimit, TextStored
<1>. QED
  BY <1>1, <1>2, <1>3, <1>4, <1>5 DEF Request

\* A step of a runner that leaves the documents alone.
LEMMA TableRunner ==
    ASSUME TypeOK, TypeOK', TableInv,
           UNCHANGED <<docStatus, chunks, billed, jobDoc, nextJob, retrying>>,
           \A j \in JobId : attempts'[j] >= attempts[j],
           \A j \in JobId : Row(j)' => Row(j),
           \A v \in Worker : pc'[v] \in Holding =>
                                held'[v] \in JobId /\ held'[v] < nextJob
    PROVE  TableInv'
<1>1. \A j \in JobId : Row(j)' => Row(j) /\ Exists(jobDoc[j])'
  BY DEF TableInv, Exists
<1>2. TextStored'
  BY DEF TableInv, TextStored, Exists
<1>3. /\ \A d \in Doc : docStatus'[d] = "failed" => docStatus[d] = "failed"
      /\ \A r \in Requester : retrying'[r] # None => docStatus'[retrying'[r]] # "unborn"
  BY DEF TableInv
<1>. QED
  BY <1>1, <1>2, <1>3, TableKept

\* Nor does a runner at work, whoever holds the lease by now.
LEMMA TableWork ==
    ASSUME TypeOK, TypeOK', TableInv, NEW w \in Worker, Work(w)
    PROVE  TableInv'
<1>1. CASE BeginIngest(w)
  <2>. DEFINE d == jobDoc[held[w]]
  <2>1. /\ UNCHANGED <<chunks, billed, jobVars, held, retrying>>
        /\ pc[w] \in Holding
        /\ \A v \in Worker : v # w => pc'[v] = pc[v]
        /\ \/ Exists(d) /\ docStatus' = [docStatus EXCEPT ![d] = "processing"]
           \/ UNCHANGED docStatus
    BY <1>1 DEF BeginIngest, Holding, InTry, TypeOK
  <2>2. \A v \in Worker : pc'[v] \in Holding => held'[v] \in JobId /\ held'[v] < nextJob
    BY <2>1 DEF TableInv
  <2>3. \A e \in Doc : /\ Exists(e)' <=> Exists(e)
                       /\ docStatus'[e] = "failed" => docStatus[e] = "failed"
                       /\ docStatus'[e] = "ready" => docStatus[e] = "ready"
                       /\ docStatus'[e] = "unborn" => docStatus[e] = "unborn"
    BY <2>1 DEF TypeOK, Exists
  <2>4. TextStored'
    BY <2>1, <2>3 DEF TableInv, TextStored
  <2>5. \A r \in Requester : retrying'[r] # None => docStatus'[retrying'[r]] # "unborn"
    BY <2>1, <2>3 DEF TableInv, TypeOK
  <2>6. \A j \in JobId : Row(j)' => Row(j) /\ Exists(jobDoc[j])'
    <3>1. \A j \in JobId : Row(j) => jobDoc[j] \in Doc /\ Exists(jobDoc[j])
      BY DEF TableInv, TypeOK
    <3>. QED
      BY <2>1, <2>3, <3>1 DEF jobVars, Row, Exists
  <2>7. \A j \in JobId : attempts'[j] >= attempts[j]
    BY <2>1 DEF TypeOK, jobVars
  <2>. QED
    BY <2>1, <2>2, <2>3, <2>4, <2>5, <2>6, <2>7, TableKept DEF jobVars
<1>2. CASE FinishIngest(w)
  <2>. DEFINE d == jobDoc[held[w]]
              new == (chunks[d] \ gone[w]) \cup {billed[d] + 1}
  <2>1. /\ UNCHANGED <<jobVars, held, retrying>>
        /\ pc[w] \in Holding
        /\ \A v \in Worker : v # w => pc'[v] = pc[v]
        /\ \/ /\ Exists(d)
              /\ docStatus' = [docStatus EXCEPT ![d] = "ready"]
              /\ chunks' = [chunks EXCEPT ![d] = new]
              /\ billed' = [billed EXCEPT ![d] = billed[d] + 1]
           \/ UNCHANGED <<docStatus, chunks, billed>>
    BY <1>2 DEF FinishIngest, Holding, InTry, TypeOK
  <2>2. \A v \in Worker : pc'[v] \in Holding => held'[v] \in JobId /\ held'[v] < nextJob
    BY <2>1 DEF TableInv
  <2>3. \A e \in Doc : /\ Exists(e)' <=> Exists(e)
                       /\ docStatus'[e] = "failed" => docStatus[e] = "failed"
                       /\ docStatus'[e] = "unborn" => docStatus[e] = "unborn"
    BY <2>1 DEF TypeOK, Exists
  <2>4. TextStored'
    <3>1. CASE UNCHANGED <<docStatus, chunks, billed>>
      BY <3>1 DEF TableInv, TextStored, Exists
    <3>2. CASE ~UNCHANGED <<docStatus, chunks, billed>>
      <4>1. \A e \in Doc : billed[e] \in Nat
        BY DEF TypeOK
      <4>2. new # {}
        OBVIOUS
      <4>. HIDE DEF new
      <4>3. \A e \in Doc : e # d => /\ docStatus'[e] = docStatus[e]
                                    /\ chunks'[e] = chunks[e]
                                    /\ billed'[e] = billed[e]
        BY <2>1, <3>2 DEF TypeOK
      <4>4. d \in Doc => chunks'[d] = new /\ billed'[d] = billed[d] + 1 /\ Exists(d)
        BY <2>1, <3>2 DEF TypeOK
      <4>. QED
        BY <2>3, <4>1, <4>2, <4>3, <4>4 DEF TableInv, TextStored, Exists
    <3>. QED
      BY <3>1, <3>2
  <2>5. \A r \in Requester : retrying'[r] # None => docStatus'[retrying'[r]] # "unborn"
    BY <2>1, <2>3 DEF TableInv, TypeOK
  <2>6. \A j \in JobId : Row(j)' => Row(j) /\ Exists(jobDoc[j])'
    <3>1. \A j \in JobId : Row(j) => jobDoc[j] \in Doc /\ Exists(jobDoc[j])
      BY DEF TableInv, TypeOK
    <3>. QED
      BY <2>1, <2>3, <3>1 DEF jobVars, Row, Exists
  <2>7. \A j \in JobId : attempts'[j] >= attempts[j]
    BY <2>1 DEF TypeOK, jobVars
  <2>. QED
    BY <2>1, <2>2, <2>3, <2>4, <2>5, <2>6, <2>7, TableKept DEF jobVars
<1>3. CASE IngestError(w)
  BY <1>3, TableRunner DEF IngestError, docVars, jobVars, TableInv, TypeOK, Row, Holding, InTry
<1>4. CASE Complete(w)
  BY <1>4, TableRunner DEF Complete, docVars, TableInv, TypeOK, Row, Holding, InTry
<1>5. CASE Purge(w)
  BY <1>5, TableRunner DEF Purge, LetGo, Purged, docVars, TableInv, TypeOK, Row, Holding, InTry
<1>6. CASE Fail(w)
  <2>. DEFINE j == held[w]
              d == jobDoc[j]
  <2>1. /\ UNCHANGED <<chunks, billed, jobDoc, attempts, nextJob, retrying>>
        /\ \A i \in JobId : Row(i)' => Row(i)
        /\ \A v \in Worker : pc'[v] \in Holding => held'[v] = held[v] /\ pc[v] \in Holding
    BY <1>6 DEF Fail, LetGo, Row, TypeOK, Holding, InTry
  <2>2. j \in JobId
    BY <1>6 DEF Fail, TableInv, Holding
  <2>3. CASE Row(j) /\ attempts[j] >= MaxAttempts
    <3>1. d \in Doc /\ Exists(d)
      BY <2>2, <2>3 DEF TableInv, TypeOK
    <3>2. docStatus' = [docStatus EXCEPT ![d] = "failed"]
      BY <1>6, <2>3 DEF Fail
    <3>3. \A e \in Doc : /\ Exists(e)' <=> Exists(e)
                         /\ docStatus'[e] = "failed" => docStatus[e] = "failed" \/ e = d
                         /\ docStatus'[e] = "ready" => docStatus[e] = "ready"
                         /\ docStatus'[e] = "unborn" => docStatus[e] = "unborn"
      BY <3>1, <3>2 DEF TypeOK, Exists
    <3>4. \A i \in JobId : jobDoc[i] = d /\ Row(i) => attempts[i] >= MaxAttempts
      BY <2>2, <2>3 DEF TableInv, OneRowPerDocument
    <3>5. \A i \in JobId : Row(i)' => Row(i) /\ Exists(jobDoc[i])'
      <4>1. \A i \in JobId : Row(i) => jobDoc[i] \in Doc /\ Exists(jobDoc[i])
        BY DEF TableInv, TypeOK
      <4>. QED
        BY <2>1, <3>3, <4>1 DEF Row, Exists
    <3>6. TextStored'
      BY <2>1, <3>3 DEF TableInv, TextStored
    <3>7. \A r \in Requester : retrying'[r] # None => docStatus'[retrying'[r]] # "unborn"
      BY <2>1, <3>3 DEF TableInv, TypeOK
    <3>8. \A i \in JobId : attempts'[i] >= attempts[i]
      BY <2>1 DEF TypeOK
    <3>9. \A v \in Worker : pc'[v] \in Holding => held'[v] \in JobId /\ held'[v] < nextJob
      BY <2>1 DEF TableInv
    <3>. QED
      BY <2>1, <3>3, <3>4, <3>5, <3>6, <3>7, <3>8, <3>9, TableKept
  <2>4. CASE ~(Row(j) /\ attempts[j] >= MaxAttempts)
    <3>1. UNCHANGED <<docStatus, chunks, billed>>
      BY <1>6, <2>4 DEF Fail, TypeOK
    <3>2. \A v \in Worker : pc'[v] \in Holding => held'[v] \in JobId /\ held'[v] < nextJob
      BY <2>1 DEF TableInv
    <3>3. \A i \in JobId : attempts'[i] >= attempts[i]
      BY <2>1 DEF TypeOK
    <3>. QED
      BY <2>1, <3>1, <3>2, <3>3, TableRunner
  <2>. QED
    BY <2>3, <2>4
<1>7. CASE Release(w)
  BY <1>7, TableRunner DEF Release, LetGo, docVars, TableInv, TypeOK, Row, Holding, InTry
<1>8. CASE Embed(w)
  BY <1>8, TableRunner DEF Embed, jobVars, TableInv, TypeOK, Row, Holding, InTry
<1>. QED
  BY <1>1, <1>2, <1>3, <1>4, <1>5, <1>6, <1>7, <1>8 DEF Work

\* Nor an error, shutdown or crash.
LEMMA TableDisrupt ==
    ASSUME TypeOK, TypeOK', TableInv, NEW w \in Worker, Disrupt(w)
    PROVE  TableInv'
<1>1. /\ UNCHANGED <<docStatus, chunks, billed, jobVars, retrying>>
      /\ \A v \in Worker : pc'[v] \in Holding => held'[v] = held[v] /\ pc[v] \in Holding
  BY DEF Disrupt, EmbedError, CleanupError, Abandon, Shutdown, Crash, HeartbeatDies,
         LetGo, docVars, TypeOK, Holding, InTry
<1>. QED
  BY <1>1, TableRunner DEF jobVars, TableInv, TypeOK, Row

\* Every step keeps the tables in order.
LEMMA TableNext == TypeOK /\ TableInv /\ [Next]_vars => TableInv'
<1>. SUFFICES ASSUME TypeOK, TableInv, [Next]_vars PROVE TableInv'
  OBVIOUS
<1>. TypeOK'
  BY NextType
<1>1. CASE Request
  BY <1>1, TableRequest
<1>2. ASSUME NEW w \in Worker, Start(w) PROVE TableInv'
  <2>1. /\ UNCHANGED <<chunks, billed, jobDoc, attempts, nextJob, held, retrying>>
        /\ \A v \in Worker : pc'[v] \in Holding => pc[v] \in Holding
        /\ \A d \in Doc : \/ docStatus'[d] = docStatus[d]
                          \/ docStatus[d] = "processing" /\ docStatus'[d] = "pending"
        /\ \A j \in JobId : Row(j)' => Row(j)
    BY <1>2 DEF Start, TypeOK, Holding, InTry, Row
  <2>2. \A d \in Doc : /\ Exists(d)' <=> Exists(d)
                       /\ docStatus'[d] = "failed" => docStatus[d] = "failed"
                       /\ docStatus'[d] = "ready" => docStatus[d] = "ready"
                       /\ docStatus'[d] = "unborn" => docStatus[d] = "unborn"
    BY <2>1 DEF Exists
  <2>3. TextStored'
    BY <2>1, <2>2 DEF TableInv, TextStored
  <2>4. \A r \in Requester : retrying'[r] # None => docStatus'[retrying'[r]] # "unborn"
    BY <2>1, <2>2 DEF TableInv, TypeOK
  <2>5. \A j \in JobId : Row(j)' => Row(j) /\ Exists(jobDoc[j])'
    <3>1. \A j \in JobId : Row(j) => jobDoc[j] \in Doc /\ Exists(jobDoc[j])
      BY DEF TableInv, TypeOK
    <3>. QED
      BY <2>1, <2>2, <3>1 DEF Row, Exists
  <2>6. \A j \in JobId : attempts'[j] >= attempts[j]
    BY <2>1 DEF TypeOK
  <2>7. \A v \in Worker : pc'[v] \in Holding => held'[v] \in JobId /\ held'[v] < nextJob
    BY <2>1 DEF TableInv
  <2>. QED
    BY <2>1, <2>2, <2>3, <2>4, <2>5, <2>6, <2>7, TableKept
<1>3. ASSUME NEW w \in Worker, Claim(w) PROVE TableInv'
  <2>1. PICK j \in JobId : /\ Claimable(j)
                           /\ jobStatus' = [jobStatus EXCEPT ![j] = "running"]
                           /\ attempts' = [attempts EXCEPT ![j] = @ + 1]
                           /\ held' = [held EXCEPT ![w] = j]
    BY <1>3 DEF Claim
  <2>2. UNCHANGED <<docStatus, chunks, billed, jobDoc, nextJob, retrying>>
    BY <1>3 DEF Claim, docVars
  <2>3. Row(j) /\ j < nextJob
    BY <2>1 DEF Claimable, Row, TableInv
  <2>4. \A i \in JobId : attempts'[i] >= attempts[i] /\ (Row(i)' => Row(i))
    BY <2>1, <2>3 DEF TypeOK, Row
  <2>5. \A v \in Worker : v # w => pc'[v] = pc[v] /\ held'[v] = held[v]
    BY <1>3, <2>1 DEF Claim, TypeOK
  <2>6. held'[w] = j
    BY <2>1 DEF TypeOK
  <2>7. \A v \in Worker : pc'[v] \in Holding => held'[v] \in JobId /\ held'[v] < nextJob
    BY <2>3, <2>5, <2>6 DEF TableInv
  <2>. QED
    BY <2>2, <2>4, <2>7, TableRunner
<1>4. ASSUME NEW w \in Worker, Work(w) PROVE TableInv'
  BY <1>4, TableWork
<1>5. ASSUME NEW w \in Worker, Heartbeat(w) PROVE TableInv'
  BY <1>5, TableRunner DEF Heartbeat, docVars, runVars, TableInv, TypeOK, Row
<1>6. ASSUME NEW w \in Worker, Disrupt(w) PROVE TableInv'
  BY <1>6, TableDisrupt
<1>7. ASSUME NEW j \in JobId, Lapse(j) PROVE TableInv'
  BY <1>7, TableRunner DEF Lapse, docVars, runVars, TableInv, TypeOK, Row
<1>8. CASE UNCHANGED vars
  BY <1>8, TableRunner DEF vars, docVars, jobVars, runVars, TableInv, TypeOK, Row
<1>. QED
  BY <1>1, <1>2, <1>3, <1>4, <1>5, <1>6, <1>7, <1>8 DEF Next

\* Types and tables: each needs the other to be kept.
LEMMA WellFormed == Spec => [](TypeOK /\ TableInv)
<1>1. Init => TypeOK
  BY QueueAssumption DEF Init, TypeOK, JobId
<1>2. Init => TableInv
  BY QueueAssumption DEF Init, TableInv, JobId, Row, Exists, OneRowPerDocument,
                         RetiredAtTheLimit, TextStored, Holding, InTry
<1>. QED
  BY <1>1, <1>2, NextType, TableNext, PTL DEF Spec

\* In every reachable state the tables, the runners' local variables and the
\* requests in flight hold values of their types.
THEOREM TypeCorrect == Spec => []TypeOK
BY WellFormed, PTL

\* The tables stay in order: this is what the other theorems rest on.
THEOREM TablesInOrder == Spec => []TableInv
BY WellFormed, PTL

\* Whatever runners, requests and faults do, no document ever has two job rows,
\* so no fail, release or reclaim can run into the partial unique index.
THEOREM NoSecondRow == Spec => []OneRowPerDocument
<1>1. TableInv => OneRowPerDocument
  BY DEF TableInv
<1>. QED
  BY <1>1, TablesInOrder, PTL

\* A failed document has used up the attempts of the job it has now, even when
\* the runner that failed it had lost its lease.
THEOREM RetiredOnlyAtTheLimit == Spec => []RetiredAtTheLimit
<1>1. TableInv => RetiredAtTheLimit
  BY DEF TableInv
<1>. QED
  BY <1>1, TablesInOrder, PTL

-------------------------------------------------------------------------------
(* Leases: one runner per job, as long as heartbeats run                       *)

\* enqueue, after a purge or not, touches no job in hand.
LEMMA EnqueueLease ==
    ASSUME TypeOK, TableInv, LeaseInv, NEW d \in Doc,
           NEW st, st = jobStatus \/ st = Purged(d),
           Enqueue(d, st), UNCHANGED runVars
    PROVE  LeaseInv'
<1>1. \A j \in JobId : st[j] \in {jobStatus[j], "absent"}
  BY DEF Purged
<1>2. \A j \in JobId : j < nextJob =>
          /\ jobStatus'[j] \in {jobStatus[j], "absent"}
          /\ lease'[j] = lease[j]
  <2>1. CASE HasLive(d)
    BY <1>1, <2>1 DEF Enqueue
  <2>2. CASE ~HasLive(d)
    <3>1. nextJob \in Int
      BY DEF TypeOK
    <3>2. \A j \in JobId : j < nextJob => j # nextJob
      BY <3>1 DEF JobId
    <3>3. st \in [JobId -> Live \cup Terminal \cup {"absent"}]
      BY DEF Purged, TypeOK
    <3>. QED
      BY <1>1, <2>2, <3>2, <3>3 DEF Enqueue, TypeOK
  <2>. QED
    BY <2>1, <2>2
<1>. QED
  BY <1>2 DEF TableInv, LeaseInv, OneWorkerPerJob, runVars

\* A runner that leaves its job, whatever it does to the rows of its document.
LEMMA LetGoLease ==
    ASSUME TypeOK, TableInv, LeaseInv, NEW w \in Worker, pc[w] \in Holding,
           NEW next \in {"idle", "down"}, LetGo(w, next),
           \A j \in JobId : j # held[w] =>
              jobStatus'[j] \in {jobStatus[j], "absent"} /\ lease'[j] = lease[j]
    PROVE  LeaseInv'
<1>1. pc'[w] \notin Holding
  BY DEF LetGo, TypeOK, Holding, InTry
<1>2. \A v \in Worker : v # w => /\ pc'[v] = pc[v]
                                 /\ held'[v] = held[v]
                                 /\ beating'[v] = beating[v]
  BY DEF LetGo, TypeOK
<1>. QED
  BY <1>1, <1>2 DEF LeaseInv, OneWorkerPerJob, TableInv

\* A runner that keeps its job, at another program counter.
LEMMA KeepLease ==
    ASSUME TypeOK, LeaseInv, NEW w \in Worker, pc[w] \in Holding,
           NEW next \in Holding, pc' = [pc EXCEPT ![w] = next],
           UNCHANGED <<jobVars, held, beating>>
    PROVE  LeaseInv'
<1>1. \A v \in Worker : pc'[v] \in Holding <=> pc[v] \in Holding
  BY DEF TypeOK
<1>. QED
  BY <1>1 DEF LeaseInv, OneWorkerPerJob, jobVars

\* With beating hearts, every step leaves a job in hand off the market.
LEMMA LeaseNext == TypeOK /\ TableInv /\ LeaseInv /\ [Next]_vars => LeaseInv'
<1>. SUFFICES ASSUME TypeOK, TableInv, LeaseInv, [Next]_vars, ~HeartbeatsFail
              PROVE  LeaseInv'
  BY DEF LeaseInv
<1>1. ASSUME NEW d \in Doc, Upload(d) PROVE LeaseInv'
  BY <1>1, EnqueueLease DEF Upload
<1>2. ASSUME NEW d \in Doc, Delete(d) PROVE LeaseInv'
  BY <1>2 DEF Delete, LeaseInv, OneWorkerPerJob, runVars, TableInv
<1>3. ASSUME NEW r \in Requester, NEW d \in Doc, RetryRead(r, d) PROVE LeaseInv'
  BY <1>3 DEF RetryRead, LeaseInv, OneWorkerPerJob, runVars, jobVars
<1>4. ASSUME NEW r \in Requester, RetryCommit(r) PROVE LeaseInv'
  <2>1. retrying[r] \in Doc
    BY <1>4 DEF TypeOK, RetryCommit
  <2>. QED
    BY <1>4, <2>1, EnqueueLease DEF RetryCommit
<1>5. ASSUME NEW r \in Requester, RetryLost(r) PROVE LeaseInv'
  BY <1>5 DEF RetryLost, LeaseInv, OneWorkerPerJob, runVars, jobVars
<1>6. ASSUME NEW w \in Worker, Start(w) PROVE LeaseInv'
  <2>1. /\ UNCHANGED <<held, beating>>
        /\ \A v \in Worker : pc'[v] \in Holding => pc[v] \in Holding
    BY <1>6 DEF Start, TypeOK, Holding, InTry
  <2>2. \A j \in JobId : ~(jobStatus[j] = "running" /\ lease[j] = "lapsed") =>
            jobStatus'[j] = jobStatus[j] /\ lease'[j] = lease[j]
    BY <1>6 DEF Start
  <2>. QED
    BY <2>1, <2>2 DEF LeaseInv, OneWorkerPerJob, TableInv
<1>7. ASSUME NEW w \in Worker, Claim(w) PROVE LeaseInv'
  <2>1. PICK j \in JobId : /\ Claimable(j)
                           /\ jobStatus' = [jobStatus EXCEPT ![j] = "running"]
                           /\ lease' = [lease EXCEPT ![j] = "live"]
                           /\ held' = [held EXCEPT ![w] = j]
    BY <1>7 DEF Claim
  <2>2. \A v \in Worker : v # w => /\ pc'[v] = pc[v]
                                   /\ held'[v] = held[v]
                                   /\ beating'[v] = beating[v]
    BY <1>7, <2>1 DEF Claim, TypeOK
  <2>3. held'[w] = j /\ beating'[w] = TRUE /\ pc'[w] = "claimed"
    BY <1>7, <2>1 DEF Claim, TypeOK
  <2>4. jobStatus'[j] = "running" /\ lease'[j] = "live"
    BY <2>1 DEF TypeOK
  <2>5. \A v \in Worker : v # w /\ pc[v] \in Holding => held[v] # j
    BY <2>1 DEF LeaseInv, Claimable
  <2>6. \A i \in JobId : i # j => jobStatus'[i] = jobStatus[i] /\ lease'[i] = lease[i]
    BY <2>1 DEF TypeOK
  <2>. QED
    BY <2>2, <2>3, <2>4, <2>5, <2>6 DEF LeaseInv, OneWorkerPerJob, TableInv
<1>8. ASSUME NEW w \in Worker, Work(w) PROVE LeaseInv'
  <2>1. CASE BeginIngest(w)
    BY <2>1, KeepLease DEF BeginIngest, Holding, InTry
  <2>2. CASE FinishIngest(w)
    BY <2>2, KeepLease DEF FinishIngest, Holding, InTry
  <2>3. CASE IngestError(w) \/ Embed(w)
    BY <2>3, KeepLease DEF IngestError, Embed, Holding, InTry
  <2>4. CASE Complete(w)
    <3>1. /\ UNCHANGED <<held, beating>>
          /\ \A v \in Worker : pc'[v] \in Holding => pc[v] \in Holding
          /\ pc[w] \in Holding
      BY <2>4 DEF Complete, TypeOK, Holding, InTry
    <3>2. \A j \in JobId : j # held[w] =>
              jobStatus'[j] = jobStatus[j] /\ lease'[j] = lease[j]
      BY <2>4 DEF Complete, TypeOK
    <3>3. jobStatus'[held[w]] \notin {"pending", "running"}
      BY <2>4, <3>1 DEF Complete, TypeOK, TableInv, Row
    <3>. QED
      BY <3>1, <3>2, <3>3 DEF LeaseInv, OneWorkerPerJob, TableInv
  <2>5. CASE Purge(w)
    BY <2>5, LetGoLease DEF Purge, Purged, Holding, InTry
  <2>6. CASE Fail(w)
    BY <2>6, LetGoLease DEF Fail, Holding, InTry, TypeOK
  <2>7. CASE Release(w)
    BY <2>7, LetGoLease DEF Release, Holding, InTry, TypeOK
  <2>. QED
    BY <1>8, <2>1, <2>2, <2>3, <2>4, <2>5, <2>6, <2>7 DEF Work
<1>9. ASSUME NEW w \in Worker, Heartbeat(w) PROVE LeaseInv'
  BY <1>9 DEF Heartbeat, LeaseInv, OneWorkerPerJob, runVars, TypeOK, TableInv
<1>10. ASSUME NEW w \in Worker, Disrupt(w) PROVE LeaseInv'
  <2>1. CASE CleanupError(w) \/ EmbedError(w)
    BY <2>1, KeepLease DEF CleanupError, EmbedError, Holding, InTry
  <2>2. CASE Abandon(w)
    BY <2>2, LetGoLease DEF Abandon, jobVars, Holding, InTry
  <2>3. CASE Shutdown(w)
    BY <2>3, KeepLease DEF Shutdown, Holding, InTry
  <2>4. CASE Crash(w)
    <3>1. \A v \in Worker : pc'[v] \in Holding => /\ pc[v] \in Holding
                                                  /\ held'[v] = held[v]
                                                  /\ beating'[v] = beating[v]
      BY <2>4 DEF Crash, LetGo, TypeOK, Holding, InTry
    <3>. QED
      BY <2>4, <3>1 DEF Crash, jobVars, LeaseInv, OneWorkerPerJob
  <2>5. CASE HeartbeatDies(w)
    BY <2>5 DEF HeartbeatDies
  <2>. QED
    BY <1>10, <2>1, <2>2, <2>3, <2>4, <2>5 DEF Disrupt
<1>11. ASSUME NEW j \in JobId, Lapse(j) PROVE LeaseInv'
  <2>1. \A w \in Worker : pc[w] \in Holding => held[w] # j
    BY <1>11 DEF Lapse, LeaseInv
  <2>. QED
    BY <1>11, <2>1 DEF Lapse, LeaseInv, OneWorkerPerJob, runVars, TypeOK
<1>12. CASE UNCHANGED vars
  BY <1>12 DEF vars, LeaseInv, OneWorkerPerJob, runVars, jobVars
<1>. QED
  BY <1>1, <1>2, <1>3, <1>4, <1>5, <1>6, <1>7, <1>8, <1>9, <1>10, <1>11, <1>12
     DEF Next, Request

\* So the leases hold for ever.
LEMMA LeaseHeld == Spec => []LeaseInv
<1>1. Init => LeaseInv
  BY DEF Init, LeaseInv, OneWorkerPerJob, Holding, InTry
<1>. QED
  BY <1>1, LeaseNext, TypeCorrect, TablesInOrder, PTL DEF Spec

\* As long as heartbeat tasks do not die, no two runners ever work on one job:
\* neither SKIP LOCKED, nor a reclaim on start, nor a lapsed lease lets a second
\* one in, for any number of crashes, shutdowns and restarts.
THEOREM NoSecondWorker == Spec => []OneWorkerPerJob
<1>1. LeaseInv => OneWorkerPerJob
  BY DEF LeaseInv, OneWorkerPerJob
<1>. QED
  BY <1>1, LeaseHeld, PTL

-------------------------------------------------------------------------------
(* Chunks: nothing is stored twice, as long as heartbeats run                  *)

\* A step that stores nothing, takes up no job, and leaves the jobs of runners that
\* have yet to store something alone.
LEMMA StoreKept ==
    ASSUME TypeOK, TableInv, StoreInv, ~HeartbeatsFail,
           \A d \in Doc : chunks'[d] \in {chunks[d], {}},
           \A d \in Doc : docStatus'[d] # "deleted" => docStatus[d] # "deleted",
           \A j \in JobId : j < nextJob => jobDoc'[j] = jobDoc[j],
           \A v \in Worker : pc'[v] \in Busy =>
              /\ pc[v] \in Busy
              /\ held'[v] = held[v]
              /\ jobStatus[held[v]] = "running" /\ docStatus'[jobDoc[held[v]]] # "deleted"
                    => jobStatus'[held[v]] = "running"
              /\ pc'[v] = "embedded" => pc[v] = "embedded" /\ gone'[v] = gone[v]
    PROVE  StoreInv'
<1>1. StoredOnce'
  BY DEF StoreInv, StoredOnce
<1>2. ASSUME NEW v \in Worker, pc'[v] \in Busy, docStatus'[jobDoc'[held'[v]]] # "deleted"
      PROVE  /\ jobStatus'[held'[v]] = "running"
             /\ pc'[v] = "embedded" => chunks'[jobDoc'[held'[v]]] \subseteq gone'[v]
  <2>1. held'[v] = held[v] /\ held[v] \in JobId /\ held[v] < nextJob
    BY <1>2 DEF TableInv, Busy, Holding, InTry
  <2>2. jobDoc'[held[v]] = jobDoc[held[v]] /\ jobDoc[held[v]] \in Doc
    BY <2>1 DEF TableInv, TypeOK
  <2>3. ReplacesAll(v)
    BY DEF StoreInv
  <2>. QED
    BY <1>2, <2>1, <2>2, <2>3 DEF ReplacesAll
<1>. QED
  BY <1>1, <1>2 DEF StoreInv, ReplacesAll

\* enqueue leaves the running jobs alone.
LEMMA StoreEnqueue ==
    ASSUME TypeOK, TableInv, StoreInv, ~HeartbeatsFail, NEW d \in Doc,
           NEW st, st = jobStatus \/ st = Purged(d),
           Enqueue(d, st), UNCHANGED <<chunks, runVars>>,
           docStatus' = [docStatus EXCEPT ![d] = "pending"], docStatus[d] # "deleted"
    PROVE  StoreInv'
<1>1. st \in [JobId -> Live \cup Terminal \cup {"absent"}]
  BY DEF Purged, TypeOK
<1>2. \A j \in JobId : jobStatus[j] = "running" => st[j] = "running"
  BY DEF Purged, Terminal
<1>3. \A j \in JobId : j < nextJob =>
          /\ jobDoc'[j] = jobDoc[j]
          /\ jobStatus[j] = "running" => jobStatus'[j] = "running"
  <2>1. CASE HasLive(d)
    BY <1>2, <2>1 DEF Enqueue
  <2>2. CASE ~HasLive(d)
    <3>1. nextJob \in Int /\ \A j \in JobId : j < nextJob => j # nextJob
      BY DEF TypeOK, JobId
    <3>. QED
      BY <1>1, <1>2, <2>2, <3>1 DEF Enqueue, TypeOK
  <2>. QED
    BY <2>1, <2>2
<1>4. \A e \in Doc : docStatus'[e] # "deleted" => docStatus[e] # "deleted"
  BY DEF TypeOK
<1>5. \A v \in Worker : pc[v] \in Busy => held[v] \in JobId /\ held[v] < nextJob
  BY DEF TableInv, Busy, Holding, InTry
<1>6. /\ \A e \in Doc : chunks'[e] = chunks[e]
      /\ \A v \in Worker : pc'[v] = pc[v] /\ held'[v] = held[v] /\ gone'[v] = gone[v]
  BY DEF runVars
<1>. QED
  BY <1>3, <1>4, <1>5, <1>6, StoreKept

\* A runner at work on its own job, before and after it has stored the chunks.
LEMMA StoreWork ==
    ASSUME TypeOK, TableInv, LeaseInv, StoreInv, ~HeartbeatsFail,
           NEW w \in Worker, Work(w)
    PROVE  StoreInv'
<1>. DEFINE j == held[w]
            d == jobDoc[j]
<1>1. /\ pc[w] \in Holding
      /\ UNCHANGED <<jobDoc, nextJob>>
      /\ \A v \in Worker : v # w => /\ pc'[v] = pc[v]
                                   /\ held'[v] = held[v]
                                   /\ gone'[v] = gone[v]
  BY DEF Work, BeginIngest, Embed, FinishIngest, IngestError, Complete, Purge, Fail,
         Release, LetGo, jobVars, Holding, InTry, TypeOK
<1>2. j \in JobId /\ d \in Doc
  BY <1>1 DEF TableInv, TypeOK
<1>3. \A v \in Worker : v # w /\ pc[v] \in Busy => held[v] \in JobId /\ held[v] # j
  BY <1>1 DEF TableInv, LeaseInv, OneWorkerPerJob, Busy, Holding, InTry
<1>4. CASE BeginIngest(w) \/ IngestError(w)
  <2>1. /\ UNCHANGED <<chunks, jobStatus, held>>
        /\ pc[w] \in Busy /\ pc'[w] # "embedded"
        /\ \A e \in Doc : docStatus'[e] # "deleted" => docStatus[e] # "deleted"
    BY <1>4 DEF BeginIngest, IngestError, docVars, jobVars, Busy, Exists, TypeOK
  <2>. QED
    BY <1>1, <2>1, StoreKept
<1>5. CASE Embed(w)
  <2>1. /\ UNCHANGED <<docStatus, chunks, jobStatus, held>>
        /\ pc[w] \in Busy /\ gone'[w] = chunks[d]
    BY <1>5 DEF Embed, jobVars, Busy, TypeOK
  <2>2. ASSUME NEW v \in Worker PROVE ReplacesAll(v)'
    <3>1. ReplacesAll(v)
      BY DEF StoreInv
    <3>. QED
      BY <1>1, <2>1, <3>1 DEF ReplacesAll
  <2>. QED
    BY <2>1, <2>2 DEF StoreInv, StoredOnce
<1>6. CASE FinishIngest(w)
  <2>1. /\ pc[w] = "embedded" /\ pc'[w] \notin Busy
        /\ UNCHANGED <<jobStatus, held>>
    BY <1>6 DEF FinishIngest, jobVars, Busy, TypeOK
  <2>2. CASE ~Exists(d)
    BY <1>1, <1>6, <2>1, <2>2, StoreKept DEF FinishIngest
  <2>3. CASE Exists(d)
    <3>. DEFINE n == billed[d] + 1
    <3>1. /\ docStatus' = [docStatus EXCEPT ![d] = "ready"]
          /\ chunks' = [chunks EXCEPT ![d] = (chunks[d] \ gone[w]) \cup {n}]
      BY <1>6, <2>3 DEF FinishIngest
    <3>2. jobStatus[j] = "running" /\ chunks[d] \subseteq gone[w]
      BY <2>1, <2>3 DEF StoreInv, ReplacesAll, Busy, Exists
    <3>. HIDE DEF n
    <3>3. /\ chunks'[d] = {n}
          /\ \A e \in Doc : e # d => chunks'[e] = chunks[e] /\ docStatus'[e] = docStatus[e]
      BY <1>2, <3>1, <3>2 DEF TypeOK
    <3>4. StoredOnce'
      BY <3>3 DEF StoreInv, StoredOnce
    <3>5. ASSUME NEW v \in Worker, pc'[v] \in Busy, docStatus'[jobDoc[held[v]]] # "deleted"
          PROVE  /\ jobStatus[held[v]] = "running"
                 /\ pc'[v] = "embedded" => chunks'[jobDoc[held[v]]] \subseteq gone'[v]
      <4>1. v # w /\ pc[v] \in Busy /\ held[v] \in JobId /\ held[v] # j
        BY <1>1, <1>3, <2>1, <3>5
      <4>2. jobDoc[held[v]] \in Doc
        BY <4>1 DEF TableInv, TypeOK, Busy, Holding, InTry
      <4>3. docStatus[jobDoc[held[v]]] # "deleted"
        BY <2>3, <3>3, <3>5, <4>2 DEF Exists
      <4>4. /\ jobStatus[held[v]] = "running"
            /\ pc[v] = "embedded" => chunks[jobDoc[held[v]]] \subseteq gone[v]
        BY <4>1, <4>3 DEF StoreInv, ReplacesAll
      <4>5. jobDoc[held[v]] # d
        BY <1>2, <3>2, <4>1, <4>4 DEF TableInv, OneRowPerDocument, Row
      <4>. QED
        BY <1>1, <3>3, <4>1, <4>2, <4>4, <4>5
    <3>. QED
      BY <1>1, <2>1, <3>4, <3>5 DEF StoreInv, ReplacesAll
  <2>. QED
    BY <2>2, <2>3
<1>7. CASE Complete(w) \/ Purge(w) \/ Fail(w) \/ Release(w)
  <2>1. /\ pc'[w] \notin Busy
        /\ UNCHANGED chunks
        /\ \A e \in Doc : docStatus'[e] # "deleted" => docStatus[e] # "deleted"
    <3>1. Row(j) => Exists(d)
      BY <1>2 DEF TableInv
    <3>2. pc'[w] \notin Busy /\ UNCHANGED chunks
      BY <1>7 DEF Complete, Purge, Fail, Release, LetGo, docVars, Busy, TypeOK
    <3>3. CASE Fail(w)
      BY <1>2, <3>1, <3>2, <3>3 DEF Fail, Exists, TypeOK
    <3>4. CASE ~Fail(w)
      BY <1>7, <3>2, <3>4 DEF Complete, Purge, Release, docVars
    <3>. QED
      BY <3>2, <3>3, <3>4
  <2>2. \A i \in JobId : i # j /\ jobStatus[i] = "running" => jobStatus'[i] = "running"
    BY <1>7 DEF Complete, Purge, Purged, Terminal, Fail, Release, TypeOK
  <2>. QED
    BY <1>1, <1>3, <2>1, <2>2, StoreKept
<1>. QED
  BY <1>4, <1>5, <1>6, <1>7 DEF Work

LEMMA StoreNext == TypeOK /\ TableInv /\ LeaseInv /\ StoreInv /\ [Next]_vars => StoreInv'
<1>. SUFFICES ASSUME TypeOK, TableInv, LeaseInv, StoreInv, [Next]_vars, ~HeartbeatsFail
              PROVE  StoreInv'
  BY DEF StoreInv, StoredOnce
<1>1. ASSUME NEW d \in Doc, Upload(d) PROVE StoreInv'
  BY <1>1, StoreEnqueue DEF Upload
<1>2. ASSUME NEW d \in Doc, Delete(d) PROVE StoreInv'
  <2>1. /\ UNCHANGED <<jobDoc, pc, held, gone>>
        /\ \A e \in Doc : /\ chunks'[e] \in {chunks[e], {}}
                          /\ docStatus'[e] # "deleted" => docStatus[e] # "deleted" /\ e # d
        /\ \A i \in JobId : jobDoc[i] # d => jobStatus'[i] = jobStatus[i]
    BY <1>2 DEF Delete, runVars, TypeOK
  <2>2. \A v \in Worker : pc[v] \in Busy => held[v] \in JobId /\ jobDoc[held[v]] \in Doc
    BY DEF TableInv, TypeOK, Busy, Holding, InTry
  <2>. QED
    BY <2>1, <2>2, StoreKept
<1>3. ASSUME NEW r \in Requester, RetryLost(r) \/ \E d \in Doc : RetryRead(r, d)
      PROVE  StoreInv'
  BY <1>3, StoreKept DEF RetryLost, RetryRead, docVars, jobVars, runVars
<1>4. ASSUME NEW r \in Requester, RetryCommit(r) PROVE StoreInv'
  <2>1. retrying[r] \in Doc
    BY <1>4 DEF TypeOK, RetryCommit
  <2>. QED
    BY <1>4, <2>1, StoreEnqueue DEF RetryCommit
<1>5. ASSUME NEW w \in Worker, Start(w) PROVE StoreInv'
  <2>1. /\ UNCHANGED <<chunks, jobDoc, held, gone>>
        /\ \A v \in Worker : pc'[v] \in Busy => pc'[v] = pc[v]
        /\ \A d \in Doc : docStatus'[d] # "deleted" => docStatus[d] # "deleted"
        /\ \A j \in JobId : ~(jobStatus[j] = "running" /\ lease[j] = "lapsed")
                            => jobStatus'[j] = jobStatus[j]
    BY <1>5 DEF Start, TypeOK, Busy
  <2>2. \A v \in Worker : pc[v] \in Busy =>
            /\ held[v] \in JobId
            /\ ~(jobStatus[held[v]] = "running" /\ lease[held[v]] = "lapsed")
    BY DEF LeaseInv, TableInv, Busy, Holding, InTry
  <2>. QED
    BY <2>1, <2>2, StoreKept
<1>6. ASSUME NEW w \in Worker, Claim(w) PROVE StoreInv'
  <2>1. PICK j \in JobId : /\ jobStatus' = [jobStatus EXCEPT ![j] = "running"]
                           /\ held' = [held EXCEPT ![w] = j]
    BY <1>6 DEF Claim
  <2>2. /\ UNCHANGED <<docStatus, chunks, jobDoc, gone>>
        /\ \A v \in Worker : v # w => pc'[v] = pc[v] /\ held'[v] = held[v]
        /\ pc'[w] = "claimed" /\ held'[w] = j /\ jobStatus'[j] = "running"
        /\ \A i \in JobId : jobStatus[i] = "running" => jobStatus'[i] = "running"
    BY <1>6, <2>1 DEF Claim, docVars, TypeOK
  <2>3. ASSUME NEW v \in Worker PROVE ReplacesAll(v)'
    <3>1. CASE v = w
      BY <2>2, <3>1 DEF ReplacesAll
    <3>2. CASE v # w
      <4>1. pc[v] \in Busy => held[v] \in JobId
        BY DEF TableInv, Busy, Holding, InTry
      <4>2. ReplacesAll(v)
        BY DEF StoreInv
      <4>. QED
        BY <2>2, <3>2, <4>1, <4>2 DEF ReplacesAll
    <3>. QED
      BY <3>1, <3>2
  <2>. QED
    BY <2>2, <2>3 DEF StoreInv, StoredOnce
<1>7. ASSUME NEW w \in Worker, Work(w) PROVE StoreInv'
  BY <1>7, StoreWork
<1>8. ASSUME NEW w \in Worker, Disrupt(w) PROVE StoreInv'
  <2>1. /\ UNCHANGED <<docStatus, chunks, jobDoc, jobStatus>>
        /\ \A v \in Worker : pc'[v] \in Busy => /\ pc'[v] = pc[v]
                                                /\ held'[v] = held[v]
                                                /\ gone'[v] = gone[v]
    BY <1>8 DEF Disrupt, EmbedError, CleanupError, Abandon, Shutdown, Crash,
                HeartbeatDies, LetGo, docVars, jobVars, TypeOK, Busy
  <2>. QED
    BY <2>1, StoreKept
<1>9. ASSUME NEW w \in Worker, Heartbeat(w) PROVE StoreInv'
  BY <1>9, StoreKept DEF Heartbeat, docVars, runVars
<1>10. ASSUME NEW j \in JobId, Lapse(j) PROVE StoreInv'
  BY <1>10, StoreKept DEF Lapse, docVars, runVars
<1>11. CASE UNCHANGED vars
  BY <1>11, StoreKept DEF vars, docVars, jobVars, runVars
<1>. QED
  BY <1>1, <1>2, <1>3, <1>4, <1>5, <1>6, <1>7, <1>8, <1>9, <1>10, <1>11 DEF Next, Request

\* A ready document has its chunks, and chunks belong to a document that exists
\* and were paid for, even when two runners work on one job.  As long as heartbeats
\* run they are there once, however often the document was ingested again.
THEOREM ReadyStaysSearchable == Spec => []ReadyIsSearchable
<1>1. Init => StoreInv
  BY DEF Init, StoreInv, StoredOnce, ReplacesAll, Busy
<1>2. Spec => []StoreInv
  BY <1>1, StoreNext, TypeCorrect, TablesInOrder, LeaseHeld, PTL DEF Spec
<1>3. TableInv /\ StoreInv => ReadyIsSearchable
  BY DEF TableInv, StoreInv, ReadyIsSearchable
<1>. QED
  BY <1>2, <1>3, TablesInOrder, PTL

-------------------------------------------------------------------------------
(* The queue: one re-upload at a time loses no document                        *)

\* A job in hand is for a document that has been uploaded, and if the row is
\* still there, the document exists, has not failed, and has no other row.
LEMMA InHand ==
    ASSUME TypeOK, TableInv, LeaseInv, QueueInv, OneAtATime,
           NEW w \in Worker, pc[w] \in Holding
    PROVE  /\ held[w] \in JobId
           /\ jobDoc[held[w]] \in Doc
           /\ Row(held[w]) =>
                /\ jobStatus[held[w]] \in {"running", "done"}
                /\ Exists(jobDoc[held[w]])
                /\ docStatus[jobDoc[held[w]]] # "failed"
                /\ \A i \in JobId : jobDoc[i] = jobDoc[held[w]] /\ Row(i) => i = held[w]
                /\ \A r \in Requester : retrying[r] # jobDoc[held[w]]
           /\ ~Row(held[w]) =>
                /\ docStatus[jobDoc[held[w]]] = "deleted"
                /\ \A i \in JobId : jobDoc[i] = jobDoc[held[w]] => ~Row(i)
           /\ \A v \in Worker : v # w /\ pc[v] \in Holding => held[v] # held[w]
<1>1. held[w] \in JobId /\ held[w] < nextJob
  BY DEF TableInv
<1>2. jobDoc[held[w]] \in Doc
  BY <1>1 DEF TableInv, TypeOK
<1>3. \A v \in Worker : v # w /\ pc[v] \in Holding => held[v] # held[w]
  BY DEF LeaseInv, OneWorkerPerJob, OneAtATime
<1>4. WorkInv(w)
  BY DEF QueueInv
<1>5. CASE Row(held[w])
  <2>1. jobStatus[held[w]] \in {"running", "done"}
    BY <1>4, <1>5 DEF WorkInv, Row
  <2>2. Exists(jobDoc[held[w]])
    BY <1>1, <1>5 DEF TableInv
  <2>3. docStatus[jobDoc[held[w]]] # "failed"
    BY <1>1, <1>2, <2>1 DEF QueueInv
  <2>4. \A i \in JobId : jobDoc[i] = jobDoc[held[w]] /\ Row(i) => i = held[w]
    BY <1>1, <1>5 DEF TableInv, OneRowPerDocument
  <2>5. \A r \in Requester : retrying[r] # jobDoc[held[w]]
    <3>1. jobDoc[held[w]] # None
      BY <1>2, QueueAssumption
    <3>. QED
      BY <2>2, <2>3, <3>1 DEF QueueInv, Exists
  <2>. QED
    BY <1>1, <1>2, <1>3, <1>5, <2>1, <2>2, <2>3, <2>4, <2>5
<1>6. CASE ~Row(held[w])
  <2>1. docStatus[jobDoc[held[w]]] = "deleted"
    BY <1>4, <1>6 DEF WorkInv, Row
  <2>2. \A i \in JobId : jobDoc[i] = jobDoc[held[w]] => ~Row(i)
    BY <2>1 DEF TableInv, Exists
  <2>. QED
    BY <1>1, <1>2, <1>3, <1>6, <2>1, <2>2
<1>. QED
  BY <1>5, <1>6

\* A step of a runner on the job it holds.
LEMMA QueueWork ==
    ASSUME TypeOK, TypeOK', TableInv, LeaseInv, QueueInv, OneAtATime,
           NEW w \in Worker, pc[w] \in Holding,
           UNCHANGED <<jobDoc, retrying>>,
           \A v \in Worker : v # w => pc'[v] = pc[v] /\ held'[v] = held[v],
           ~Row(held[w]) => UNCHANGED <<jobStatus, docStatus>>,
           \A i \in JobId : i # held[w] => jobStatus'[i] = jobStatus[i],
           \A e \in Doc : e # jobDoc[held[w]] => docStatus'[e] = docStatus[e],
           Row(held[w]) =>
              /\ docStatus'[jobDoc[held[w]]] \in {"pending", "processing"}
                    => jobStatus'[held[w]] \in Live
              /\ docStatus'[jobDoc[held[w]]] = "failed"
                    => jobStatus'[held[w]] = "failed",
           WorkInv(w)'
    PROVE  QueueInv'
<1>. DEFINE j == held[w]
            d == jobDoc[j]
<1>1. UnsettledIsQueued'
  <2>. SUFFICES ASSUME NEW e \in Doc, docStatus'[e] \in {"pending", "processing"}
                PROVE  \E i \in JobId : jobDoc[i] = e /\ jobStatus'[i] \in Live
    BY DEF UnsettledIsQueued, HasLive
  <2>1. CASE e = d /\ Row(j)
    BY <2>1, InHand
  <2>2. CASE ~(e = d /\ Row(j))
    <3>1. docStatus'[e] = docStatus[e]
      BY <2>2
    <3>2. PICK i \in JobId : jobDoc[i] = e /\ jobStatus[i] \in Live
      BY <3>1 DEF QueueInv, UnsettledIsQueued, HasLive
    <3>3. jobStatus'[i] = jobStatus[i]
      BY <2>2, <3>2
    <3>. QED
      BY <3>2, <3>3
  <2>. QED
    BY <2>1, <2>2
<1>2. ASSUME NEW v \in Worker PROVE WorkInv(v)'
  <2>1. CASE v = w
    BY <2>1
  <2>2. CASE v # w /\ pc[v] \in Holding
    <3>1. pc'[v] = pc[v] /\ held'[v] = held[v] /\ held[v] \in JobId /\ held[v] # j
      BY <2>2, InHand
    <3>2. jobStatus'[held[v]] = jobStatus[held[v]]
      BY <3>1
    <3>3. docStatus'[jobDoc[held[v]]] = docStatus[jobDoc[held[v]]]
      <4>1. CASE ~Row(j)
        BY <4>1
      <4>2. CASE Row(j)
        <5>1. ~Row(held[v]) => docStatus[jobDoc[held[v]]] = "deleted"
          BY <2>2, InHand
        <5>2. Exists(d) /\ (Row(held[v]) => jobDoc[held[v]] # d)
          BY <3>1, <4>2, InHand
        <5>3. jobDoc[held[v]] \in Doc /\ jobDoc[held[v]] # d
          BY <2>2, <5>1, <5>2, InHand DEF Exists
        <5>. QED
          BY <5>3
      <4>. QED
        BY <4>1, <4>2
    <3>4. WorkInv(v)
      BY DEF QueueInv
    <3>. QED
      BY <3>1, <3>2, <3>3, <3>4 DEF WorkInv, Row
  <2>3. CASE v # w /\ pc[v] \notin Holding
    BY <2>3 DEF WorkInv
  <2>. QED
    BY <2>1, <2>2, <2>3
<1>3. ASSUME NEW e \in Doc, NEW i \in JobId, docStatus'[e] = "failed", jobDoc[i] = e
      PROVE  jobStatus'[i] \in {"absent", "failed"}
  <2>1. CASE e = d /\ Row(j)
    <3>1. CASE i = j
      BY <1>3, <2>1, <3>1
    <3>2. CASE i # j
      BY <1>3, <2>1, <3>2, InHand DEF Row
    <3>. QED
      BY <3>1, <3>2
  <2>2. CASE ~(e = d /\ Row(j))
    <3>1. docStatus[e] = "failed" /\ jobStatus'[i] = jobStatus[i]
      BY <1>3, <2>2
    <3>. QED
      BY <1>3, <3>1 DEF QueueInv
  <2>. QED
    BY <2>1, <2>2
<1>4. ASSUME NEW r \in Requester, retrying[r] # None
      PROVE  docStatus'[retrying[r]] \in {"failed", "deleted"}
  <2>1. docStatus[retrying[r]] \in {"failed", "deleted"} /\ retrying[r] \in Doc
    BY <1>4 DEF QueueInv, TypeOK
  <2>2. docStatus'[retrying[r]] = docStatus[retrying[r]]
    BY <2>1, InHand
  <2>. QED
    BY <2>1, <2>2
<1>. QED
  BY <1>1, <1>2, <1>3, <1>4 DEF QueueInv

\* A step in which runners at most lose their jobs, and rows and documents stay.
LEMMA QueueIdle ==
    ASSUME QueueInv,
           UNCHANGED <<docStatus, jobStatus, jobDoc, retrying>>,
           \A v \in Worker : pc'[v] \in Holding => pc'[v] = pc[v] /\ held'[v] = held[v]
    PROVE  QueueInv'
<1>1. OneAtATime /\ QueueInv => \A v \in Worker : WorkInv(v)'
  BY DEF QueueInv, WorkInv, Row
<1>. QED
  BY <1>1 DEF QueueInv, UnsettledIsQueued, HasLive, OneAtATime

\* A runner at work settles the document together with its job, or neither.
LEMMA QueueWorks ==
    ASSUME TypeOK, TypeOK', TableInv, LeaseInv, QueueInv, OneAtATime,
           NEW w \in Worker, Work(w)
    PROVE  QueueInv'
<1>. DEFINE j == held[w]
            d == jobDoc[j]
<1>1. pc[w] \in Holding
  BY DEF Work, BeginIngest, Embed, FinishIngest, IngestError, Complete, Purge, Fail,
         Release, Holding, InTry
<1>2. /\ UNCHANGED <<jobDoc, retrying>>
      /\ \A v \in Worker : v # w => pc'[v] = pc[v] /\ held'[v] = held[v]
  BY DEF Work, BeginIngest, Embed, FinishIngest, IngestError, Complete, Purge, Fail,
         Release, LetGo, jobVars, TypeOK
<1>3. /\ j \in JobId /\ d \in Doc
      /\ Row(j) => jobStatus[j] \in {"running", "done"} /\ Exists(d) /\ docStatus[d] # "failed"
      /\ ~Row(j) => docStatus[d] = "deleted"
      /\ \A i \in JobId : i # j /\ jobDoc[i] = d => ~Row(i)
  <2>1. \A i \in JobId : i # j /\ jobDoc[i] = d => ~Row(i)
    BY <1>1, InHand
  <2>. QED
    BY <1>1, <2>1, InHand
<1>4. WorkInv(w)
  BY DEF QueueInv
<1>5. docStatus[d] \in {"pending", "processing"} => jobStatus[j] \in Live
  BY <1>3 DEF QueueInv, UnsettledIsQueued, HasLive, Row, Live
<1>6. CASE BeginIngest(w)
  <2>1. /\ pc[w] = "claimed"
        /\ UNCHANGED <<jobStatus, held>>
        /\ \/ /\ Exists(d)
              /\ docStatus' = [docStatus EXCEPT ![d] = "processing"]
              /\ pc' = [pc EXCEPT ![w] = "ingesting"]
           \/ /\ ~Exists(d)
              /\ UNCHANGED docStatus
              /\ \E next \in {"ingested", "failing"} : pc' = [pc EXCEPT ![w] = next]
    BY <1>6 DEF BeginIngest, jobVars
  <2>2. Exists(d) <=> Row(j)
    BY <1>3 DEF Exists
  <2>3. Row(j) => jobStatus[j] = "running"
    BY <1>1, <1>4, <2>1 DEF WorkInv, Row
  <2>4. WorkInv(w)'
    <3>1. CASE Row(j)
      <4>1. /\ pc'[w] = "ingesting" /\ jobStatus'[j] = "running" /\ held'[w] = j
            /\ docStatus'[d] = "processing"
        BY <1>3, <2>1, <2>2, <2>3, <3>1 DEF TypeOK
      <4>. QED
        BY <1>2, <4>1 DEF WorkInv, Row
    <3>2. CASE ~Row(j)
      BY <1>2, <1>3, <2>1, <2>2, <3>2 DEF WorkInv, Row
    <3>. QED
      BY <3>1, <3>2
  <2>5. Row(j) => /\ docStatus'[d] \in {"pending", "processing"} => jobStatus'[j] \in Live
                  /\ docStatus'[d] # "failed"
    BY <1>3, <2>1, <2>2, <2>3 DEF TypeOK, Live
  <2>6. /\ ~Row(j) => UNCHANGED <<jobStatus, docStatus>>
        /\ \A e \in Doc : e # d => docStatus'[e] = docStatus[e]
        /\ \A i \in JobId : jobStatus'[i] = jobStatus[i]
    BY <2>1, <2>2 DEF TypeOK
  <2>. QED
    BY <1>1, <1>2, <2>4, <2>5, <2>6, QueueWork
<1>7. CASE FinishIngest(w)
  <2>1. /\ pc[w] = "embedded"
        /\ UNCHANGED <<jobStatus, held>>
        /\ \/ /\ Exists(d)
              /\ docStatus' = [docStatus EXCEPT ![d] = "ready"]
              /\ pc' = [pc EXCEPT ![w] = "ingested"]
           \/ /\ ~Exists(d)
              /\ UNCHANGED docStatus
              /\ pc' = [pc EXCEPT ![w] = "failing"]
    BY <1>7 DEF FinishIngest, jobVars
  <2>2. Exists(d) <=> Row(j)
    BY <1>3 DEF Exists
  <2>3. Row(j) => jobStatus[j] = "running"
    BY <1>1, <1>4, <2>1 DEF WorkInv, Row
  <2>4. WorkInv(w)'
    <3>1. CASE Row(j)
      <4>1. /\ pc'[w] = "ingested" /\ jobStatus'[j] = "running" /\ held'[w] = j
            /\ docStatus'[d] = "ready"
        BY <1>3, <2>1, <2>2, <2>3, <3>1 DEF TypeOK
      <4>. QED
        BY <1>2, <4>1 DEF WorkInv, Row
    <3>2. CASE ~Row(j)
      BY <1>2, <1>3, <2>1, <2>2, <3>2 DEF WorkInv, Row
    <3>. QED
      BY <3>1, <3>2
  <2>5. Row(j) => docStatus'[d] = "ready"
    BY <1>3, <2>1, <2>2 DEF TypeOK
  <2>6. /\ ~Row(j) => UNCHANGED <<jobStatus, docStatus>>
        /\ \A e \in Doc : e # d => docStatus'[e] = docStatus[e]
        /\ \A i \in JobId : jobStatus'[i] = jobStatus[i]
    BY <2>1, <2>2 DEF TypeOK
  <2>. QED
    BY <1>1, <1>2, <2>4, <2>5, <2>6, QueueWork
<1>8. CASE IngestError(w)
  <2>1. /\ UNCHANGED <<docStatus, jobStatus, held>>
        /\ pc' = [pc EXCEPT ![w] = "failing"]
        /\ pc[w] \in {"claimed", "ingesting"}
    BY <1>8 DEF IngestError, docVars, jobVars
  <2>2. WorkInv(w)'
    BY <1>1, <1>2, <1>4, <2>1 DEF WorkInv, Row, TypeOK
  <2>. QED
    BY <1>1, <1>2, <1>3, <1>5, <2>1, <2>2, QueueWork
<1>9. CASE Complete(w)
  <2>1. /\ pc[w] = "ingested"
        /\ UNCHANGED <<docStatus, held>>
        /\ pc' = [pc EXCEPT ![w] = "completed"]
        /\ Row(j) => jobStatus' = [jobStatus EXCEPT ![j] = "done"]
        /\ ~Row(j) => UNCHANGED jobStatus
    BY <1>9 DEF Complete, docVars
  <2>2. Row(j) => docStatus[d] = "ready" /\ jobStatus'[j] = "done"
    BY <1>1, <1>3, <1>4, <2>1 DEF WorkInv, TypeOK
  <2>3. WorkInv(w)'
    <3>1. pc'[w] = "completed" /\ held'[w] = j
      BY <2>1 DEF TypeOK
    <3>. QED
      BY <1>2, <1>3, <2>1, <2>2, <3>1 DEF WorkInv, Row
  <2>4. \A i \in JobId : i # j => jobStatus'[i] = jobStatus[i]
    BY <2>1 DEF TypeOK
  <2>. QED
    BY <1>1, <1>2, <2>1, <2>2, <2>3, <2>4, QueueWork
<1>10. CASE Purge(w)
  <2>1. /\ pc[w] = "completed"
        /\ UNCHANGED docStatus
        /\ jobStatus' = Purged(d)
        /\ pc'[w] = "idle"
    BY <1>10 DEF Purge, LetGo, docVars, TypeOK
  <2>2. WorkInv(w)'
    BY <2>1 DEF WorkInv, Holding, InTry
  <2>3. \A i \in JobId : i # j => jobStatus'[i] = jobStatus[i]
    BY <1>3, <2>1 DEF Purged, Row, Terminal
  <2>4. ~Row(j) => \A i \in JobId : jobStatus'[i] = jobStatus[i]
    BY <2>1, <2>3 DEF Purged, Row, Terminal
  <2>5. ~Row(j) => UNCHANGED jobStatus
    BY <2>4 DEF TypeOK
  <2>6. Row(j) => docStatus[d] = "ready"
    BY <1>1, <1>4, <2>1 DEF WorkInv, Row
  <2>. QED
    BY <1>1, <1>2, <2>1, <2>2, <2>3, <2>5, <2>6, QueueWork
<1>11. CASE Fail(w)
  <2>1. /\ pc'[w] = "idle"
        /\ ~Row(j) => UNCHANGED <<jobStatus, docStatus>>
        /\ Row(j) => \/ /\ jobStatus' = [jobStatus EXCEPT ![j] = "failed"]
                        /\ docStatus' = [docStatus EXCEPT ![d] = "failed"]
                     \/ /\ jobStatus' = [jobStatus EXCEPT ![j] = "pending"]
                        /\ docStatus' = docStatus
    BY <1>11 DEF Fail, LetGo, TypeOK
  <2>2. WorkInv(w)'
    BY <2>1 DEF WorkInv, Holding, InTry
  <2>3. /\ \A i \in JobId : i # j => jobStatus'[i] = jobStatus[i]
        /\ \A e \in Doc : e # d => docStatus'[e] = docStatus[e]
    BY <2>1 DEF TypeOK
  <2>4. Row(j) => \/ jobStatus'[j] = "failed" /\ docStatus'[d] = "failed"
                  \/ jobStatus'[j] = "pending" /\ docStatus'[d] = docStatus[d]
    BY <1>3, <2>1 DEF TypeOK
  <2>. QED
    BY <1>1, <1>2, <1>3, <2>1, <2>2, <2>3, <2>4, QueueWork DEF Live
<1>12. CASE Release(w)
  <2>1. /\ pc'[w] = "down"
        /\ UNCHANGED docStatus
        /\ Row(j) => jobStatus' = [jobStatus EXCEPT ![j] = "pending"]
        /\ ~Row(j) => UNCHANGED jobStatus
    BY <1>12 DEF Release, LetGo, docVars, TypeOK
  <2>2. WorkInv(w)'
    BY <2>1 DEF WorkInv, Holding, InTry
  <2>3. \A i \in JobId : i # j => jobStatus'[i] = jobStatus[i]
    BY <2>1 DEF TypeOK
  <2>4. Row(j) => jobStatus'[j] = "pending"
    BY <1>3, <2>1 DEF TypeOK
  <2>. QED
    BY <1>1, <1>2, <1>3, <2>1, <2>2, <2>3, <2>4, QueueWork DEF Live
<1>13. CASE Embed(w)
  <2>1. /\ UNCHANGED <<docStatus, jobStatus, held>>
        /\ pc' = [pc EXCEPT ![w] = "embedded"]
        /\ pc[w] = "ingesting"
    BY <1>13 DEF Embed, jobVars
  <2>2. WorkInv(w)'
    <3>1. pc'[w] = "embedded"
      BY <2>1 DEF TypeOK
    <3>. QED
      BY <1>1, <1>2, <1>4, <2>1, <3>1 DEF WorkInv, Row
  <2>. QED
    BY <1>1, <1>2, <1>3, <1>5, <2>1, <2>2, QueueWork
<1>. QED
  BY <1>6, <1>7, <1>8, <1>9, <1>10, <1>11, <1>12, <1>13 DEF Work

\* The documents of jobs in hand are the ones that are being worked on: a request
\* that touches a failed or a new document touches none of them.
LEMMA NotInHand ==
    ASSUME TypeOK, TableInv, LeaseInv, QueueInv, OneAtATime,
           NEW d \in Doc, docStatus[d] \in {"failed", "unborn"},
           NEW w \in Worker, pc[w] \in Holding
    PROVE  jobDoc[held[w]] # d
<1>. SUFFICES ASSUME jobDoc[held[w]] = d PROVE FALSE
  OBVIOUS
<1>1. held[w] \in JobId
  BY InHand
<1>2. Row(held[w])
  BY InHand
<1>. QED
  BY <1>2, InHand DEF Exists

\* enqueue for a document with no job in hand, as its only requester.
LEMMA QueueEnqueue ==
    ASSUME TypeOK, TableInv, LeaseInv, QueueInv, OneAtATime,
           NEW d \in Doc,
           NEW st, st = jobStatus \/ st = Purged(d),
           docStatus[d] \in {"failed", "unborn"},
           Enqueue(d, st), docStatus' = [docStatus EXCEPT ![d] = "pending"],
           UNCHANGED runVars,
           \A r \in Requester : \/ retrying'[r] = None
                                \/ retrying'[r] = retrying[r] /\ retrying[r] # d
    PROVE  QueueInv'
<1>1. ~HasLive(d)
  BY DEF QueueInv, HasLive, TableInv, Row, Exists, Live
<1>2. /\ nextJob \in JobId
      /\ jobStatus' = [st EXCEPT ![nextJob] = "pending"]
      /\ jobDoc' = [jobDoc EXCEPT ![nextJob] = d]
  BY <1>1, QueueAssumption DEF Enqueue, TypeOK, JobId
<1>3. \A j \in JobId : st[j] \in {jobStatus[j], "absent"} /\ (jobDoc[j] # d => st[j] = jobStatus[j])
  BY DEF Purged
<1>4. st \in [JobId -> Live \cup Terminal \cup {"absent"}]
  BY DEF Purged, TypeOK
<1>5. /\ jobStatus'[nextJob] = "pending" /\ jobDoc'[nextJob] = d
      /\ \A j \in JobId : j # nextJob => /\ jobDoc'[j] = jobDoc[j]
                                         /\ jobStatus'[j] = st[j]
      /\ docStatus'[d] = "pending"
      /\ \A e \in Doc : e # d => docStatus'[e] = docStatus[e]
  BY <1>2, <1>4 DEF TypeOK
<1>6. \A j \in JobId : jobDoc[j] # None => j # nextJob
  BY <1>2 DEF TableInv, JobId
<1>7. UnsettledIsQueued'
  <2>. SUFFICES ASSUME NEW e \in Doc, docStatus'[e] \in {"pending", "processing"}
                PROVE  \E i \in JobId : jobDoc'[i] = e /\ jobStatus'[i] \in Live
    BY DEF UnsettledIsQueued, HasLive
  <2>1. CASE e = d
    BY <1>2, <1>5, <2>1 DEF Live
  <2>2. CASE e # d
    <3>1. PICK i \in JobId : jobDoc[i] = e /\ jobStatus[i] \in Live
      BY <1>5, <2>2 DEF QueueInv, UnsettledIsQueued, HasLive
    <3>2. i # nextJob
      BY <1>6, <3>1, QueueAssumption
    <3>. QED
      BY <1>3, <1>5, <2>2, <3>1, <3>2
  <2>. QED
    BY <2>1, <2>2
<1>8. ASSUME NEW w \in Worker PROVE WorkInv(w)'
  <2>1. CASE pc[w] \in Holding
    <3>1. /\ held[w] \in JobId /\ jobDoc[held[w]] \in Doc /\ jobDoc[held[w]] # d
          /\ held[w] # nextJob
      <4>1. held[w] \in JobId /\ jobDoc[held[w]] \in Doc
        BY <2>1, InHand
      <4>2. jobDoc[held[w]] # d
        BY <2>1, NotInHand
      <4>. QED
        BY <1>6, <4>1, <4>2, QueueAssumption
    <3>2. /\ jobStatus'[held[w]] = jobStatus[held[w]]
          /\ jobDoc'[held[w]] = jobDoc[held[w]]
          /\ docStatus'[jobDoc[held[w]]] = docStatus[jobDoc[held[w]]]
      BY <1>3, <1>5, <3>1
    <3>3. WorkInv(w)
      BY DEF QueueInv
    <3>. QED
      BY <3>2, <3>3 DEF WorkInv, Row, runVars
  <2>2. CASE pc[w] \notin Holding
    BY <2>2 DEF WorkInv, runVars
  <2>. QED
    BY <2>1, <2>2
<1>9. ASSUME NEW e \in Doc, NEW j \in JobId, docStatus'[e] = "failed", jobDoc'[j] = e
      PROVE  jobStatus'[j] \in {"absent", "failed"}
  <2>1. e # d /\ docStatus[e] = "failed" /\ j # nextJob
    BY <1>5, <1>9
  <2>. QED
    BY <1>3, <1>5, <1>9, <2>1 DEF QueueInv
<1>10. ASSUME NEW r \in Requester, retrying'[r] # None
       PROVE  docStatus'[retrying'[r]] \in {"failed", "deleted"}
  <2>1. retrying'[r] = retrying[r] /\ retrying[r] \in Doc /\ retrying[r] # d
    BY <1>10 DEF TypeOK
  <2>. QED
    BY <1>5, <1>10, <2>1 DEF QueueInv
<1>. QED
  BY <1>7, <1>8, <1>9, <1>10 DEF QueueInv

\* A request leaves every unsettled document a live job.
LEMMA QueueRequest ==
    ASSUME TypeOK, TypeOK', TableInv, LeaseInv, QueueInv, OneAtATime, Request
    PROVE  QueueInv'
<1>1. ASSUME NEW d \in Doc, Upload(d) PROVE QueueInv'
  <2>1. docStatus[d] = "unborn" /\ UNCHANGED retrying
    BY <1>1 DEF Upload
  <2>2. \A r \in Requester : retrying[r] # d
    BY <2>1, QueueAssumption DEF TableInv
  <2>. QED
    BY <1>1, <2>1, <2>2, QueueEnqueue DEF Upload
<1>2. ASSUME NEW r \in Requester, RetryCommit(r) PROVE QueueInv'
  <2>1. retrying[r] \in Doc /\ docStatus[retrying[r]] = "failed"
    BY <1>2 DEF TypeOK, RetryCommit, QueueInv
  <2>2. \A q \in Requester : retrying'[q] = None
    BY <1>2 DEF TypeOK, RetryCommit, OneAtATime
  <2>. QED
    BY <1>2, <2>1, <2>2, QueueEnqueue DEF RetryCommit
<1>3. ASSUME NEW d \in Doc, Delete(d) PROVE QueueInv'
  <2>1. /\ UNCHANGED <<jobDoc, retrying, pc, held>>
        /\ docStatus'[d] = "deleted"
        /\ \A e \in Doc : e # d => docStatus'[e] = docStatus[e]
        /\ \A j \in JobId : jobStatus'[j] = IF jobDoc[j] = d THEN "absent" ELSE jobStatus[j]
    BY <1>3 DEF Delete, TypeOK, runVars
  <2>2. UnsettledIsQueued'
    BY <2>1 DEF QueueInv, UnsettledIsQueued, HasLive
  <2>3. ASSUME NEW w \in Worker PROVE WorkInv(w)'
    <3>1. CASE pc[w] \in Holding
      <4>1. held[w] \in JobId /\ jobDoc[held[w]] \in Doc
        BY <3>1, InHand
      <4>2. WorkInv(w)
        BY DEF QueueInv
      <4>. QED
        BY <2>1, <4>1, <4>2 DEF WorkInv, Row
    <3>2. CASE pc[w] \notin Holding
      BY <2>1, <3>2 DEF WorkInv
    <3>. QED
      BY <3>1, <3>2
  <2>4. \A e \in Doc, j \in JobId :
            docStatus'[e] = "failed" /\ jobDoc[j] = e => jobStatus'[j] \in {"absent", "failed"}
    BY <2>1 DEF QueueInv
  <2>5. \A r \in Requester :
            retrying[r] # None => docStatus'[retrying[r]] \in {"failed", "deleted"}
    <3>1. \A r \in Requester : retrying[r] # None => retrying[r] \in Doc
      BY DEF TypeOK
    <3>. QED
      BY <2>1, <3>1 DEF QueueInv
  <2>. QED
    BY <2>1, <2>2, <2>3, <2>4, <2>5 DEF QueueInv
<1>4. ASSUME NEW r \in Requester, NEW d \in Doc, RetryRead(r, d) PROVE QueueInv'
  <2>1. /\ UNCHANGED <<docStatus, jobStatus, jobDoc, pc, held>>
        /\ docStatus[d] = "failed"
        /\ \A q \in Requester : retrying'[q] \in {retrying[q], d}
    BY <1>4 DEF RetryRead, docVars, jobVars, runVars, TypeOK
  <2>2. \A w \in Worker : WorkInv(w)'
    BY <2>1 DEF QueueInv, WorkInv, Row
  <2>. QED
    BY <2>1, <2>2 DEF QueueInv, UnsettledIsQueued, HasLive
<1>5. ASSUME NEW r \in Requester, RetryLost(r) PROVE QueueInv'
  <2>1. /\ UNCHANGED <<docStatus, jobStatus, jobDoc, pc, held>>
        /\ \A q \in Requester : retrying'[q] \in {retrying[q], None}
    BY <1>5 DEF RetryLost, docVars, jobVars, runVars, TypeOK
  <2>2. \A w \in Worker : WorkInv(w)'
    BY <2>1 DEF QueueInv, WorkInv, Row
  <2>. QED
    BY <2>1, <2>2 DEF QueueInv, UnsettledIsQueued, HasLive
<1>. QED
  BY <1>1, <1>2, <1>3, <1>4, <1>5 DEF Request

\* Every step keeps the queue and the documents in agreement.
LEMMA QueueNext == TypeOK /\ TableInv /\ LeaseInv /\ QueueInv /\ [Next]_vars => QueueInv'
<1>. SUFFICES ASSUME TypeOK, TableInv, LeaseInv, QueueInv, [Next]_vars, OneAtATime
              PROVE  QueueInv'
  BY DEF QueueInv, OneAtATime
<1>. TypeOK'
  BY NextType
<1>1. CASE Request
  BY <1>1, QueueRequest
<1>2. ASSUME NEW w \in Worker, Start(w) PROVE QueueInv'
  <2>1. /\ UNCHANGED <<jobDoc, held, retrying>>
        /\ \A v \in Worker : pc'[v] \in Holding => pc'[v] = pc[v]
        /\ \A j \in JobId : \/ jobStatus'[j] = jobStatus[j]
                            \/ /\ jobStatus[j] = "running" /\ lease[j] = "lapsed"
                               /\ jobStatus'[j] = "pending"
        /\ \A d \in Doc : \/ docStatus'[d] = docStatus[d]
                          \/ /\ docStatus[d] = "processing" /\ docStatus'[d] = "pending"
                             /\ \E j \in JobId : /\ jobStatus[j] = "running"
                                                 /\ lease[j] = "lapsed"
                                                 /\ jobDoc[j] = d
    BY <1>2 DEF Start, TypeOK, Holding, InTry
  <2>2. UnsettledIsQueued'
    BY <2>1 DEF QueueInv, UnsettledIsQueued, HasLive, Live
  <2>3. ASSUME NEW v \in Worker PROVE WorkInv(v)'
    <3>1. CASE pc'[v] \in Holding
      <4>1. pc[v] \in Holding /\ pc'[v] = pc[v]
        BY <2>1, <3>1
      <4>2. ~(jobStatus[held[v]] = "running" /\ lease[held[v]] = "lapsed")
        BY <4>1 DEF LeaseInv, OneAtATime
      <4>3. held[v] \in JobId /\ jobDoc[held[v]] \in Doc
        BY <4>1, InHand
      <4>4. jobStatus'[held[v]] = jobStatus[held[v]]
        BY <2>1, <4>2, <4>3
      <4>5. docStatus'[jobDoc[held[v]]] = docStatus[jobDoc[held[v]]]
        <5>1. ASSUME NEW j \in JobId, jobStatus[j] = "running", lease[j] = "lapsed"
              PROVE  jobDoc[j] # jobDoc[held[v]]
          BY <4>1, <4>2, <5>1, InHand DEF Row
        <5>. QED
          BY <2>1, <4>3, <5>1
      <4>6. WorkInv(v)
        BY DEF QueueInv
      <4>. QED
        BY <2>1, <4>1, <4>4, <4>5, <4>6 DEF WorkInv, Row
    <3>2. CASE pc'[v] \notin Holding
      BY <3>2 DEF WorkInv
    <3>. QED
      BY <3>1, <3>2
  <2>4. \A d \in Doc, j \in JobId :
            docStatus'[d] = "failed" /\ jobDoc[j] = d => jobStatus'[j] \in {"absent", "failed"}
    BY <2>1 DEF QueueInv
  <2>5. \A r \in Requester :
            retrying[r] # None => docStatus'[retrying[r]] \in {"failed", "deleted"}
    BY <2>1 DEF QueueInv, TypeOK
  <2>. QED
    BY <2>1, <2>2, <2>3, <2>4, <2>5 DEF QueueInv
<1>3. ASSUME NEW w \in Worker, Claim(w) PROVE QueueInv'
  <2>1. PICK j \in JobId : /\ Claimable(j)
                           /\ jobStatus' = [jobStatus EXCEPT ![j] = "running"]
                           /\ held' = [held EXCEPT ![w] = j]
    BY <1>3 DEF Claim
  <2>2. /\ UNCHANGED <<docStatus, jobDoc, retrying>>
        /\ \A v \in Worker : v # w => pc'[v] = pc[v] /\ held'[v] = held[v]
        /\ pc'[w] = "claimed" /\ held'[w] = j
        /\ jobStatus'[j] = "running"
        /\ \A i \in JobId : i # j => jobStatus'[i] = jobStatus[i]
    BY <1>3, <2>1 DEF Claim, docVars, TypeOK
  <2>3. UnsettledIsQueued'
    BY <2>2 DEF QueueInv, UnsettledIsQueued, HasLive, Live
  <2>4. ASSUME NEW v \in Worker PROVE WorkInv(v)'
    <3>1. CASE v = w
      BY <2>2, <3>1 DEF WorkInv, Row
    <3>2. CASE v # w /\ pc[v] \in Holding
      <4>1. held[v] # j /\ held[v] \in JobId
        BY <2>1, <3>2, InHand DEF LeaseInv, OneAtATime, Claimable
      <4>2. WorkInv(v)
        BY DEF QueueInv
      <4>. QED
        BY <2>2, <3>2, <4>1, <4>2 DEF WorkInv, Row
    <3>3. CASE v # w /\ pc[v] \notin Holding
      BY <2>2, <3>3 DEF WorkInv
    <3>. QED
      BY <3>1, <3>2, <3>3
  <2>5. \A d \in Doc : docStatus[d] = "failed" => jobDoc[j] # d
    BY <2>1 DEF QueueInv, Claimable
  <2>6. \A d \in Doc, i \in JobId :
            docStatus'[d] = "failed" /\ jobDoc[i] = d => jobStatus'[i] \in {"absent", "failed"}
    BY <2>2, <2>5 DEF QueueInv
  <2>. QED
    BY <2>2, <2>3, <2>4, <2>6 DEF QueueInv
<1>4. ASSUME NEW w \in Worker, Work(w) PROVE QueueInv'
  BY <1>4, QueueWorks
<1>5. ASSUME NEW w \in Worker, Heartbeat(w) PROVE QueueInv'
  BY <1>5, QueueIdle DEF Heartbeat, docVars, runVars
<1>6. ASSUME NEW w \in Worker, Disrupt(w) PROVE QueueInv'
  <2>1. CASE EmbedError(w) \/ CleanupError(w) \/ Shutdown(w)
    <3>1. /\ UNCHANGED <<docStatus, jobStatus, jobDoc, held, retrying>>
          /\ \A v \in Worker : v # w => pc'[v] = pc[v]
          /\ pc[w] \in InTry /\ pc'[w] \in {"failing", "releasing"}
      BY <2>1 DEF EmbedError, CleanupError, Shutdown, docVars, jobVars, TypeOK, InTry
    <3>2. pc[w] \in Holding
      BY <3>1 DEF Holding, InTry
    <3>3. WorkInv(w)'
      <4>1. WorkInv(w)
        BY DEF QueueInv
      <4>. QED
        BY <3>1, <3>2, <4>1 DEF WorkInv, Row
    <3>4. \A v \in Worker : WorkInv(v)'
      BY <3>1, <3>3 DEF QueueInv, WorkInv, Row
    <3>. QED
      BY <3>1, <3>4 DEF QueueInv, UnsettledIsQueued, HasLive
  <2>2. CASE Abandon(w)
    BY <2>2, QueueIdle DEF Abandon, LetGo, docVars, jobVars, TypeOK, Holding, InTry
  <2>3. CASE Crash(w)
    BY <2>3, QueueIdle DEF Crash, LetGo, docVars, jobVars, TypeOK, Holding, InTry
  <2>4. CASE HeartbeatDies(w)
    BY <2>4, QueueIdle DEF HeartbeatDies, docVars, jobVars
  <2>. QED
    BY <1>6, <2>1, <2>2, <2>3, <2>4 DEF Disrupt
<1>7. ASSUME NEW j \in JobId, Lapse(j) PROVE QueueInv'
  BY <1>7, QueueIdle DEF Lapse, docVars, runVars
<1>8. CASE UNCHANGED vars
  BY <1>8, QueueIdle DEF vars, docVars, jobVars, runVars
<1>. QED
  BY <1>1, <1>2, <1>3, <1>4, <1>5, <1>6, <1>7, <1>8 DEF Next

\* So they always agree.
LEMMA QueueHeld == Spec => []QueueInv
<1>1. Init => QueueInv
  BY DEF Init, QueueInv, UnsettledIsQueued, WorkInv, Holding, InTry
<1>. QED
  BY <1>1, QueueNext, TypeCorrect, TablesInOrder, LeaseHeld, PTL DEF Spec

\* While heartbeats run and nobody re-uploads a document twice at once, a document
\* that is pending or processing has a live job, through every crash, shutdown,
\* failed clean-up and retry: its spinner always stands for work to come.
THEOREM NothingIsLost == Spec => [](OneAtATime => UnsettledIsQueued)
<1>1. QueueInv => (OneAtATime => UnsettledIsQueued)
  BY DEF QueueInv
<1>. QED
  BY <1>1, QueueHeld, PTL

-------------------------------------------------------------------------------
(* The bill: no text is paid for again unless something went wrong             *)

\* No document is in the hands of two runners, whatever jobs they hold.
LEMMA OneWorkerPerDocument ==
    ASSUME TypeOK, TableInv, LeaseInv, QueueInv, SpentInv, OneAtATime, [Next]_vars,
           NEW v \in Worker, NEW w \in Worker, NEW d \in Doc,
           WorksOn(v, d)', WorksOn(w, d)'
    PROVE  v = w
<1>1. \A j \in JobId : j < nextJob => jobDoc'[j] = jobDoc[j]
  <2>1. \A j \in JobId : j < nextJob => j # nextJob
    BY DEF TypeOK, JobId
  <2>2. ASSUME NEW e \in Doc, NEW st, Enqueue(e, st)
        PROVE  \A j \in JobId : j < nextJob => jobDoc'[j] = jobDoc[j]
    BY <2>1, <2>2 DEF Enqueue, TypeOK
  <2>3. \A r \in Requester : retrying[r] # None => retrying[r] \in Doc
    BY DEF TypeOK
  <2>4. UNCHANGED jobDoc \/ \E e \in Doc : \E st \in {jobStatus, Purged(e)} : Enqueue(e, st)
    BY <2>3 DEF Next, Request, Upload, Delete, RetryRead, RetryCommit, RetryLost, Start,
                Claim, Work, BeginIngest, Embed, FinishIngest, IngestError, Complete,
                Purge, Fail, Release, Heartbeat, Disrupt, EmbedError, CleanupError,
                Abandon, Shutdown, Crash, HeartbeatDies, Lapse, vars, jobVars
  <2>. QED
    BY <2>2, <2>4
<1>2. ASSUME NEW u \in Worker, pc[u] \in Holding, pc'[u] \in Holding, held'[u] = held[u],
             WorksOn(u, d)'
      PROVE  WorksOn(u, d)
  <2>1. held[u] \in JobId /\ held[u] < nextJob
    BY <1>2 DEF TableInv
  <2>. QED
    BY <1>1, <1>2, <2>1 DEF WorksOn
<1>3. CASE \E u \in Worker : Claim(u)
  <2>1. PICK u \in Worker : Claim(u)
    BY <1>3
  <2>2. PICK j \in JobId : Claimable(j) /\ held' = [held EXCEPT ![u] = j]
    BY <2>1 DEF Claim
  <2>3. /\ UNCHANGED jobDoc
        /\ held'[u] = j
        /\ \A x \in Worker : x # u => pc'[x] = pc[x] /\ held'[x] = held[x]
    BY <2>1, <2>2 DEF Claim, TypeOK
  <2>4. ASSUME NEW x \in Worker, x # u, WorksOn(x, jobDoc[j]) PROVE FALSE
    <3>1. pc[x] \in Holding /\ held[x] \in JobId /\ jobDoc[held[x]] = jobDoc[j]
      BY <2>4 DEF WorksOn, TableInv
    <3>2. held[x] # j
      BY <2>2, <3>1 DEF LeaseInv, OneAtATime, Claimable
    <3>3. Row(j)
      BY <2>2 DEF Claimable, Row
    <3>. QED
      BY <3>1, <3>2, <3>3, InHand
  <2>5. \A x \in Worker : x # u /\ WorksOn(x, d)' => WorksOn(x, d)
    BY <2>3 DEF WorksOn
  <2>6. \A x \in Worker : WorksOn(x, d)' /\ x = u => d = jobDoc[j]
    BY <2>3 DEF WorksOn
  <2>. QED
    BY <2>4, <2>5, <2>6 DEF SpentInv
<1>4. CASE ~\E u \in Worker : Claim(u)
  <2>1. ASSUME NEW u \in Worker, pc'[u] \in Holding
        PROVE  pc[u] \in Holding /\ held'[u] = held[u]
    BY <1>4, <2>1
       DEF Next, Request, Upload, Delete, RetryRead, RetryCommit, RetryLost, Start, Work,
           BeginIngest, Embed, FinishIngest, IngestError, Complete, Purge, Fail, Release,
           Heartbeat, Disrupt, EmbedError, CleanupError, Abandon, Shutdown, Crash,
           HeartbeatDies, Lapse, LetGo, vars, runVars, TypeOK, Holding, InTry
  <2>2. pc'[v] \in Holding /\ pc'[w] \in Holding
    BY DEF WorksOn
  <2>. QED
    BY <1>2, <2>1, <2>2 DEF SpentInv
<1>. QED
  BY <1>3, <1>4

\* What settles a document is not undone by a step that leaves its rows, the runners
\* that work on it and its status alone.
LEMMA SettledKept ==
    ASSUME TypeOK, TableInv, NEW d \in Doc, Settled(d),
           docStatus'[d] \notin {"unborn", "failed"},
           \A j \in JobId : jobDoc'[j] = d /\ Row(j)' =>
                jobDoc[j] = d /\ jobStatus'[j] = jobStatus[j],
           \A v \in Worker : WorksOn(v, d)' =>
                WorksOn(v, d) /\ held'[v] = held[v] /\ pc'[v] = pc[v],
           \A v \in Worker : WorksOn(v, d) =>
                held'[v] = held[v] /\ pc'[v] = pc[v]
    PROVE  Settled(d)'
<1>1. ASSUME NEW v \in Worker, WorksOn(v, d)'
      PROVE  \/ pc'[v] \in {"embedded", "ingested", "completed"}
             \/ pc'[v] = "failing" /\ ~Row(held[v])'
  <2>1. WorksOn(v, d) /\ held'[v] = held[v] /\ pc'[v] = pc[v]
    BY <1>1
  <2>2. \/ pc[v] \in {"embedded", "ingested", "completed"}
        \/ pc[v] = "failing" /\ ~Row(held[v])
    BY <2>1 DEF Settled
  <2>3. held[v] \in JobId /\ jobDoc'[held[v]] = d
    BY <1>1, <2>1 DEF WorksOn, TableInv
  <2>. QED
    BY <2>1, <2>2, <2>3 DEF Row
<1>2. ASSUME NEW j \in JobId, jobDoc'[j] = d, Row(j)'
      PROVE  jobStatus'[j] = "done" \/ (jobStatus'[j] = "running" /\ Held(j)')
  <2>1. jobDoc[j] = d /\ jobStatus'[j] = jobStatus[j] /\ Row(j)
    BY <1>2 DEF Row
  <2>2. jobStatus[j] = "done" \/ (jobStatus[j] = "running" /\ Held(j))
    BY <2>1 DEF Settled, RowsOf
  <2>3. ASSUME Held(j) PROVE Held(j)'
    <3>1. PICK v \in Worker : pc[v] \in Holding /\ held[v] = j
      BY <2>3 DEF Held
    <3>2. held'[v] = held[v] /\ pc'[v] = pc[v]
      BY <2>1, <3>1 DEF WorksOn
    <3>. QED
      BY <3>1, <3>2 DEF Held
  <2>. QED
    BY <2>1, <2>2, <2>3
<1>. QED
  BY <1>1, <1>2 DEF Settled, RowsOf

\* enqueue for a document that is new or has failed settles and unsettles no other.
LEMMA SpentEnqueue ==
    ASSUME TypeOK, TableInv, NEW d \in Doc, Settled(d),
           NEW e \in Doc, docStatus[e] \in {"unborn", "failed"},
           NEW st, st = jobStatus \/ st = Purged(e), Enqueue(e, st),
           docStatus' = [docStatus EXCEPT ![e] = "pending"], UNCHANGED runVars
    PROVE  Settled(d)'
<1>1. d # e
  BY DEF Settled
<1>2. docStatus'[d] = docStatus[d]
  BY <1>1 DEF TypeOK
<1>3. st \in [JobId -> Live \cup Terminal \cup {"absent"}]
  BY DEF Purged, TypeOK
<1>4. \A j \in JobId : jobDoc[j] = d => st[j] = jobStatus[j]
  BY <1>1 DEF Purged
<1>5. \A j \in JobId : jobDoc'[j] = d <=> jobDoc[j] = d
  <2>1. \A j \in JobId : j = nextJob => jobDoc[j] # d
    BY QueueAssumption DEF TableInv, JobId
  <2>. QED
    BY <1>1, <2>1 DEF Enqueue, TypeOK
<1>6. \A j \in JobId : jobDoc[j] = d => jobStatus'[j] = jobStatus[j]
  <2>1. \A j \in JobId : j = nextJob => jobDoc[j] # d
    BY QueueAssumption DEF TableInv, JobId
  <2>. QED
    BY <1>3, <1>4, <2>1 DEF Enqueue, TypeOK
<1>7. \A v \in Worker : WorksOn(v, d)' <=> WorksOn(v, d)
  <2>1. \A v \in Worker : pc[v] \in Holding => held[v] \in JobId
    BY DEF TableInv
  <2>. QED
    BY <1>5, <2>1 DEF WorksOn, runVars
<1>. QED
  BY <1>2, <1>5, <1>6, <1>7, SettledKept DEF Settled, runVars

\* A runner at work unsettles no document.
LEMMA SpentWork ==
    ASSUME TypeOK, TypeOK', TableInv, LeaseInv, QueueInv, SpentInv, OneAtATime,
           NEW w \in Worker, Work(w), NEW d \in Doc, Settled(d)
    PROVE  Settled(d)'
<1>. DEFINE j == held[w]
<1>1. /\ pc[w] \in Holding
      /\ UNCHANGED jobDoc
      /\ \A v \in Worker : v # w => pc'[v] = pc[v] /\ held'[v] = held[v]
      /\ pc'[w] \in Holding => held'[w] = held[w]
  BY DEF Work, BeginIngest, Embed, FinishIngest, IngestError, Complete, Purge, Fail,
         Release, LetGo, jobVars, Holding, InTry, TypeOK
<1>2. /\ j \in JobId /\ jobDoc[j] \in Doc
      /\ ~Row(j) => docStatus[jobDoc[j]] = "deleted"
      /\ \A i \in JobId : i # j /\ jobDoc[i] = jobDoc[j] => ~Row(i)
  <2>1. \A i \in JobId : i # j /\ jobDoc[i] = jobDoc[j] => ~Row(i)
    BY <1>1, InHand
  <2>. QED
    BY <1>1, <2>1, InHand
<1>3. CASE d # jobDoc[j]
  <2>1. docStatus'[d] = docStatus[d]
    BY <1>3 DEF Work, BeginIngest, Embed, FinishIngest, IngestError, Complete, Purge, Fail,
                Release, docVars, TypeOK
  <2>2. \A i \in JobId : jobDoc[i] = d => jobStatus'[i] = jobStatus[i]
    BY <1>2, <1>3 DEF Work, BeginIngest, Embed, FinishIngest, IngestError, Complete, Purge,
                      Purged, Fail, Release, jobVars, TypeOK
  <2>3. \A v \in Worker : WorksOn(v, d) \/ WorksOn(v, d)' => v # w
    BY <1>1, <1>3 DEF WorksOn
  <2>4. \A v \in Worker : WorksOn(v, d)' <=> WorksOn(v, d)
    BY <1>1, <2>3 DEF WorksOn
  <2>. QED
    BY <1>1, <2>1, <2>2, <2>3, <2>4, SettledKept DEF Settled
<1>4. CASE d = jobDoc[j]
  <2>1. \/ pc[w] \in {"embedded", "ingested", "completed"}
        \/ pc[w] = "failing" /\ ~Row(j)
    BY <1>1, <1>4 DEF Settled, WorksOn
  <2>2. FinishIngest(w) \/ Complete(w) \/ Purge(w) \/ Fail(w)
    BY <2>1 DEF Work, BeginIngest, Embed, IngestError, Release
  <2>3. \A v \in Worker : WorksOn(v, d)' => v = w
    BY <1>1, <1>4 DEF WorksOn, SpentInv
  <2>4. \A i \in JobId : jobDoc[i] = d /\ i # j => ~Row(i)'
    BY <1>2, <1>4, <2>2 DEF FinishIngest, Complete, Purge, Purged, Fail, jobVars, Row, TypeOK
  <2>5. WorkInv(w)
    BY DEF QueueInv
  <2>6. CASE FinishIngest(w)
    <3>1. /\ UNCHANGED jobStatus /\ pc[w] = "embedded"
          /\ \/ Exists(d) /\ docStatus'[d] = "ready" /\ pc'[w] = "ingested"
             \/ ~Exists(d) /\ UNCHANGED docStatus /\ pc'[w] = "failing"
      BY <1>4, <2>6 DEF FinishIngest, jobVars, TypeOK
    <3>2. Exists(d) <=> Row(j)
      BY <1>2, <1>4 DEF TableInv, Exists
    <3>3. Row(j) => jobStatus[j] = "running"
      BY <1>1, <2>5, <3>1 DEF WorkInv, Row
    <3>4. pc'[w] \in Holding /\ held'[w] = j
      BY <1>1, <3>1 DEF Holding, InTry
    <3>5. \A i \in JobId : i = j => Held(i)'
      BY <3>4 DEF Held
    <3>6. docStatus'[d] \notin {"unborn", "failed"}
      BY <3>1 DEF Settled
    <3>7. \A v \in Worker : WorksOn(v, d)' =>
              pc'[v] = "ingested" \/ (pc'[v] = "failing" /\ ~Row(held[v])')
      BY <2>3, <3>1, <3>2, <3>4 DEF Row
    <3>8. \A i \in JobId : jobDoc[i] = d /\ Row(i)' => jobStatus'[i] = "running" /\ Held(i)'
      BY <2>4, <3>1, <3>3, <3>5 DEF Row
    <3>. QED
      BY <1>1, <3>6, <3>7, <3>8 DEF Settled, RowsOf
  <2>7. CASE Complete(w)
    <3>1. /\ UNCHANGED docStatus /\ pc'[w] = "completed"
          /\ Row(j) => jobStatus'[j] = "done"
          /\ ~Row(j) => UNCHANGED jobStatus
      BY <1>2, <2>7 DEF Complete, docVars, TypeOK
    <3>2. \A i \in JobId : jobDoc[i] = d /\ Row(i)' => jobStatus'[i] = "done"
      BY <2>4, <3>1 DEF Row
    <3>. QED
      BY <1>1, <2>3, <3>1, <3>2 DEF Settled, RowsOf
  <2>8. CASE Purge(w)
    <3>1. /\ UNCHANGED docStatus /\ pc'[w] = "idle" /\ pc[w] = "completed"
          /\ jobStatus' = Purged(d)
      BY <1>4, <2>8 DEF Purge, LetGo, docVars, TypeOK
    <3>2. jobStatus'[j] = "absent"
      BY <1>1, <1>2, <1>4, <2>5, <3>1 DEF WorkInv, Purged, Terminal
    <3>3. \A i \in JobId : jobDoc[i] = d => ~Row(i)'
      BY <2>4, <3>2 DEF Row
    <3>4. \A v \in Worker : ~WorksOn(v, d)'
      BY <2>3, <3>1 DEF WorksOn, Holding, InTry
    <3>. QED
      BY <1>1, <3>1, <3>3, <3>4 DEF Settled, RowsOf
  <2>9. CASE Fail(w)
    <3>1. ~Row(j)
      BY <2>1, <2>9 DEF Fail
    <3>2. UNCHANGED <<docStatus, jobStatus>> /\ pc'[w] = "idle"
      BY <2>9, <3>1 DEF Fail, LetGo, TypeOK
    <3>3. \A i \in JobId : jobDoc[i] = d => ~Row(i)'
      BY <2>4, <3>1, <3>2 DEF Row
    <3>4. \A v \in Worker : ~WorksOn(v, d)'
      BY <2>3, <3>2 DEF WorksOn, Holding, InTry
    <3>. QED
      BY <1>1, <3>2, <3>3, <3>4 DEF Settled, RowsOf
  <2>. QED
    BY <2>2, <2>6, <2>7, <2>8, <2>9
<1>. QED
  BY <1>3, <1>4

\* A document that is settled stays so, but for a fault.
LEMMA SettledStays ==
    ASSUME TypeOK, TypeOK', TableInv, LeaseInv, QueueInv, SpentInv, OneAtATime, [Next]_vars,
           NEW d \in Doc, Settled(d)
    PROVE  Settled(d)' \/ faults' = faults + 1
<1>1. ASSUME NEW e \in Doc, Upload(e) PROVE Settled(d)'
  BY <1>1, SpentEnqueue DEF Upload
<1>2. ASSUME NEW r \in Requester, RetryCommit(r) PROVE Settled(d)'
  <2>1. retrying[r] \in Doc /\ docStatus[retrying[r]] = "failed"
    BY <1>2 DEF TypeOK, RetryCommit, QueueInv
  <2>. QED
    BY <1>2, <2>1, SpentEnqueue DEF RetryCommit
<1>3. ASSUME NEW e \in Doc, Delete(e) PROVE Settled(d)'
  <2>1. /\ UNCHANGED <<jobDoc, pc, held>>
        /\ docStatus'[d] \in {docStatus[d], "deleted"}
        /\ \A j \in JobId : Row(j)' => jobStatus'[j] = jobStatus[j]
    BY <1>3 DEF Delete, runVars, TypeOK, Row
  <2>. QED
    BY <2>1, SettledKept DEF WorksOn, Settled
<1>4. ASSUME NEW r \in Requester, RetryLost(r) \/ \E e \in Doc : RetryRead(r, e)
      PROVE  Settled(d)'
  BY <1>4, SettledKept DEF RetryLost, RetryRead, docVars, jobVars, runVars, WorksOn, Settled
<1>5. ASSUME NEW w \in Worker, Start(w) PROVE Settled(d)' \/ faults' = faults + 1
  <2>1. CASE Fault
    BY <2>1 DEF Fault
  <2>2. CASE ~Fault
    <3>1. /\ UNCHANGED <<jobDoc, held>>
          /\ docStatus'[d] \in {docStatus[d], "pending"}
          /\ \A j \in JobId : ~(jobStatus[j] = "running" /\ lease[j] = "lapsed")
                => jobStatus'[j] = jobStatus[j]
          /\ \A v \in Worker : \/ pc'[v] = pc[v]
                               \/ pc[v] \notin Holding /\ pc'[v] \notin Holding
      BY <1>5, <2>2 DEF Start, TypeOK, Holding, InTry
    <3>2. \A j \in JobId : jobDoc[j] = d => ~(jobStatus[j] = "running" /\ lease[j] = "lapsed")
      BY DEF Settled, RowsOf, Row, Held, LeaseInv, OneAtATime
    <3>3. \A j \in JobId : jobDoc[j] = d => jobStatus'[j] = jobStatus[j]
      BY <3>1, <3>2
    <3>. QED
      BY <3>1, <3>3, SettledKept DEF WorksOn, Settled
  <2>. QED
    BY <2>1, <2>2
<1>6. ASSUME NEW w \in Worker, Claim(w) PROVE Settled(d)'
  <2>1. PICK j \in JobId : /\ Claimable(j)
                           /\ jobStatus' = [jobStatus EXCEPT ![j] = "running"]
                           /\ held' = [held EXCEPT ![w] = j]
    BY <1>6 DEF Claim
  <2>2. /\ UNCHANGED <<docStatus, jobDoc>>
        /\ \A v \in Worker : v # w => pc'[v] = pc[v] /\ held'[v] = held[v]
        /\ pc[w] = "idle" /\ held'[w] = j
        /\ \A i \in JobId : i # j => jobStatus'[i] = jobStatus[i]
    BY <1>6, <2>1 DEF Claim, docVars, TypeOK
  <2>3. jobDoc[j] # d
    BY <2>1 DEF Claimable, Settled, RowsOf, Row, Held, LeaseInv, OneAtATime
  <2>4. ~WorksOn(w, d) /\ ~WorksOn(w, d)'
    BY <2>2, <2>3 DEF WorksOn, Holding, InTry
  <2>. QED
    BY <2>2, <2>3, <2>4, SettledKept DEF WorksOn, Settled
<1>7. ASSUME NEW w \in Worker, Work(w) PROVE Settled(d)'
  BY <1>7, SpentWork
<1>8. ASSUME NEW w \in Worker, Disrupt(w) PROVE faults' = faults + 1
  BY <1>8 DEF Disrupt, EmbedError, CleanupError, Abandon, Shutdown, Crash, HeartbeatDies, Fault
<1>9. ASSUME NEW w \in Worker, Heartbeat(w) PROVE Settled(d)'
  BY <1>9, SettledKept DEF Heartbeat, docVars, runVars, WorksOn, Settled
<1>10. ASSUME NEW j \in JobId, Lapse(j) PROVE Settled(d)'
  BY <1>10, SettledKept DEF Lapse, docVars, runVars, WorksOn, Settled
<1>11. CASE UNCHANGED vars
  BY <1>11, SettledKept DEF vars, docVars, jobVars, runVars, WorksOn, Settled
<1>. QED
  BY <1>1, <1>2, <1>3, <1>4, <1>5, <1>6, <1>7, <1>8, <1>9, <1>10, <1>11 DEF Next, Request

\* A text is paid for only while it is not settled, and settled by that, or in vain on
\* account of a fault.
LEMMA SpentNext ==
    ASSUME TypeOK, TypeOK', TableInv, LeaseInv, QueueInv, SpentInv, [Next]_vars
    PROVE  SpentInv'
<1>. SUFFICES ASSUME OneAtATime PROVE SpentInv'
  BY DEF SpentInv, OneAtATime
<1>1. \A v, w \in Worker, d \in Doc : WorksOn(v, d)' /\ WorksOn(w, d)' => v = w
  BY OneWorkerPerDocument
<1>2. faults \in Nat /\ faults' \in Nat /\ faults' >= faults
  <2>1. faults \in Nat /\ faults' \in Nat
    BY QueueAssumption DEF TypeOK
  <2>2. faults' = faults \/ faults' = faults + 1
    BY DEF Next, Request, Upload, Delete, RetryRead, RetryCommit, RetryLost, Start, Claim,
           Work, BeginIngest, Embed, FinishIngest, IngestError, Complete, Purge, Fail,
           Release, Heartbeat, Disrupt, EmbedError, CleanupError, Abandon, Shutdown, Crash,
           HeartbeatDies, Lapse, Fault, vars
  <2>. QED
    BY <2>1, <2>2
<1>3. ASSUME NEW d \in Doc, embedded'[d] = embedded[d]
      PROVE  embedded'[d] <= faults' + IF Settled(d)' THEN 1 ELSE 0
  <2>1. embedded[d] \in Nat /\ embedded[d] <= faults + IF Settled(d) THEN 1 ELSE 0
    BY DEF SpentInv, TypeOK
  <2>2. CASE Settled(d)'
    <3>1. embedded[d] <= faults + 1
      BY <1>2, <2>1
    <3>. QED
      BY <1>2, <1>3, <2>1, <2>2, <3>1
  <2>3. CASE ~Settled(d)' /\ Settled(d)
    <3>1. faults' = faults + 1
      BY <2>3, SettledStays
    <3>. QED
      BY <1>2, <1>3, <2>1, <2>3, <3>1
  <2>4. CASE ~Settled(d)' /\ ~Settled(d)
    BY <1>2, <1>3, <2>1, <2>4
  <2>. QED
    BY <2>2, <2>3, <2>4
<1>4. ASSUME NEW w \in Worker, NEW d \in Doc, pc[w] = "ingesting", d = jobDoc[held[w]],
             embedded' = [embedded EXCEPT ![d] = @ + 1],
             Settled(d)' \/ faults' = faults + 1
      PROVE  SpentInv'
  <2>1. ~Settled(d)
    BY <1>4 DEF Settled, WorksOn, Holding, InTry
  <2>2. embedded[d] \in Nat /\ embedded[d] <= faults
    BY <1>2, <2>1 DEF SpentInv, TypeOK
  <2>3. embedded'[d] = embedded[d] + 1 /\ \A e \in Doc : e # d => embedded'[e] = embedded[e]
    BY <1>4 DEF TypeOK
  <2>4. embedded'[d] <= faults' + IF Settled(d)' THEN 1 ELSE 0
    BY <1>2, <1>4, <2>2, <2>3
  <2>. QED
    BY <1>1, <1>3, <2>3, <2>4 DEF SpentInv
<1>5. ASSUME NEW w \in Worker, Embed(w) PROVE SpentInv'
  <2>. DEFINE d == jobDoc[held[w]]
  <2>1. /\ pc[w] = "ingesting" /\ pc'[w] = "embedded"
        /\ UNCHANGED <<docStatus, jobDoc, jobStatus, held>>
        /\ \A v \in Worker : v # w => pc'[v] = pc[v]
        /\ embedded' = [embedded EXCEPT ![d] = @ + 1]
    BY <1>5 DEF Embed, jobVars, TypeOK
  <2>2. pc[w] \in Holding /\ pc'[w] \in Holding
    BY <2>1 DEF Holding, InTry
  <2>3. /\ held[w] \in JobId /\ d \in Doc
        /\ docStatus[d] \notin {"unborn", "failed"}
        /\ \A i \in JobId : jobDoc[i] = d /\ Row(i) => i = held[w]
    <3>1. held[w] \in JobId /\ d \in Doc
      BY <2>2, InHand
    <3>2. CASE Row(held[w])
      BY <2>2, <3>1, <3>2, InHand DEF Exists
    <3>3. CASE ~Row(held[w])
      BY <2>2, <3>1, <3>3, InHand
    <3>. QED
      BY <3>1, <3>2, <3>3
  <2>4. jobStatus[held[w]] \in {"absent", "running"}
    BY <2>1, <2>2 DEF QueueInv, WorkInv
  <2>5. Settled(d)'
    <3>1. \A v \in Worker : WorksOn(v, d)' => v = w
      BY <1>1, <2>1, <2>2, <2>3 DEF WorksOn
    <3>2. \A i \in JobId : i = held[w] => Held(i)'
      BY <2>1, <2>2 DEF Held
    <3>3. \A i \in JobId : jobDoc[i] = d /\ Row(i) => jobStatus[i] = "running" /\ Held(i)'
      BY <2>3, <2>4, <3>2 DEF Row
    <3>. QED
      BY <2>1, <2>3, <3>1, <3>3 DEF Settled, RowsOf, Row
  <2>. QED
    BY <1>4, <2>1, <2>3, <2>5
<1>6. ASSUME NEW w \in Worker, EmbedError(w) PROVE SpentInv'
  <2>1. /\ pc[w] = "ingesting" /\ faults' = faults + 1
        /\ embedded' = [embedded EXCEPT ![jobDoc[held[w]]] = @ + 1]
    BY <1>6 DEF EmbedError, Fault
  <2>2. jobDoc[held[w]] \in Doc
    BY <2>1, InHand DEF Holding, InTry
  <2>. QED
    BY <1>4, <2>1, <2>2
<1>7. CASE UNCHANGED embedded
  BY <1>1, <1>3, <1>7 DEF SpentInv
<1>8. \/ UNCHANGED embedded
      \/ \E w \in Worker : Embed(w) \/ EmbedError(w)
  BY DEF Next, Request, Upload, Delete, RetryRead, RetryCommit, RetryLost, Start, Claim,
         Work, BeginIngest, FinishIngest, IngestError, Complete, Purge, Fail, Release,
         Heartbeat, Disrupt, CleanupError, Abandon, Shutdown, Crash, HeartbeatDies, Lapse,
         vars, docVars
<1>. QED
  BY <1>5, <1>6, <1>7, <1>8

\* While heartbeats run and nobody re-uploads a document twice at once, every payment
\* for a text after the first one is accounted for by a fault of its own: failed
\* attempts before the embedding, retries and re-uploads cost nothing.
THEOREM PaidOnce == Spec => [](OneAtATime => PaidAgainForFaultsOnly)
<1>1. Init => SpentInv
  BY DEF Init, SpentInv, WorksOn, Holding, InTry
<1>2. Spec => []SpentInv
  BY <1>1, SpentNext, NextType, TypeCorrect, TablesInOrder, LeaseHeld, QueueHeld, PTL DEF Spec
<1>3. TypeOK /\ SpentInv => (OneAtATime => PaidAgainForFaultsOnly)
  <2>. SUFFICES ASSUME TypeOK, SpentInv, OneAtATime, NEW d \in Doc
                PROVE  embedded[d] <= 1 + faults
    BY DEF PaidAgainForFaultsOnly
  <2>1. embedded[d] \in Nat /\ faults \in Nat
    BY QueueAssumption DEF TypeOK
  <2>2. embedded[d] <= faults + IF Settled(d) THEN 1 ELSE 0
    BY DEF SpentInv
  <2>. QED
    BY <2>1, <2>2
<1>. QED
  BY <1>2, <1>3, TypeCorrect, PTL

-------------------------------------------------------------------------------
(* Attempts: the limit holds but for the attempts that faults took              *)

LEMMA ReleasingFinite ==
    /\ IsFiniteSet(Releasing) /\ Cardinality(Releasing) \in Nat
    /\ IsFiniteSet(Releasing') /\ Cardinality(Releasing') \in Nat
<1>1. Releasing \subseteq Worker /\ Releasing' \subseteq Worker
  BY DEF Releasing
<1>. QED
  BY <1>1, QueueAssumption, FS_Subset, FS_CardinalityType

\* What a step may do to a job without an attempt of its own being lost or won: the
\* released may become fewer by one for the job that gets loose instead.
LEMMA AttemptsKept ==
    ASSUME TypeOK, TypeOK', AttemptsInv,
           faults' >= faults, Releasing' \subseteq Releasing,
           \A j \in JobId :
              /\ \/ attempts'[j] = attempts[j] /\ (Loose(j)' => Loose(j) \/ faults' = faults + 1)
                 \/ attempts'[j] + 1 <= MaxAttempts
                 \/ /\ attempts'[j] = attempts[j] + 1
                    /\ Loose(j) /\ ~Loose(j)'
              /\ jobStatus'[j] = "running" /\ lease'[j] = "lapsed"
                    => \A w \in Worker : ~Beats(w, j)'
    PROVE  AttemptsInv'
<1>. DEFINE R == Cardinality(Releasing)
            S == Cardinality(Releasing')
<1>1. R \in Nat /\ S \in Nat /\ S <= R
  BY ReleasingFinite, FS_Subset
<1>2. faults \in Nat /\ faults' \in Nat /\ MaxAttempts \in Nat
  BY QueueAssumption DEF TypeOK
<1>3. R <= faults
  BY DEF AttemptsInv
<1>4. ASSUME NEW j \in JobId
      PROVE  attempts'[j] + S + (IF Loose(j)' THEN 1 ELSE 0) <= MaxAttempts + faults'
  <2>1. attempts[j] \in Nat /\ attempts'[j] \in Nat
    BY DEF TypeOK
  <2>2. attempts[j] + R + (IF Loose(j) THEN 1 ELSE 0) <= MaxAttempts + faults
    BY DEF AttemptsInv
  <2>. HIDE DEF R, S
  <2>3. CASE attempts'[j] = attempts[j] /\ (Loose(j)' => Loose(j))
    BY <1>1, <1>2, <2>1, <2>2, <2>3
  <2>4. CASE attempts'[j] = attempts[j] /\ faults' = faults + 1
    BY <1>1, <1>2, <2>1, <2>2, <2>4
  <2>5. CASE attempts'[j] + 1 <= MaxAttempts
    BY <1>1, <1>2, <1>3, <2>1, <2>5
  <2>6. CASE attempts'[j] = attempts[j] + 1 /\ Loose(j) /\ ~Loose(j)'
    BY <1>1, <1>2, <2>1, <2>2, <2>6
  <2>. QED
    BY <2>3, <2>4, <2>5, <2>6
<1>. QED
  BY <1>1, <1>2, <1>3, <1>4 DEF AttemptsInv

\* A new job has all its attempts before it, the others are touched by no enqueue.
LEMMA AttemptsEnqueue ==
    ASSUME TypeOK, TypeOK', AttemptsInv, NEW d \in Doc,
           NEW st, st = jobStatus \/ st = Purged(d),
           Enqueue(d, st), UNCHANGED <<runVars, faults>>
    PROVE  AttemptsInv'
<1>1. st \in [JobId -> Live \cup Terminal \cup {"absent"}]
  BY DEF Purged, TypeOK
<1>2. \A j \in JobId : st[j] \in {jobStatus[j], "absent"}
  BY DEF Purged
<1>3. ASSUME NEW j \in JobId
      PROVE  \/ /\ attempts'[j] = attempts[j]
                /\ jobStatus'[j] \in {jobStatus[j], "absent"}
                /\ lease'[j] = lease[j]
             \/ attempts'[j] = 0 /\ jobStatus'[j] = "pending"
  BY <1>1, <1>2 DEF Enqueue, TypeOK
<1>4. UNCHANGED Releasing /\ \A w \in Worker, j \in JobId : Beats(w, j)' <=> Beats(w, j)
  BY DEF Releasing, Beats, runVars
<1>5. \A j \in JobId : attempts'[j] = attempts[j] /\ jobStatus'[j] \in {jobStatus[j], "absent"}
                            => (Loose(j)' => Loose(j))
  BY <1>4 DEF Loose, runVars
<1>6. 0 + 1 <= MaxAttempts /\ faults' >= faults
  BY QueueAssumption DEF TypeOK
<1>. QED
  BY <1>3, <1>4, <1>5, <1>6, AttemptsKept DEF AttemptsInv

\* A runner that gets on with its job, or is interrupted, and does not touch the table.
LEMMA AttemptsRunner ==
    ASSUME TypeOK, TypeOK', AttemptsInv, NEW w \in Worker, pc[w] \in Holding,
           UNCHANGED jobVars,
           \A v \in Worker : v # w => /\ pc'[v] = pc[v]
                                     /\ held'[v] = held[v]
                                     /\ beating'[v] = beating[v],
           \A j \in JobId : Beats(w, j)' => Beats(w, j),
           pc'[w] # "releasing" \/ pc[w] = "releasing",
           \/ faults' = faults + 1
           \/ /\ faults' = faults
              /\ \A j \in JobId : Beats(w, j) => Beats(w, j)'
              /\ pc'[w] # "completed"
    PROVE  AttemptsInv'
<1>1. Releasing' \subseteq Releasing
  BY DEF Releasing
<1>2. faults' >= faults
  BY QueueAssumption DEF TypeOK
<1>3. \A v \in Worker, j \in JobId : Beats(v, j)' => Beats(v, j)
  BY DEF Beats
<1>4. ASSUME NEW j \in JobId, Loose(j)', faults' # faults + 1 PROVE Loose(j)
  <2>1. \A v \in Worker : Beats(v, j) => Beats(v, j)' /\ (v # w => pc'[v] = pc[v])
    BY <1>4 DEF Beats
  <2>. QED
    BY <1>4, <2>1 DEF Loose, jobVars
<1>. QED
  BY <1>1, <1>2, <1>3, <1>4, AttemptsKept DEF AttemptsInv, jobVars

LEMMA AttemptsWork ==
    ASSUME TypeOK, TypeOK', TableInv, AttemptsInv, NEW w \in Worker, Work(w)
    PROVE  AttemptsInv'
<1>. DEFINE j == held[w]
<1>1. /\ pc[w] \in Holding
      /\ UNCHANGED <<attempts, faults>>
      /\ \A v \in Worker : v # w => /\ pc'[v] = pc[v]
                                   /\ held'[v] = held[v]
                                   /\ beating'[v] = beating[v]
  BY DEF Work, BeginIngest, Embed, FinishIngest, IngestError, Complete, Purge, Fail,
         Release, LetGo, jobVars, Holding, InTry, TypeOK
<1>2. j \in JobId
  BY <1>1 DEF TableInv
<1>3. faults' >= faults
  BY <1>1, QueueAssumption DEF TypeOK
<1>4. \A v \in Worker, i \in JobId : i # j \/ v # w => (Beats(v, i) <=> Beats(v, i)')
        \/ (v = w /\ ~Beats(v, i))
  BY <1>1 DEF Beats
<1>5. CASE BeginIngest(w) \/ Embed(w) \/ FinishIngest(w) \/ IngestError(w)
  <2>1. /\ UNCHANGED <<jobVars, held, beating>>
        /\ pc'[w] \in {"ingesting", "embedded", "ingested", "failing"}
    BY <1>5 DEF BeginIngest, Embed, FinishIngest, IngestError, TypeOK
  <2>2. \A i \in JobId : Beats(w, i)' <=> Beats(w, i)
    BY <1>1, <2>1 DEF Beats, Holding, InTry
  <2>. QED
    BY <1>1, <2>1, <2>2, AttemptsRunner
<1>6. CASE Complete(w)
  <2>1. /\ UNCHANGED <<held, beating>>
        /\ pc'[w] = "completed" /\ pc[w] = "ingested"
        /\ jobStatus'[j] \in {"done", "absent"}
        /\ \A i \in JobId : i # j => jobStatus'[i] = jobStatus[i] /\ lease'[i] = lease[i]
    BY <1>2, <1>6 DEF Complete, Row, TypeOK
  <2>2. \A v \in Worker, i \in JobId : Beats(v, i)' <=> Beats(v, i)
    BY <1>1, <2>1 DEF Beats, Holding, InTry
  <2>3. Releasing' \subseteq Releasing
    BY <1>1, <2>1 DEF Releasing
  <2>4. ASSUME NEW i \in JobId, Loose(i)' PROVE Loose(i)
    <3>1. i # j
      BY <2>1, <2>4 DEF Loose
    <3>2. \A v \in Worker : Beats(v, i) => v # w
      BY <3>1 DEF Beats
    <3>. QED
      BY <1>1, <2>1, <2>2, <2>4, <3>1, <3>2 DEF Loose
  <2>. QED
    BY <1>1, <1>3, <2>1, <2>2, <2>3, <2>4, AttemptsKept DEF AttemptsInv
<1>7. CASE Purge(w) \/ Fail(w)
  <2>1. /\ pc'[w] = "idle"
        /\ \A i \in JobId : i # j => /\ jobStatus'[i] \in {jobStatus[i], "absent"}
                                   /\ lease'[i] = lease[i]
    BY <1>7 DEF Purge, Purged, Fail, LetGo, TypeOK
  <2>2. \A i \in JobId : ~Beats(w, i)'
    BY <2>1 DEF Beats, Holding, InTry
  <2>3. \A v \in Worker, i \in JobId : v # w => (Beats(v, i)' <=> Beats(v, i))
    BY <1>1 DEF Beats
  <2>4. Releasing' \subseteq Releasing
    BY <1>1, <2>1 DEF Releasing
  <2>5. ASSUME NEW i \in JobId, i # j, Loose(i)' PROVE Loose(i)
    <3>1. \A v \in Worker : Beats(v, i) => v # w
      BY <2>5 DEF Beats
    <3>. QED
      BY <1>1, <2>1, <2>3, <2>5, <3>1 DEF Loose
  <2>6. CASE Purge(w)
    <3>1. pc[w] = "completed" /\ jobStatus'[j] \in {jobStatus[j], "absent"} /\ UNCHANGED lease
      BY <1>2, <2>6 DEF Purge, Purged
    <3>2. ASSUME NEW i \in JobId, i = j, Loose(i)' PROVE Loose(i)
      BY <1>1, <2>3, <3>1, <3>2 DEF Loose
    <3>3. \A i \in JobId : Loose(i)' => Loose(i)
      BY <2>5, <3>2
    <3>. QED
      BY <1>1, <1>3, <2>1, <2>2, <2>3, <2>4, <3>1, <3>3, AttemptsKept DEF AttemptsInv
  <2>7. CASE Fail(w)
    <3>1. \/ jobStatus'[j] \in {"failed", "absent"}
          \/ jobStatus'[j] = "pending" /\ ~(attempts[j] >= MaxAttempts)
      BY <1>2, <2>7 DEF Fail, Row, TypeOK
    <3>2. \/ \A i \in JobId : i = j => ~Loose(i)'
          \/ attempts'[j] + 1 <= MaxAttempts
      <4>1. attempts[j] \in Nat /\ MaxAttempts \in Nat
        BY <1>2, QueueAssumption DEF TypeOK
      <4>2. ~(attempts[j] >= MaxAttempts) => attempts'[j] + 1 <= MaxAttempts
        BY <1>1, <4>1
      <4>. QED
        BY <3>1, <4>2 DEF Loose
    <3>3. jobStatus'[j] # "running"
      BY <3>1
    <3>. QED
      BY <1>1, <1>3, <2>1, <2>2, <2>3, <2>4, <2>5, <3>2, <3>3, AttemptsKept DEF AttemptsInv
  <2>. QED
    BY <1>7, <2>6, <2>7
<1>8. CASE Release(w)
  <2>1. /\ pc[w] = "releasing" /\ pc'[w] = "down"
        /\ jobStatus'[j] \in {"pending", "absent"}
        /\ \A i \in JobId : i # j => jobStatus'[i] = jobStatus[i] /\ lease'[i] = lease[i]
    BY <1>2, <1>8 DEF Release, LetGo, Row, TypeOK
  <2>2. Releasing' = Releasing \ {w} /\ w \in Releasing
    BY <1>1, <2>1 DEF Releasing
  <2>3. Cardinality(Releasing') = Cardinality(Releasing) - 1
    BY <2>2, ReleasingFinite, FS_RemoveElement
  <2>4. \A v \in Worker, i \in JobId : Beats(v, i)' => Beats(v, i)
    BY <1>1, <2>1 DEF Beats, Holding, InTry
  <2>5. ASSUME NEW i \in JobId
        PROVE  attempts'[i] + Cardinality(Releasing') + (IF Loose(i)' THEN 1 ELSE 0)
                  <= MaxAttempts + faults'
    <3>1. attempts[i] + Cardinality(Releasing) + (IF Loose(i) THEN 1 ELSE 0)
            <= MaxAttempts + faults
      BY DEF AttemptsInv
    <3>2. attempts[i] \in Nat /\ Cardinality(Releasing) \in Nat /\ MaxAttempts + faults \in Nat
      BY ReleasingFinite, QueueAssumption DEF TypeOK
    <3>. QED
      BY <1>1, <2>3, <3>1, <3>2
  <2>6. ASSUME NEW i \in JobId, jobStatus'[i] = "running", lease'[i] = "lapsed"
        PROVE  \A v \in Worker : ~Beats(v, i)'
    <3>1. i # j
      BY <2>1, <2>6
    <3>. QED
      BY <2>1, <2>4, <2>6, <3>1 DEF AttemptsInv
  <2>7. Cardinality(Releasing') <= faults'
    BY <1>1, <2>3, ReleasingFinite, QueueAssumption DEF AttemptsInv, TypeOK
  <2>. QED
    BY <2>5, <2>6, <2>7 DEF AttemptsInv
<1>. QED
  BY <1>5, <1>6, <1>7, <1>8 DEF Work

LEMMA AttemptsDisrupt ==
    ASSUME TypeOK, TypeOK', AttemptsInv, NEW w \in Worker, Disrupt(w)
    PROVE  AttemptsInv'
<1>1. /\ faults' = faults + 1
      /\ UNCHANGED jobVars
      /\ \A v \in Worker : v # w => /\ pc'[v] = pc[v]
                                   /\ held'[v] = held[v]
                                   /\ beating'[v] = beating[v]
  BY DEF Disrupt, EmbedError, CleanupError, Abandon, Shutdown, Crash, HeartbeatDies,
         Fault, LetGo, TypeOK
<1>2. CASE Shutdown(w)
  <2>1. /\ UNCHANGED <<held, beating>>
        /\ pc[w] \in InTry /\ pc'[w] = "releasing"
    BY <1>2 DEF Shutdown, TypeOK
  <2>2. Releasing' = Releasing \cup {w} /\ w \notin Releasing
    BY <1>1, <2>1 DEF Releasing, InTry
  <2>3. Cardinality(Releasing') = Cardinality(Releasing) + 1
    BY <2>2, ReleasingFinite, FS_AddElement
  <2>4. \A v \in Worker, i \in JobId : Beats(v, i)' <=> Beats(v, i)
    BY <1>1, <2>1 DEF Beats, Holding
  <2>5. \A i \in JobId : Loose(i)' => Loose(i)
    BY <1>1, <2>1, <2>4 DEF Loose, jobVars
  <2>6. ASSUME NEW i \in JobId
        PROVE  attempts'[i] + Cardinality(Releasing') + (IF Loose(i)' THEN 1 ELSE 0)
                  <= MaxAttempts + faults'
    <3>1. attempts[i] + Cardinality(Releasing) + (IF Loose(i) THEN 1 ELSE 0)
            <= MaxAttempts + faults
      BY DEF AttemptsInv
    <3>2. attempts[i] \in Nat /\ Cardinality(Releasing) \in Nat
          /\ MaxAttempts \in Nat /\ faults \in Nat /\ attempts'[i] = attempts[i]
      BY <1>1, ReleasingFinite, QueueAssumption DEF TypeOK, jobVars
    <3>. QED
      BY <1>1, <2>3, <2>5, <3>1, <3>2
  <2>7. Cardinality(Releasing') <= faults'
    BY <1>1, <2>3, ReleasingFinite, QueueAssumption DEF AttemptsInv, TypeOK
  <2>. QED
    BY <1>1, <2>4, <2>6, <2>7 DEF AttemptsInv, jobVars
<1>3. CASE ~Shutdown(w)
  <2>1. /\ pc'[w] # "releasing" \/ pc[w] = "releasing"
        /\ \A j \in JobId : Beats(w, j)' => Beats(w, j)
    BY <1>3 DEF Disrupt, EmbedError, CleanupError, Abandon, Crash, HeartbeatDies, LetGo,
                TypeOK, Beats, Holding, InTry
  <2>2. Releasing' \subseteq Releasing
    BY <1>1, <2>1 DEF Releasing
  <2>3. \A v \in Worker, j \in JobId : Beats(v, j)' => Beats(v, j)
    BY <1>1, <2>1 DEF Beats
  <2>4. faults' >= faults
    BY <1>1, QueueAssumption DEF TypeOK
  <2>. QED
    BY <1>1, <2>2, <2>3, <2>4, AttemptsKept DEF AttemptsInv, jobVars
<1>. QED
  BY <1>2, <1>3

\* Every step charges the attempt it may cost to the limit or to a fault.
LEMMA AttemptsNext ==
    ASSUME TypeOK, TypeOK', TableInv, AttemptsInv, [Next]_vars
    PROVE  AttemptsInv'
<1>1. ASSUME NEW d \in Doc, Upload(d) PROVE AttemptsInv'
  BY <1>1, AttemptsEnqueue DEF Upload
<1>2. ASSUME NEW r \in Requester, RetryCommit(r) PROVE AttemptsInv'
  <2>1. retrying[r] \in Doc
    BY <1>2 DEF TypeOK, RetryCommit
  <2>. QED
    BY <1>2, <2>1, AttemptsEnqueue DEF RetryCommit
<1>3. ASSUME UNCHANGED <<attempts, runVars, faults>>,
             \A j \in JobId : /\ jobStatus'[j] \in {jobStatus[j], "absent"}
                              /\ \/ lease'[j] \in {lease[j], "live"}
                                 \/ \A w \in Worker : ~Beats(w, j)
      PROVE  AttemptsInv'
  <2>1. UNCHANGED Releasing /\ \A w \in Worker, j \in JobId : Beats(w, j)' <=> Beats(w, j)
    BY <1>3 DEF Releasing, Beats, runVars
  <2>2. \A j \in JobId : Loose(j)' => Loose(j)
    BY <1>3, <2>1 DEF Loose, runVars
  <2>3. faults' >= faults
    BY <1>3, QueueAssumption DEF TypeOK
  <2>. QED
    BY <1>3, <2>1, <2>2, <2>3, AttemptsKept DEF AttemptsInv
<1>4. ASSUME NEW d \in Doc, Delete(d) PROVE AttemptsInv'
  BY <1>3, <1>4 DEF Delete
<1>5. ASSUME NEW r \in Requester, RetryLost(r) \/ \E d \in Doc : RetryRead(r, d)
      PROVE  AttemptsInv'
  BY <1>3, <1>5 DEF RetryLost, RetryRead, jobVars
<1>6. ASSUME NEW w \in Worker, Start(w) PROVE AttemptsInv'
  <2>1. /\ UNCHANGED <<attempts, held, beating>>
        /\ \A v \in Worker : \/ pc'[v] = pc[v]
                             \/ pc[v] = "down" /\ pc'[v] = "idle"
        /\ \A j \in JobId : \/ jobStatus'[j] = jobStatus[j] /\ lease'[j] = lease[j]
                            \/ /\ jobStatus[j] = "running" /\ lease[j] = "lapsed"
                               /\ jobStatus'[j] = "pending" /\ lease'[j] = "none"
        /\ faults' = faults \/ faults' = faults + 1
    BY <1>6 DEF Start, Fault, TypeOK
  <2>2. /\ Releasing' \subseteq Releasing
        /\ \A v \in Worker, j \in JobId : Beats(v, j)' <=> Beats(v, j)
    BY <2>1 DEF Releasing, Beats, Holding, InTry
  <2>3. ASSUME NEW j \in JobId, Loose(j)' PROVE Loose(j)
    <3>1. CASE jobStatus'[j] = jobStatus[j]
      BY <2>1, <2>2, <2>3, <3>1 DEF Loose
    <3>2. CASE jobStatus[j] = "running" /\ lease[j] = "lapsed"
      BY <3>2 DEF Loose, AttemptsInv
    <3>. QED
      BY <2>1, <3>1, <3>2
  <2>4. faults' >= faults
    BY <2>1, QueueAssumption DEF TypeOK
  <2>. QED
    BY <2>1, <2>2, <2>3, <2>4, AttemptsKept DEF AttemptsInv
<1>7. ASSUME NEW w \in Worker, Claim(w) PROVE AttemptsInv'
  <2>1. PICK j \in JobId : /\ Claimable(j)
                           /\ jobStatus' = [jobStatus EXCEPT ![j] = "running"]
                           /\ lease' = [lease EXCEPT ![j] = "live"]
                           /\ attempts' = [attempts EXCEPT ![j] = @ + 1]
                           /\ held' = [held EXCEPT ![w] = j]
    BY <1>7 DEF Claim
  <2>2. /\ pc[w] = "idle" /\ pc'[w] = "claimed" /\ held'[w] = j /\ beating'[w]
        /\ \A v \in Worker : v # w => /\ pc'[v] = pc[v]
                                     /\ held'[v] = held[v]
                                     /\ beating'[v] = beating[v]
        /\ jobStatus'[j] = "running" /\ lease'[j] = "live" /\ attempts'[j] = attempts[j] + 1
        /\ \A i \in JobId : i # j => /\ jobStatus'[i] = jobStatus[i]
                                    /\ lease'[i] = lease[i]
                                    /\ attempts'[i] = attempts[i]
    BY <1>7, <2>1 DEF Claim, TypeOK
  <2>3. Releasing' \subseteq Releasing
    BY <2>2 DEF Releasing
  <2>4. \A v \in Worker, i \in JobId : i # j => (Beats(v, i)' <=> Beats(v, i))
    BY <2>2 DEF Beats, Holding, InTry
  <2>5. Beats(w, j)'
    BY <2>2 DEF Beats, Holding, InTry
  <2>6. Loose(j) /\ ~Loose(j)'
    BY <2>1, <2>2, <2>5 DEF Claimable, AttemptsInv, Loose
  <2>7. ASSUME NEW i \in JobId, i # j, Loose(i)' PROVE Loose(i)
    <3>1. \A v \in Worker : Beats(v, i) => v # w
      BY <2>2 DEF Beats, Holding, InTry
    <3>. QED
      BY <2>2, <2>4, <2>7, <3>1 DEF Loose
  <2>8. faults' >= faults
    BY <1>7, QueueAssumption DEF Claim, TypeOK
  <2>. QED
    BY <2>2, <2>3, <2>4, <2>6, <2>7, <2>8, AttemptsKept DEF AttemptsInv
<1>8. ASSUME NEW w \in Worker, Work(w) PROVE AttemptsInv'
  BY <1>8, AttemptsWork
<1>9. ASSUME NEW w \in Worker, Disrupt(w) PROVE AttemptsInv'
  BY <1>9, AttemptsDisrupt
<1>10. ASSUME NEW w \in Worker, Heartbeat(w) PROVE AttemptsInv'
  BY <1>3, <1>10 DEF Heartbeat, TypeOK
<1>11. ASSUME NEW j \in JobId, Lapse(j) PROVE AttemptsInv'
  <2>1. \A w \in Worker : ~Beats(w, j)
    BY <1>11 DEF Lapse, Beats
  <2>. QED
    BY <1>3, <1>11, <2>1 DEF Lapse, TypeOK
<1>12. CASE UNCHANGED vars
  BY <1>3, <1>12 DEF vars, jobVars, runVars
<1>. QED
  BY <1>1, <1>2, <1>4, <1>5, <1>6, <1>7, <1>8, <1>9, <1>10, <1>11, <1>12 DEF Next, Request

\* No job is tried more often than the limit and the faults account for, for any
\* number of runners, requests and dead heartbeats: no interplay of fail, release and
\* reclaim makes a job go round for ever.
THEOREM AttemptsStayBounded == Spec => []AttemptsBounded
<1>1. Init => AttemptsInv
  <2>. SUFFICES ASSUME Init PROVE AttemptsInv
    OBVIOUS
  <2>1. Releasing = {}
    BY DEF Init, Releasing
  <2>2. Cardinality(Releasing) = 0
    BY <2>1, FS_EmptySet
  <2>3. \A j \in JobId : attempts[j] = 0 /\ ~Loose(j) /\ jobStatus[j] # "running"
    BY DEF Init, Loose
  <2>. QED
    BY <2>2, <2>3, QueueAssumption DEF Init, AttemptsInv
<1>2. Spec => []AttemptsInv
  BY <1>1, AttemptsNext, NextType, TypeCorrect, TablesInOrder, PTL DEF Spec
<1>3. TypeOK /\ AttemptsInv => AttemptsBounded
  <2>. SUFFICES ASSUME TypeOK, AttemptsInv, NEW j \in JobId
                PROVE  attempts[j] <= MaxAttempts + faults
    BY DEF AttemptsBounded
  <2>1. attempts[j] + Cardinality(Releasing) + (IF Loose(j) THEN 1 ELSE 0)
          <= MaxAttempts + faults
    BY DEF AttemptsInv
  <2>2. attempts[j] \in Nat /\ Cardinality(Releasing) \in Nat /\ MaxAttempts + faults \in Nat
    BY ReleasingFinite, QueueAssumption DEF TypeOK
  <2>. QED
    BY <2>1, <2>2
<1>. QED
  BY <1>2, <1>3, TypeCorrect, PTL

-------------------------------------------------------------------------------
(* The queue implements the document lifecycle                                 *)

\* A step of the queue is a move of one document's life, a return to pending
\* of several, or invisible.
LEMMA LifecycleStep ==
    ASSUME TypeOK, TableInv, LeaseInv, QueueInv, OneAtATime, [Next]_vars
    PROVE  [Lifecycle!LifeNext]_(Lifecycle!life)
<1>. USE DEF Lifecycle!LifeNext, Lifecycle!life
<1>0. UNCHANGED chunks => UNCHANGED Searchable
  BY DEF Searchable
<1>1. ASSUME NEW d \in Doc, Upload(d) PROVE Lifecycle!LifeNext
  BY <1>0, <1>1 DEF Upload, Lifecycle!Offer, Lifecycle!Move
<1>2. ASSUME NEW d \in Doc, Delete(d) PROVE Lifecycle!LifeNext
  <2>1. \A e \in Doc : chunks'[e] # {} <=> e # d /\ chunks[e] # {}
    BY <1>2 DEF Delete, TypeOK
  <2>2. Searchable' = [Searchable EXCEPT ![d] = FALSE]
    BY <2>1 DEF Searchable
  <2>. QED
    BY <1>2, <2>2 DEF Delete, Exists, Lifecycle!Remove
<1>3. ASSUME NEW r \in Requester, RetryCommit(r) PROVE Lifecycle!LifeNext
  <2>1. retrying[r] \in Doc /\ docStatus[retrying[r]] = "failed"
    BY <1>3 DEF RetryCommit, TypeOK, QueueInv
  <2>2. Lifecycle!Again(retrying[r])
    BY <1>0, <1>3, <2>1 DEF RetryCommit, Lifecycle!Again, Lifecycle!Move
  <2>. QED
    BY <2>1, <2>2
<1>4. ASSUME NEW w \in Worker, Start(w) PROVE [Lifecycle!LifeNext]_(Lifecycle!life)
  <2>. DEFINE D == {d \in Doc : /\ docStatus[d] = "processing"
                                /\ \E j \in JobId : /\ jobStatus[j] = "running"
                                                    /\ lease[j] = "lapsed"
                                                    /\ jobDoc[j] = d}
  <2>1. CASE docStatus' = [d \in Doc |-> IF d \in D THEN "pending" ELSE docStatus[d]]
    <3>1. Lifecycle!HandBack(D)
      BY <1>0, <1>4, <2>1 DEF Start, Lifecycle!HandBack
    <3>. QED
      BY <3>1
  <2>2. CASE UNCHANGED docStatus
    BY <1>0, <1>4, <2>2 DEF Start
  <2>3. \/ UNCHANGED docStatus
        \/ docStatus' = [d \in Doc |-> IF d \in D THEN "pending" ELSE docStatus[d]]
    BY <1>4 DEF Start
  <2>. QED
    BY <2>1, <2>2, <2>3
<1>5. ASSUME NEW w \in Worker, BeginIngest(w) PROVE [Lifecycle!LifeNext]_(Lifecycle!life)
  <2>. DEFINE d == jobDoc[held[w]]
  <2>1. pc[w] \in Holding
    BY <1>5 DEF BeginIngest, Holding, InTry
  <2>2. d \in Doc /\ (Exists(d) => docStatus[d] \in {"pending", "processing", "ready"})
    BY <2>1, InHand DEF TypeOK, Exists
  <2>3. CASE Exists(d)
    <3>1. Lifecycle!Take(d)
      BY <1>0, <1>5, <2>2, <2>3 DEF BeginIngest, Lifecycle!Take, Lifecycle!Move
    <3>. QED
      BY <2>2, <3>1
  <2>4. CASE ~Exists(d)
    BY <1>0, <1>5, <2>4 DEF BeginIngest
  <2>. QED
    BY <2>3, <2>4
<1>6. ASSUME NEW w \in Worker, FinishIngest(w) PROVE [Lifecycle!LifeNext]_(Lifecycle!life)
  <2>. DEFINE d == jobDoc[held[w]]
  <2>1. pc[w] \in Holding /\ pc[w] = "embedded"
    BY <1>6 DEF FinishIngest, Holding, InTry
  <2>2. d \in Doc /\ (Exists(d) => Row(held[w]))
    BY <2>1, InHand DEF Exists
  <2>3. Exists(d) => docStatus[d] = "processing"
    BY <2>1, <2>2 DEF QueueInv, WorkInv
  <2>4. CASE Exists(d)
    <3>. DEFINE new == (chunks[d] \ gone[w]) \cup {billed[d] + 1}
    <3>1. chunks' = [chunks EXCEPT ![d] = new] /\ new # {}
      BY <1>6, <2>4 DEF FinishIngest
    <3>. HIDE DEF new
    <3>2. \A e \in Doc : chunks'[e] # {} <=> e = d \/ chunks[e] # {}
      BY <2>2, <3>1 DEF TypeOK
    <3>3. Searchable' = [Searchable EXCEPT ![d] = TRUE]
      BY <3>2 DEF Searchable
    <3>4. Lifecycle!Publish(d)
      BY <1>6, <2>3, <2>4, <3>3 DEF FinishIngest, Lifecycle!Publish
    <3>. QED
      BY <2>2, <3>4
  <2>5. CASE ~Exists(d)
    BY <1>0, <1>6, <2>5 DEF FinishIngest
  <2>. QED
    BY <2>4, <2>5
<1>7. ASSUME NEW w \in Worker, Fail(w) PROVE [Lifecycle!LifeNext]_(Lifecycle!life)
  <2>. DEFINE d == jobDoc[held[w]]
  <2>1. pc[w] \in Holding
    BY <1>7 DEF Fail, Holding
  <2>2. d \in Doc /\ (Row(held[w]) => docStatus[d] \in {"pending", "processing", "ready"})
    BY <2>1, InHand DEF TypeOK, Exists
  <2>3. CASE Row(held[w]) /\ attempts[held[w]] >= MaxAttempts
    <3>1. Lifecycle!GiveUp(d)
      BY <1>0, <1>7, <2>2, <2>3 DEF Fail, Lifecycle!GiveUp, Lifecycle!Move
    <3>. QED
      BY <2>2, <3>1
  <2>4. CASE ~(Row(held[w]) /\ attempts[held[w]] >= MaxAttempts)
    BY <1>0, <1>7, <2>4 DEF Fail, TypeOK
  <2>. QED
    BY <2>3, <2>4
<1>8. ASSUME NEW w \in Worker, Claim(w) \/ Heartbeat(w) \/ Disrupt(w)
      PROVE  UNCHANGED Lifecycle!life
  BY <1>0, <1>8 DEF Claim, Heartbeat, Disrupt, EmbedError, CleanupError, Abandon, Shutdown, Crash,
              HeartbeatDies, docVars
<1>9. ASSUME NEW w \in Worker,
             Embed(w) \/ IngestError(w) \/ Complete(w) \/ Purge(w) \/ Release(w)
      PROVE  UNCHANGED Lifecycle!life
  BY <1>0, <1>9 DEF Embed, IngestError, Complete, Purge, Release, docVars
<1>10. ASSUME NEW r \in Requester, RetryLost(r) \/ \E d \in Doc : RetryRead(r, d)
       PROVE  UNCHANGED Lifecycle!life
  BY <1>0, <1>10 DEF RetryLost, RetryRead, docVars
<1>11. ASSUME NEW j \in JobId, Lapse(j) PROVE UNCHANGED Lifecycle!life
  BY <1>0, <1>11 DEF Lapse, docVars
<1>12. CASE UNCHANGED vars
  BY <1>0, <1>12 DEF vars, docVars
<1>. HIDE DEF Lifecycle!LifeNext, Lifecycle!life
<1>13. ASSUME Request PROVE [Lifecycle!LifeNext]_(Lifecycle!life)
  BY <1>1, <1>2, <1>3, <1>10, <1>13 DEF Request
<1>14. ASSUME NEW w \in Worker, Work(w) PROVE [Lifecycle!LifeNext]_(Lifecycle!life)
  BY <1>5, <1>6, <1>7, <1>9, <1>14 DEF Work
<1>. QED
  BY <1>4, <1>8, <1>11, <1>12, <1>13, <1>14 DEF Next

\* Under the same conditions the queue, with its table, leases and runners, is an
\* implementation of the document lifecycle: no runner brings a failed document
\* back or skips a status, whenever it is interrupted.
THEOREM ImplementsLifecycle == ASSUME OneAtATime PROVE Spec => KeepsLifecycle
<1>1. Init => Lifecycle!LifeInit
  BY DEF Init, Lifecycle!LifeInit, Searchable
<1>2. TypeOK /\ TableInv /\ LeaseInv /\ QueueInv /\ [Next]_vars
        => [Lifecycle!LifeNext]_(Lifecycle!life)
  BY LifecycleStep
<1>. QED
  BY <1>1, <1>2, TypeCorrect, TablesInOrder, LeaseHeld, QueueHeld, PTL
     DEF Spec, KeepsLifecycle, Lifecycle!Spec

===============================================================================
