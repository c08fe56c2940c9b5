-------------------------- MODULE DocumentStoreProofs --------------------------
(***************************************************************************)
(* Theorems about DocumentStore, for any number of requests, files and     *)
(* documents, and about the page over it, DocumentsPage.                   *)
(***************************************************************************)
EXTENDS DocumentsPage, FiniteSetTheorems, TLAPS

\* The arbitrary content is a content.
LEMMA AnyContentType == AnyContent \in Content
  BY StoreAssumption DEF AnyContent

\* A request that ends, or goes on, keeps its record well typed.
LEMMA EndsType ==
    ASSUME TypeOK, NEW r \in Request, NEW told \in {"none", "done", "refused"}, Ends(r, told)
    PROVE  /\ pc' \in [Request -> Inserting \cup {"idle", "upload", "unknown", "failed",
                                                   "delete", "found", "erased"}]
           /\ file' \in [Request -> Content]
           /\ key' \in [Request -> Key \cup {0}]
           /\ answer' \in [Request -> {"none", "done", "refused"}]
  BY AnyContentType DEF TypeOK, Ends

LEMMA GoesType ==
    ASSUME TypeOK, NEW r \in Request,
           NEW where \in Inserting \cup {"idle", "upload", "unknown", "failed",
                                         "delete", "found", "erased"},
           Goes(r, where)
    PROVE  /\ pc' \in [Request -> Inserting \cup {"idle", "upload", "unknown", "failed",
                                                   "delete", "found", "erased"}]
           /\ file' \in [Request -> Content]
           /\ key' \in [Request -> Key \cup {0}]
           /\ answer' \in [Request -> {"none", "done", "refused"}]
  BY DEF TypeOK, Goes

LEMMA TypeInit == Init => TypeOK
  BY AnyContentType, StoreAssumption DEF Init, TypeOK, Key, Inserting

\* A request that works on a document works on one that has a key.
LEMMA KeyInHand ==
    ASSUME TypeOK, StoreInv, NEW r \in Request, pc[r] \notin {"idle", "upload", "unknown"}
    PROVE  key[r] \in Key /\ key[r] < nextKey
<1>1. key[r] \in 1..(nextKey - 1)
  BY DEF TypeOK, StoreInv, InHandInv, Inserting
<1>. QED
  BY <1>1, StoreAssumption DEF TypeOK, Key

\* Every action keeps the types, given the invariant on keys below.
LEMMA TypeNext == TypeOK /\ StoreInv /\ [Next]_storeVars => TypeOK'
<1>. SUFFICES ASSUME TypeOK, StoreInv, [Next]_storeVars PROVE TypeOK'
  OBVIOUS
<1>. USE StoreAssumption
<1>1. ASSUME NEW r \in Request, NEW c \in Content, Upload(r, c) PROVE TypeOK'
  BY <1>1 DEF TypeOK, Upload, rowVars, runVars
<1>2. ASSUME NEW r \in Request, NEW k \in 1..(nextKey - 1), Delete(r, k) PROVE TypeOK'
  BY <1>2 DEF TypeOK, Delete, rowVars, runVars, Key
<1>3. ASSUME NEW r \in Request, LookUp(r) PROVE TypeOK'
  <2>1. CASE Goes(r, "unknown")
    BY <1>3, <2>1, GoesType DEF TypeOK, LookUp, rowVars, runVars
  <2>2. CASE Ends(r, "done")
    BY <1>3, <2>2, EndsType DEF TypeOK, LookUp, rowVars, runVars
  <2>3. ASSUME NEW k \in LiveRows, pc' = [pc EXCEPT ![r] = "failed"],
               key' = [key EXCEPT ![r] = k], UNCHANGED <<file, answer>>
        PROVE  TypeOK'
    BY <1>3, <2>3 DEF TypeOK, LookUp, rowVars, runVars, LiveRows
  <2>. QED
    BY <1>3, <2>1, <2>2, <2>3 DEF LookUp
<1>4. ASSUME NEW r \in Request, Requeue(r) PROVE TypeOK'
  <2>1. row' \in [Key -> Status \cup {"absent", "deleted"}] /\ queued' \in [Key -> BOOLEAN]
    BY <1>4 DEF TypeOK, Requeue, Status
  <2>. QED
    BY <1>4, <2>1, EndsType DEF TypeOK, Requeue, runVars
<1>5. ASSUME NEW r \in Request, CountRows(r) PROVE TypeOK'
  <2>1. CASE AtLimit
    BY <1>5, <2>1, EndsType DEF TypeOK, CountRows, runVars
  <2>2. CASE ~AtLimit
    <3>1. nextKey \in Key /\ nextKey + 1 \in 1..(MaxKeys + 1)
      BY <1>5, <2>2 DEF TypeOK, CountRows, Key
    <3>2. file[r] \in Content /\ "admitted" \in Inserting
      BY DEF TypeOK, Inserting
    <3>. QED
      BY <1>5, <2>2, <3>1, <3>2 DEF TypeOK, CountRows, runVars
  <2>. QED
    BY <2>1, <2>2
<1>6. ASSUME NEW r \in Request, PutObject(r) PROVE TypeOK'
  BY <1>6, GoesType DEF TypeOK, PutObject, rowVars, runVars, Inserting
<1>7. ASSUME NEW r \in Request, InsertRow(r) PROVE TypeOK'
  <2>1. pc[r] = "stored" /\ (Ends(r, "refused") \/ Ends(r, "done"))
    BY <1>7 DEF InsertRow
  <2>2. /\ row' \in [Key -> Status \cup {"absent", "deleted"}]
        /\ queued' \in [Key -> BOOLEAN]
    BY <1>7 DEF TypeOK, InsertRow, Status
  <2>3. CASE \E k \in LiveRows : content[k] = file[r]
    BY <1>7, <2>1, <2>2, <2>3, EndsType, KeyInHand DEF TypeOK, InsertRow, runVars
  <2>4. CASE ~ \E k \in LiveRows : content[k] = file[r]
    BY <1>7, <2>1, <2>2, <2>4, EndsType DEF TypeOK, InsertRow, runVars
  <2>. QED
    BY <2>3, <2>4
<1>8. ASSUME NEW r \in Request, Find(r) PROVE TypeOK'
  <2>1. CASE row[key[r]] \in Status
    BY <1>8, <2>1, GoesType, KeyInHand DEF TypeOK, Find, rowVars, runVars
  <2>2. CASE row[key[r]] \notin Status
    BY <1>8, <2>2, EndsType DEF TypeOK, Find, rowVars, runVars
  <2>. QED
    BY <2>1, <2>2
<1>9. ASSUME NEW r \in Request, EraseObject(r) PROVE TypeOK'
  BY <1>9, GoesType DEF TypeOK, EraseObject, rowVars, runVars
<1>10. ASSUME NEW r \in Request, DeleteRow(r) PROVE TypeOK'
  BY <1>10, EndsType, KeyInHand DEF TypeOK, DeleteRow, runVars
<1>11. ASSUME NEW r \in Request, Dies(r) PROVE TypeOK'
  <2>1. faults' \in 0..MaxFaults
    BY <1>11 DEF TypeOK, Dies, Fault
  <2>3. object' \in [Key -> BOOLEAN]
    BY <1>11 DEF TypeOK, Dies
  <2>2. Ends(r, "refused")
    BY <1>11 DEF Dies
  <2>. QED
    BY <1>11, <2>1, <2>2, <2>3, EndsType DEF TypeOK, Dies, rowVars, runVars
<1>12. ASSUME NEW k \in Key, TakeJob(k) PROVE TypeOK'
  BY <1>12 DEF TypeOK, TakeJob, reqVars, Status
<1>13. CASE ReadObject
  BY <1>13 DEF TypeOK, ReadObject, reqVars, rowVars
<1>14. CASE Publish \/ Finish \/ Interrupted \/ GivesUp
  BY <1>14 DEF TypeOK, Publish, Finish, Interrupted, GivesUp, LaysDown, rowVars, reqVars, Status
<1>15. CASE UNCHANGED storeVars
  BY <1>15 DEF TypeOK, storeVars, rowVars, runVars, reqVars
<1>. QED
  BY <1>1, <1>2, <1>3, <1>4, <1>5, <1>6, <1>7, <1>8, <1>9, <1>10, <1>11, <1>12, <1>13,
     <1>14, <1>15 DEF Next, Run, Serve

LEMMA StoreInit == Init => StoreInv
  BY StoreAssumption DEF Init, StoreInv, RowHasObject, InHandInv, FreshKeys, KeysApart,
                         JobsHaveRows, LiveRows, Status, Inserting

\* The requests that stay as they are, after a step of another one.
LEMMA OtherRequests ==
    ASSUME TypeOK, StoreInv, NEW r \in Request, NEW q \in Request, q # r,
           pc' = [pc EXCEPT ![r] = pc'[r]],
           key' = [key EXCEPT ![r] = key'[r]]
    PROVE  pc'[q] = pc[q] /\ key'[q] = key[q]
  BY DEF TypeOK

\* A step that ends or moves a request without touching row, object or keys.
LEMMA QuietStep ==
    ASSUME TypeOK, StoreInv, NEW r \in Request,
           pc'[r] \notin Inserting,
           pc' = [pc EXCEPT ![r] = pc'[r]],
           key' = [key EXCEPT ![r] = key'[r]],
           pc'[r] \in {"failed", "delete", "found", "erased"} => key'[r] \in 1..(nextKey - 1),
           pc'[r] \in {"failed", "found", "erased"} => row[key'[r]] # "absent",
           pc'[r] \in {"found", "erased"} => key'[r] \in condemned',
           condemned \subseteq condemned',
           UNCHANGED <<row, queued, object, nextKey>>
    PROVE  StoreInv'
<1>1. RowHasObject'
  BY DEF StoreInv, RowHasObject, LiveRows
<1>2. InHandInv'
  <2>. SUFFICES ASSUME NEW q \in Request
       PROVE /\ pc'[q] \in Inserting => key'[q] \in 1..(nextKey' - 1) /\ row'[key'[q]] = "absent"
             /\ pc'[q] = "stored" => object'[key'[q]]
             /\ pc'[q] \in {"failed", "delete", "found", "erased"} => key'[q] \in 1..(nextKey' - 1)
             /\ pc'[q] \in {"failed", "found", "erased"} => row'[key'[q]] # "absent"
             /\ pc'[q] \in {"found", "erased"} => key'[q] \in condemned'
    BY DEF InHandInv
  <2>1. CASE q = r
    BY <2>1 DEF Inserting
  <2>2. CASE q # r
    BY <2>2, OtherRequests DEF StoreInv, InHandInv
  <2>. QED
    BY <2>1, <2>2
<1>3. FreshKeys' /\ JobsHaveRows'
  BY DEF StoreInv, FreshKeys, JobsHaveRows
<1>4. KeysApart'
  BY DEF StoreInv, KeysApart, TypeOK
<1>. QED
  BY <1>1, <1>2, <1>3, <1>4 DEF StoreInv

\* A request that ends is idle.
LEMMA EndsQuiet ==
    ASSUME TypeOK, NEW r \in Request, NEW told, Ends(r, told)
    PROVE  /\ pc'[r] = "idle"
           /\ pc' = [pc EXCEPT ![r] = pc'[r]]
           /\ key' = [key EXCEPT ![r] = key'[r]]
  BY DEF TypeOK, Ends

\* A request that goes on keeps its key.
LEMMA GoesQuiet ==
    ASSUME TypeOK, NEW r \in Request, NEW where, Goes(r, where)
    PROVE  /\ pc'[r] = where
           /\ key'[r] = key[r]
           /\ pc' = [pc EXCEPT ![r] = pc'[r]]
           /\ key' = [key EXCEPT ![r] = key'[r]]
  BY DEF TypeOK, Goes

\* A live row has a key that was given out.
LEMMA LiveKey ==
    ASSUME TypeOK, StoreInv, NEW k \in LiveRows
    PROVE  k \in Key /\ k \in 1..(nextKey - 1) /\ row[k] # "absent"
<1>1. k \in Key /\ row[k] # "absent"
  BY DEF LiveRows, Status
<1>2. ~(k >= nextKey)
  BY <1>1 DEF StoreInv, FreshKeys
<1>. QED
  BY <1>1, <1>2, StoreAssumption DEF TypeOK, Key

\* A step that ends a request, or none, and changes the row k that is there.
LEMMA RowStep ==
    ASSUME TypeOK, StoreInv, NEW k \in Key,
           row[k] # "absent",
           row' = [row EXCEPT ![k] = row'[k]],
           row'[k] \in Status \cup {"deleted"},
           row'[k] \in Status => row[k] \in Status,
           \A q \in Request : pc'[q] = "idle" \/ (pc'[q] = pc[q] /\ key'[q] = key[q]),
           \A j \in Key : queued'[j] => row'[j] \in Status,
           UNCHANGED <<object, nextKey, condemned>>
    PROVE  StoreInv'
<1>0. \A j \in Key : j # k => row'[j] = row[j]
  BY DEF TypeOK
<1>1. RowHasObject'
  BY <1>0 DEF StoreInv, RowHasObject, LiveRows
<1>2. InHandInv'
  <2>. SUFFICES ASSUME NEW q \in Request, pc'[q] # "idle"
       PROVE /\ pc'[q] \in Inserting => key'[q] \in 1..(nextKey' - 1) /\ row'[key'[q]] = "absent"
             /\ pc'[q] = "stored" => object'[key'[q]]
             /\ pc'[q] \in {"failed", "delete", "found", "erased"} => key'[q] \in 1..(nextKey' - 1)
             /\ pc'[q] \in {"failed", "found", "erased"} => row'[key'[q]] # "absent"
             /\ pc'[q] \in {"found", "erased"} => key'[q] \in condemned'
    BY DEF InHandInv, Inserting
  <2>1. pc'[q] = pc[q] /\ key'[q] = key[q]
    OBVIOUS
  <2>2. CASE pc[q] \in {"upload", "unknown"}
    BY <2>1, <2>2 DEF Inserting
  <2>3. CASE pc[q] \notin {"upload", "unknown"}
    <3>1. key[q] \in Key
      BY <2>1, <2>3, KeyInHand
    <3>2. row[key[q]] = "absent" <=> row'[key[q]] = "absent"
      BY <1>0, <3>1 DEF Status
    <3>. QED
      BY <2>1, <3>2 DEF StoreInv, InHandInv
  <2>. QED
    BY <2>2, <2>3
<1>3. FreshKeys' /\ JobsHaveRows'
  BY <1>0 DEF StoreInv, FreshKeys, JobsHaveRows
<1>4. KeysApart'
  BY DEF StoreInv, KeysApart, Inserting
<1>. QED
  BY <1>1, <1>2, <1>3, <1>4 DEF StoreInv

\* A step that erases the object of a row condemned to go, and ends the request
\* or moves it on to the deletion of the row.
LEMMA Erased ==
    ASSUME TypeOK, StoreInv, NEW r \in Request,
           pc[r] = "found", key[r] \in Key, key[r] \in condemned, row[key[r]] # "absent",
           object' = [object EXCEPT ![key[r]] = FALSE],
           pc' = [pc EXCEPT ![r] = pc'[r]], pc'[r] \in {"idle", "erased"},
           key' = [key EXCEPT ![r] = key'[r]], pc'[r] = "erased" => key'[r] = key[r],
           UNCHANGED <<row, queued, nextKey, condemned>>
    PROVE  StoreInv'
<1>1. \A k \in Key : k # key[r] => object'[k] = object[k]
  BY DEF TypeOK
<1>2. RowHasObject'
  BY <1>1 DEF StoreInv, RowHasObject, LiveRows
<1>3. FreshKeys' /\ JobsHaveRows'
  BY DEF StoreInv, FreshKeys, JobsHaveRows
<1>4. \A q \in Request : q # r => pc'[q] = pc[q] /\ key'[q] = key[q]
  BY OtherRequests
<1>5. KeysApart'
  BY <1>4 DEF StoreInv, KeysApart, Inserting
<1>6. InHandInv'
  <2>. SUFFICES ASSUME NEW q \in Request, pc'[q] # "idle"
       PROVE /\ pc'[q] \in Inserting => key'[q] \in 1..(nextKey' - 1) /\ row'[key'[q]] = "absent"
             /\ pc'[q] = "stored" => object'[key'[q]]
             /\ pc'[q] \in {"failed", "delete", "found", "erased"} => key'[q] \in 1..(nextKey' - 1)
             /\ pc'[q] \in {"failed", "found", "erased"} => row'[key'[q]] # "absent"
             /\ pc'[q] \in {"found", "erased"} => key'[q] \in condemned'
    BY DEF InHandInv, Inserting
  <2>1. CASE q = r
    BY <2>1 DEF StoreInv, InHandInv, Inserting
  <2>2. CASE q # r
    <3>1. pc[q] = "stored" => key[q] \in Key /\ key[q] # key[r]
      BY KeyInHand DEF StoreInv, InHandInv, Inserting
    <3>. QED
      BY <1>1, <1>4, <2>2, <3>1 DEF StoreInv, InHandInv
  <2>. QED
    BY <2>1, <2>2
<1>. QED
  BY <1>2, <1>3, <1>5, <1>6 DEF StoreInv

\* A request that ends leaves the others alone.
LEMMA EndsApart ==
    ASSUME TypeOK, NEW r \in Request, NEW told, Ends(r, told)
    PROVE  \A q \in Request : pc'[q] = "idle" \/ (pc'[q] = pc[q] /\ key'[q] = key[q])
  BY DEF TypeOK, Ends

\* Every action keeps the invariant on rows, objects and keys.
LEMMA StoreNext == TypeOK /\ StoreInv /\ [Next]_storeVars => StoreInv'
<1>. SUFFICES ASSUME TypeOK, StoreInv, [Next]_storeVars PROVE StoreInv'
  OBVIOUS
<1>1. ASSUME NEW r \in Request, NEW c \in Content, Upload(r, c) PROVE StoreInv'
  <2>1. /\ pc' = [pc EXCEPT ![r] = "upload"] /\ pc'[r] = "upload"
        /\ key' = [key EXCEPT ![r] = key'[r]]
    BY <1>1 DEF Upload, TypeOK
  <2>. QED
    BY <1>1, <2>1, QuietStep DEF Upload, rowVars, Inserting
<1>2. ASSUME NEW r \in Request, NEW k \in 1..(nextKey - 1), Delete(r, k) PROVE StoreInv'
  <2>1. pc'[r] = "delete" /\ key'[r] = k
    BY <1>2 DEF Delete, TypeOK
  <2>. QED
    BY <1>2, <2>1, QuietStep DEF Delete, rowVars, Inserting
<1>3. ASSUME NEW r \in Request, LookUp(r) PROVE StoreInv'
  <2>. USE <1>3 DEF LookUp, rowVars, Inserting
  <2>1. CASE Goes(r, "unknown")
    BY <2>1, GoesQuiet, QuietStep
  <2>2. CASE Ends(r, "done")
    BY <2>2, EndsQuiet, QuietStep
  <2>3. ASSUME NEW k \in LiveRows, pc' = [pc EXCEPT ![r] = "failed"],
               key' = [key EXCEPT ![r] = k]
        PROVE  StoreInv'
    <3>1. pc'[r] = "failed" /\ key'[r] = k
      BY <2>3 DEF TypeOK
    <3>. QED
      BY <2>3, <3>1, LiveKey, QuietStep
  <2>. QED
    BY <2>1, <2>2, <2>3
<1>4. ASSUME NEW r \in Request, Requeue(r) PROVE StoreInv'
  <2>0. key[r] \in Key /\ pc[r] = "failed"
    BY <1>4, KeyInHand DEF Requeue
  <2>1. CASE row[key[r]] \in Status
    <3>1. Ends(r, "done") /\ row' = [row EXCEPT ![key[r]] = "pending"]
          /\ queued' = [queued EXCEPT ![key[r]] = TRUE]
      BY <1>4, <2>1 DEF Requeue
    <3>2. row'[key[r]] = "pending" /\ \A j \in Key : queued'[j] => row'[j] \in Status
      BY <2>0, <3>1 DEF TypeOK, StoreInv, JobsHaveRows, Status
    <3>. QED
      BY <1>4, <2>0, <2>1, <3>1, <3>2, EndsApart, RowStep DEF Requeue, Status
  <2>2. CASE row[key[r]] \notin Status
    BY <1>4, <2>2, EndsQuiet, QuietStep DEF Requeue, Inserting
  <2>. QED
    BY <2>1, <2>2
<1>5. ASSUME NEW r \in Request, CountRows(r) PROVE StoreInv'
  <2>1. CASE AtLimit
    BY <1>5, <2>1, EndsQuiet, QuietStep DEF CountRows, Inserting
  <2>2. CASE ~AtLimit
    <3>1. /\ nextKey \in Key /\ nextKey' = nextKey + 1
          /\ pc' = [pc EXCEPT ![r] = "admitted"] /\ pc'[r] = "admitted"
          /\ key' = [key EXCEPT ![r] = nextKey] /\ key'[r] = nextKey
          /\ UNCHANGED <<row, queued, object, condemned>>
      BY <1>5, <2>2, StoreAssumption DEF CountRows, TypeOK, Key
    <3>2. ASSUME NEW q \in Request, q # r
          PROVE  pc'[q] = pc[q] /\ key'[q] = key[q]
      BY <3>1, <3>2, OtherRequests
    <3>3. row[nextKey] = "absent"
      BY <3>1 DEF StoreInv, FreshKeys, Key
    <3>4. ASSUME NEW q \in Request, q # r, pc[q] \in Inserting
          PROVE  key[q] < nextKey
      BY <3>4, KeyInHand DEF Inserting
    <3>5. RowHasObject' /\ JobsHaveRows'
      BY <3>1 DEF StoreInv, RowHasObject, JobsHaveRows, LiveRows
    <3>6. InHandInv'
      <4>. SUFFICES ASSUME NEW q \in Request
           PROVE /\ pc'[q] \in Inserting => key'[q] \in 1..(nextKey' - 1) /\ row'[key'[q]] = "absent"
                 /\ pc'[q] = "stored" => object'[key'[q]]
                 /\ pc'[q] \in {"failed", "delete", "found", "erased"} => key'[q] \in 1..(nextKey' - 1)
                 /\ pc'[q] \in {"failed", "found", "erased"} => row'[key'[q]] # "absent"
                 /\ pc'[q] \in {"found", "erased"} => key'[q] \in condemned'
        BY DEF InHandInv
      <4>1. CASE q = r
        BY <3>1, <3>3, <4>1 DEF Key
      <4>2. CASE q # r
        BY <3>1, <3>2, <4>2 DEF StoreInv, InHandInv, Key
      <4>. QED
        BY <4>1, <4>2
    <3>7. FreshKeys'
      BY <3>1 DEF StoreInv, FreshKeys, Key
    <3>8. KeysApart'
      <4>. SUFFICES ASSUME NEW q \in Request, NEW s \in Request, pc'[q] \in Inserting,
                           pc'[s] \in Inserting, key'[q] = key'[s]
           PROVE  q = s
        BY DEF KeysApart
      <4>1. CASE q # r /\ s # r
        BY <3>2, <4>1 DEF StoreInv, KeysApart
      <4>2. CASE q # r /\ s = r
        BY <3>1, <3>2, <3>4, <4>2 DEF Key
      <4>3. CASE q = r /\ s # r
        BY <3>1, <3>2, <3>4, <4>3 DEF Key
      <4>. QED
        BY <4>1, <4>2, <4>3
    <3>. QED
      BY <3>5, <3>6, <3>7, <3>8 DEF StoreInv
  <2>. QED
    BY <2>1, <2>2
<1>6. ASSUME NEW r \in Request, PutObject(r) PROVE StoreInv'
  <2>1. /\ key[r] \in Key /\ object' = [object EXCEPT ![key[r]] = TRUE]
        /\ pc' = [pc EXCEPT ![r] = "stored"] /\ pc[r] = "admitted"
        /\ UNCHANGED <<row, queued, nextKey, key, condemned>>
    BY <1>6, KeyInHand DEF PutObject, Goes, rowVars
  <2>2. object'[key[r]] /\ \A k \in Key : object[k] => object'[k]
    BY <2>1 DEF TypeOK
  <2>3. RowHasObject'
    BY <2>1, <2>2 DEF StoreInv, RowHasObject, LiveRows
  <2>4. InHandInv'
    <3>. SUFFICES ASSUME NEW q \in Request
         PROVE /\ pc'[q] \in Inserting => key'[q] \in 1..(nextKey' - 1) /\ row'[key'[q]] = "absent"
               /\ pc'[q] = "stored" => object'[key'[q]]
               /\ pc'[q] \in {"failed", "delete", "found", "erased"} => key'[q] \in 1..(nextKey' - 1)
               /\ pc'[q] \in {"failed", "found", "erased"} => row'[key'[q]] # "absent"
               /\ pc'[q] \in {"found", "erased"} => key'[q] \in condemned'
      BY DEF InHandInv
    <3>1. CASE q = r
      BY <2>1, <2>2, <3>1 DEF StoreInv, InHandInv, Inserting, TypeOK
    <3>2. CASE q # r
      <4>1. pc'[q] = pc[q] /\ key' = key
        BY <2>1, <3>2 DEF TypeOK
      <4>2. pc[q] = "stored" => key[q] \in Key
        BY KeyInHand
      <4>. QED
        BY <2>1, <2>2, <4>1, <4>2 DEF StoreInv, InHandInv
    <3>. QED
      BY <3>1, <3>2
  <2>5. FreshKeys' /\ JobsHaveRows'
    BY <2>1 DEF StoreInv, FreshKeys, JobsHaveRows
  <2>6. KeysApart'
    BY <2>1 DEF StoreInv, KeysApart, Inserting, TypeOK
  <2>. QED
    BY <2>3, <2>4, <2>5, <2>6 DEF StoreInv
<1>7. ASSUME NEW r \in Request, InsertRow(r) PROVE StoreInv'
  <2>0. key[r] \in Key /\ pc[r] = "stored" /\ row[key[r]] = "absent" /\ object[key[r]]
    BY <1>7, KeyInHand DEF InsertRow, StoreInv, InHandInv, Inserting
  <2>1. CASE \E k \in LiveRows : content[k] = file[r]
    BY <1>7, <2>1, EndsQuiet, QuietStep DEF InsertRow, Inserting
  <2>2. CASE ~ \E k \in LiveRows : content[k] = file[r]
    <3>1. /\ row' = [row EXCEPT ![key[r]] = "pending"]
          /\ queued' = [queued EXCEPT ![key[r]] = TRUE]
          /\ Ends(r, "done")
          /\ UNCHANGED <<object, nextKey, condemned>>
      BY <1>7, <2>2 DEF InsertRow
    <3>2. row'[key[r]] = "pending" /\ \A k \in Key : k # key[r] => row'[k] = row[k]
      BY <2>0, <3>1 DEF TypeOK
    <3>3. RowHasObject'
      BY <2>0, <3>1, <3>2 DEF StoreInv, RowHasObject, LiveRows
    <3>4. JobsHaveRows'
      BY <2>0, <3>1, <3>2 DEF StoreInv, JobsHaveRows, Status, TypeOK
    <3>5. FreshKeys'
      <4>1. ~(key[r] >= nextKey)
        <5>1. key[r] \in 1..(nextKey - 1)
          BY <2>0 DEF StoreInv, InHandInv, Inserting
        <5>2. nextKey \in Int
          BY StoreAssumption DEF TypeOK
        <5>. QED
          BY <5>1, <5>2
      <4>. QED
        BY <2>0, <3>1, <3>2, <4>1 DEF StoreInv, FreshKeys
    <3>6. KeysApart'
      BY <3>1, EndsApart DEF StoreInv, KeysApart, Inserting
    <3>7. InHandInv'
      <4>. SUFFICES ASSUME NEW q \in Request, pc'[q] # "idle"
           PROVE /\ pc'[q] \in Inserting => key'[q] \in 1..(nextKey' - 1) /\ row'[key'[q]] = "absent"
                 /\ pc'[q] = "stored" => object'[key'[q]]
                 /\ pc'[q] \in {"failed", "delete", "found", "erased"} => key'[q] \in 1..(nextKey' - 1)
                 /\ pc'[q] \in {"failed", "found", "erased"} => row'[key'[q]] # "absent"
                 /\ pc'[q] \in {"found", "erased"} => key'[q] \in condemned'
        BY DEF InHandInv, Inserting
      <4>1. pc'[q] = pc[q] /\ key'[q] = key[q] /\ q # r
        BY <3>1, EndsApart, EndsQuiet
      <4>2. pc[q] \in Inserting => key[q] # key[r]
        BY <2>0, <4>1 DEF StoreInv, KeysApart, Inserting
      <4>3. pc[q] \in Inserting \cup {"failed", "found", "erased"} => key[q] \in Key
        BY KeyInHand DEF Inserting
      <4>. QED
        BY <3>1, <3>2, <4>1, <4>2, <4>3 DEF StoreInv, InHandInv
    <3>. QED
      BY <3>3, <3>4, <3>5, <3>6, <3>7 DEF StoreInv
  <2>. QED
    BY <2>1, <2>2
<1>8. ASSUME NEW r \in Request, Find(r) PROVE StoreInv'
  <2>0. pc[r] = "delete" /\ key[r] \in 1..(nextKey - 1)
    BY <1>8 DEF Find, StoreInv, InHandInv
  <2>1. CASE row[key[r]] \in Status
    BY <1>8, <2>0, <2>1, GoesQuiet, QuietStep DEF Find, rowVars, Inserting, Status
  <2>2. CASE row[key[r]] \notin Status
    BY <1>8, <2>2, EndsQuiet, QuietStep DEF Find, rowVars, Inserting
  <2>. QED
    BY <2>1, <2>2
<1>9. ASSUME NEW r \in Request, EraseObject(r) PROVE StoreInv'
  <2>1. /\ key[r] \in Key /\ pc[r] = "found"
        /\ key[r] \in condemned /\ row[key[r]] # "absent"
    BY <1>9, KeyInHand DEF EraseObject, StoreInv, InHandInv
  <2>2. /\ object' = [object EXCEPT ![key[r]] = FALSE]
        /\ pc' = [pc EXCEPT ![r] = "erased"]
        /\ UNCHANGED <<row, queued, nextKey, key, condemned>>
    BY <1>9 DEF EraseObject, Goes, rowVars
  <2>3. pc'[r] = "erased" /\ key' = [key EXCEPT ![r] = key'[r]]
    BY <2>2 DEF TypeOK
  <2>. QED
    BY <2>1, <2>2, <2>3, Erased
<1>10. ASSUME NEW r \in Request, DeleteRow(r) PROVE StoreInv'
  <2>1. key[r] \in Key /\ row[key[r]] # "absent"
    BY <1>10, KeyInHand DEF DeleteRow, StoreInv, InHandInv
  <2>2. /\ row' = [row EXCEPT ![key[r]] = "deleted"]
        /\ queued' = [queued EXCEPT ![key[r]] = FALSE]
        /\ Ends(r, "done")
        /\ UNCHANGED <<object, nextKey, condemned>>
    BY <1>10 DEF DeleteRow
  <2>3. row'[key[r]] = "deleted" /\ \A j \in Key : queued'[j] => row'[j] \in Status
    BY <2>1, <2>2 DEF TypeOK, StoreInv, JobsHaveRows, Status
  <2>. QED
    BY <2>1, <2>2, <2>3, EndsApart, RowStep DEF Status
<1>11. ASSUME NEW r \in Request, Dies(r) PROVE StoreInv'
  <2>0. Ends(r, "refused") /\ UNCHANGED <<row, queued, nextKey, condemned>>
    BY <1>11 DEF Dies, rowVars
  <2>1. CASE UNCHANGED object
    BY <2>0, <2>1, EndsQuiet, QuietStep DEF Inserting
  <2>2. CASE pc[r] = "admitted" /\ object' = [object EXCEPT ![key[r]] = TRUE]
    <3>1. \A k \in Key : object[k] => object'[k]
      BY <2>2 DEF TypeOK
    <3>2. RowHasObject' /\ JobsHaveRows' /\ FreshKeys'
      BY <2>0, <3>1 DEF StoreInv, RowHasObject, LiveRows, JobsHaveRows, FreshKeys
    <3>3. KeysApart'
      BY <2>0, EndsApart DEF StoreInv, KeysApart, Inserting
    <3>4. ASSUME NEW q \in Request, pc[q] = "stored" PROVE key[q] \in Key
      BY <3>4, KeyInHand
    <3>5. InHandInv'
      BY <2>0, <3>1, <3>4, EndsApart DEF StoreInv, InHandInv, Inserting
    <3>. QED
      BY <3>2, <3>3, <3>5 DEF StoreInv
  <2>3. CASE pc[r] = "found" /\ object' = [object EXCEPT ![key[r]] = FALSE]
    <3>1. key[r] \in Key /\ key[r] \in condemned /\ row[key[r]] # "absent"
      BY <2>3, KeyInHand DEF StoreInv, InHandInv
    <3>. QED
      BY <2>0, <2>3, <3>1, EndsQuiet, Erased
  <2>. QED
    BY <1>11, <2>1, <2>2, <2>3 DEF Dies
<1>12. ASSUME NEW k \in Key, TakeJob(k) PROVE StoreInv'
  <2>1. row[k] \in Status /\ row' = [row EXCEPT ![k] = "processing"]
        /\ UNCHANGED <<queued, object, nextKey, pc, key, condemned>>
    BY <1>12 DEF TakeJob, StoreInv, JobsHaveRows, reqVars
  <2>2. row'[k] = "processing" /\ \A j \in Key : queued'[j] => row'[j] \in Status
    BY <2>1 DEF TypeOK, StoreInv, JobsHaveRows, Status
  <2>. QED
    BY <2>1, <2>2, RowStep DEF Status
<1>13. CASE ReadObject
  BY <1>13 DEF ReadObject, rowVars, reqVars, StoreInv, RowHasObject, LiveRows, InHandInv,
               FreshKeys, KeysApart, JobsHaveRows
<1>14. CASE Publish \/ Finish \/ Interrupted \/ GivesUp
  <2>1. UNCHANGED <<object, nextKey, pc, key, condemned>>
    BY <1>14 DEF Publish, Finish, Interrupted, GivesUp, rowVars, reqVars
  <2>2. CASE UNCHANGED row /\ \A j \in Key : queued'[j] => queued[j]
    BY <2>1, <2>2 DEF StoreInv, RowHasObject, LiveRows, InHandInv, FreshKeys, KeysApart,
                      JobsHaveRows
  <2>3. CASE Publish \/ GivesUp
    <3>1. /\ inHand \in Key /\ row[inHand] \in Status
          /\ \E s \in {"ready", "failed"} : row' = [row EXCEPT ![inHand] = s]
          /\ \A j \in Key : queued'[j] => queued[j]
      BY <2>3 DEF Publish, GivesUp, TypeOK
    <3>2. row'[inHand] \in Status /\ \A j \in Key : j # inHand => row'[j] = row[j]
      BY <3>1 DEF TypeOK, Status
    <3>3. \A j \in Key : queued'[j] => row'[j] \in Status
      BY <3>1, <3>2 DEF StoreInv, JobsHaveRows
    <3>4. row' = [row EXCEPT ![inHand] = row'[inHand]]
      BY <3>1 DEF TypeOK
    <3>. QED
      BY <2>1, <3>1, <3>2, <3>3, <3>4, RowStep DEF Status
  <2>. QED
    BY <1>14, <2>2, <2>3 DEF Finish, Interrupted, rowVars, TypeOK
<1>15. CASE UNCHANGED storeVars
  BY <1>15 DEF storeVars, rowVars, reqVars, StoreInv, RowHasObject, LiveRows, InHandInv,
               FreshKeys, KeysApart, JobsHaveRows
<1>. QED
  BY <1>1, <1>2, <1>3, <1>4, <1>5, <1>6, <1>7, <1>8, <1>9, <1>10, <1>11, <1>12, <1>13,
     <1>14, <1>15 DEF Next, Run, Serve

\* Every variable of the two stores, the requests and the runner keeps its type.
THEOREM TypeCorrect == Spec => []TypeOK
<1>1. Init => TypeOK /\ StoreInv
  BY TypeInit, StoreInit
<1>2. TypeOK /\ StoreInv /\ [Next]_storeVars => (TypeOK /\ StoreInv)'
  BY TypeNext, StoreNext
<1>. QED
  BY <1>1, <1>2, PTL DEF Spec

\* A document never points at bytes that were not stored, and loses them only
\* to a request to delete it, wherever uploads, deletions, the runner and
\* crashes meet.
THEOREM RowsHaveObjects == Spec => []RowHasObject
<1>1. Init => TypeOK /\ StoreInv
  BY TypeInit, StoreInit
<1>2. TypeOK /\ StoreInv /\ [Next]_storeVars => (TypeOK /\ StoreInv)'
  BY TypeNext, StoreNext
<1>3. StoreInv => RowHasObject
  BY DEF StoreInv
<1>. QED
  BY <1>1, <1>2, <1>3, PTL DEF Spec

\* The rows and the uploads that were admitted can be counted.
LEMMA Countable ==
    ASSUME TypeOK
    PROVE  /\ IsFiniteSet(LiveRows) /\ Cardinality(LiveRows) \in Nat
           /\ IsFiniteSet(Admitted) /\ Cardinality(Admitted) \in Nat
           /\ IsFiniteSet(Request) /\ Cardinality(Request) \in Nat
           /\ Cardinality(Admitted) <= Cardinality(Request)
<1>1. IsFiniteSet(Key)
  BY FS_Interval, StoreAssumption DEF Key
<1>2. LiveRows \subseteq Key /\ Admitted \subseteq Request
  BY DEF LiveRows, Admitted
<1>3. IsFiniteSet(LiveRows) /\ IsFiniteSet(Admitted) /\ IsFiniteSet(Request)
      /\ Cardinality(Admitted) <= Cardinality(Request)
  BY <1>1, <1>2, FS_Subset, StoreAssumption
<1>. QED
  BY <1>3, FS_CardinalityType

\* A step that admits nobody and makes no row keeps the count.
LEMMA Shrinks ==
    ASSUME TypeOK, LimitInv, LiveRows' \subseteq LiveRows, Admitted' \subseteq Admitted
    PROVE  LimitInv'
<1>1. /\ Cardinality(LiveRows') <= Cardinality(LiveRows)
      /\ Cardinality(Admitted') <= Cardinality(Admitted)
      /\ IsFiniteSet(LiveRows') /\ IsFiniteSet(Admitted')
  BY Countable, FS_Subset
<1>2. Cardinality(LiveRows') \in Nat /\ Cardinality(Admitted') \in Nat
  BY <1>1, FS_CardinalityType
<1>. QED
  BY <1>1, <1>2, Countable, StoreAssumption DEF LimitInv

LEMMA LimitInit == Init => LimitInv
<1>. SUFFICES ASSUME Init PROVE LimitInv
  OBVIOUS
<1>1. LiveRows = {} /\ Admitted = {}
  BY DEF Init, LiveRows, Admitted, Status, Inserting
<1>2. TypeOK
  BY TypeInit
<1>. QED
  BY <1>1, <1>2, Countable, FS_EmptySet, StoreAssumption DEF LimitInv

\* The steps of a request, as they change who is admitted.
LEMMA EndsAdmitted ==
    ASSUME TypeOK, NEW r \in Request, NEW told, Ends(r, told)
    PROVE  Admitted' = Admitted \ {r}
  BY DEF TypeOK, Ends, Admitted, Inserting

LEMMA GoesAdmitted ==
    ASSUME TypeOK, NEW r \in Request, NEW where, Goes(r, where),
           where \in Inserting => pc[r] \in Inserting
    PROVE  Admitted' \subseteq Admitted
  BY DEF TypeOK, Goes, Admitted

\* Every action keeps the count of rows and of uploads that were admitted.
LEMMA LimitNext == TypeOK /\ StoreInv /\ LimitInv /\ [Next]_storeVars => LimitInv'
<1>. SUFFICES ASSUME TypeOK, StoreInv, LimitInv, [Next]_storeVars PROVE LimitInv'
  OBVIOUS
<1>1. ASSUME NEW r \in Request, NEW c \in Content, Upload(r, c) PROVE LimitInv'
  BY <1>1, Shrinks DEF Upload, rowVars, LiveRows, Admitted, TypeOK, Inserting
<1>2. ASSUME NEW r \in Request, NEW k \in 1..(nextKey - 1), Delete(r, k) PROVE LimitInv'
  BY <1>2, Shrinks DEF Delete, rowVars, LiveRows, Admitted, TypeOK, Inserting
<1>3. ASSUME NEW r \in Request, LookUp(r) PROVE LimitInv'
  <2>1. Admitted' \subseteq Admitted
    <3>1. CASE Goes(r, "unknown")
      BY <3>1, GoesAdmitted DEF Inserting
    <3>2. CASE Ends(r, "done")
      BY <3>2, EndsAdmitted
    <3>3. CASE pc' = [pc EXCEPT ![r] = "failed"]
      BY <3>3 DEF TypeOK, Admitted, Inserting
    <3>. QED
      BY <1>3, <3>1, <3>2, <3>3 DEF LookUp
  <2>. QED
    BY <1>3, <2>1, Shrinks DEF LookUp, rowVars, LiveRows
<1>4. ASSUME NEW r \in Request, Requeue(r) PROVE LimitInv'
  <2>1. Admitted' \subseteq Admitted
    BY <1>4, EndsAdmitted DEF Requeue
  <2>2. LiveRows' \subseteq LiveRows
    BY <1>4 DEF Requeue, LiveRows, TypeOK
  <2>. QED
    BY <2>1, <2>2, Shrinks
<1>5. ASSUME NEW r \in Request, CountRows(r) PROVE LimitInv'
  <2>1. CASE AtLimit
    BY <1>5, <2>1, EndsAdmitted, Shrinks DEF CountRows, LiveRows
  <2>2. CASE ~AtLimit
    <3>1. LiveRows' = LiveRows /\ Cardinality(LiveRows) < MaxDocuments
      BY <1>5, <2>2, Countable, StoreAssumption DEF CountRows, AtLimit, LiveRows
    <3>2. TypeOK'
      BY TypeNext
    <3>3. Cardinality(Admitted') \in Nat /\ Cardinality(Admitted') <= Cardinality(Request)
      <4>1. Admitted' \subseteq Request
        BY DEF Admitted
      <4>2. IsFiniteSet(Admitted') /\ Cardinality(Admitted') <= Cardinality(Request)
        BY <4>1, FS_Subset, StoreAssumption
      <4>. QED
        BY <4>2, FS_CardinalityType
    <3>. QED
      BY <3>1, <3>3, Countable, StoreAssumption DEF LimitInv
  <2>. QED
    BY <2>1, <2>2
<1>6. ASSUME NEW r \in Request, PutObject(r) PROVE LimitInv'
  BY <1>6, GoesAdmitted, Shrinks DEF PutObject, rowVars, LiveRows, Inserting
<1>7. ASSUME NEW r \in Request, InsertRow(r) PROVE LimitInv'
  <2>1. CASE \E k \in LiveRows : content[k] = file[r]
    BY <1>7, <2>1, EndsAdmitted, Shrinks DEF InsertRow, LiveRows
  <2>2. CASE ~ \E k \in LiveRows : content[k] = file[r]
    <3>1. key[r] \in Key /\ row[key[r]] = "absent" /\ r \in Admitted
      BY <1>7, KeyInHand DEF InsertRow, StoreInv, InHandInv, Inserting, Admitted
    <3>2. row' = [row EXCEPT ![key[r]] = "pending"] /\ Ends(r, "done")
      BY <1>7, <2>2 DEF InsertRow
    <3>3. LiveRows' = LiveRows \cup {key[r]} /\ key[r] \notin LiveRows
      BY <3>1, <3>2 DEF LiveRows, Status, TypeOK
    <3>4. Cardinality(LiveRows') = Cardinality(LiveRows) + 1
      BY <3>3, Countable, FS_AddElement
    <3>5. Cardinality(Admitted') = Cardinality(Admitted) - 1
      BY <3>1, <3>2, EndsAdmitted, Countable, FS_RemoveElement
    <3>. QED
      BY <3>4, <3>5, Countable, StoreAssumption DEF LimitInv
  <2>. QED
    BY <2>1, <2>2
<1>8. ASSUME NEW r \in Request, Find(r) PROVE LimitInv'
  <2>1. Admitted' \subseteq Admitted
    BY <1>8, GoesAdmitted, EndsAdmitted DEF Find, Inserting
  <2>. QED
    BY <1>8, <2>1, Shrinks DEF Find, rowVars, LiveRows
<1>9. ASSUME NEW r \in Request, EraseObject(r) PROVE LimitInv'
  BY <1>9, GoesAdmitted, Shrinks DEF EraseObject, rowVars, LiveRows, Inserting
<1>10. ASSUME NEW r \in Request, DeleteRow(r) PROVE LimitInv'
  <2>1. LiveRows' \subseteq LiveRows
    BY <1>10 DEF DeleteRow, LiveRows, Status, TypeOK
  <2>. QED
    BY <1>10, <2>1, EndsAdmitted, Shrinks DEF DeleteRow
<1>11. ASSUME NEW r \in Request, Dies(r) PROVE LimitInv'
  BY <1>11, EndsAdmitted, Shrinks DEF Dies, rowVars, LiveRows
<1>12. ASSUME NEW k \in Key, TakeJob(k) PROVE LimitInv'
  <2>1. LiveRows' \subseteq LiveRows
    BY <1>12 DEF TakeJob, LiveRows, StoreInv, JobsHaveRows, TypeOK
  <2>. QED
    BY <1>12, <2>1, Shrinks DEF TakeJob, reqVars, Admitted
<1>13. CASE ReadObject
  BY <1>13, Shrinks DEF ReadObject, rowVars, reqVars, LiveRows, Admitted
<1>14. CASE Publish \/ Finish \/ Interrupted \/ GivesUp
  <2>1. LiveRows' \subseteq LiveRows
    BY <1>14 DEF Publish, Finish, Interrupted, GivesUp, rowVars, LiveRows, TypeOK
  <2>. QED
    BY <1>14, <2>1, Shrinks DEF Publish, Finish, Interrupted, GivesUp, reqVars, Admitted
<1>15. CASE UNCHANGED storeVars
  BY <1>15, Shrinks DEF storeVars, rowVars, reqVars, LiveRows, Admitted
<1>. QED
  BY <1>1, <1>2, <1>3, <1>4, <1>5, <1>6, <1>7, <1>8, <1>9, <1>10, <1>11, <1>12, <1>13,
     <1>14, <1>15 DEF Next, Run, Serve

\* However many uploads pass the check of the limit together, the workspace
\* ends up with at most one document too many for each of them but the first.
THEOREM LimitIsNearlyHeld == Spec => []LimitOvershoot
<1>1. Init => TypeOK /\ StoreInv /\ LimitInv
  BY TypeInit, StoreInit, LimitInit
<1>2. TypeOK /\ StoreInv /\ LimitInv /\ [Next]_storeVars => (TypeOK /\ StoreInv /\ LimitInv)'
  BY TypeNext, StoreNext, LimitNext
<1>3. TypeOK /\ LimitInv => LimitOvershoot
  BY Countable, StoreAssumption DEF LimitInv, LimitOvershoot
<1>. QED
  BY <1>1, <1>2, <1>3, PTL DEF Spec

-------------------------------------------------------------------------------
(* Every half of a document has its excuse                                     *)

LEMMA HalvesCount ==
    ASSUME TypeOK
    PROVE  /\ IsFiniteSet(Halves) /\ Cardinality(Halves) \in Nat
           /\ IsFiniteSet(collided) /\ Cardinality(collided) \in Nat
<1>1. IsFiniteSet(Key)
  BY FS_Interval, StoreAssumption DEF Key
<1>2. Halves \subseteq Key /\ collided \subseteq Key
  BY DEF Halves, Orphans, Headless, LiveRows, Stored, TypeOK
<1>. QED
  BY <1>1, <1>2, FS_Subset, FS_CardinalityType

\* A step that leaves no half behind, and one that leaves one and counts it.
LEMMA NoMoreHalves ==
    ASSUME TypeOK, HalvesAreExcused, Halves' \subseteq Halves,
           faults' = faults \/ faults' = faults + 1, UNCHANGED collided
    PROVE  HalvesAreExcused'
<1>1. /\ IsFiniteSet(Halves') /\ Cardinality(Halves') <= Cardinality(Halves)
      /\ Cardinality(Halves') \in Nat
  <2>1. IsFiniteSet(Halves') /\ Cardinality(Halves') <= Cardinality(Halves)
    BY HalvesCount, FS_Subset
  <2>. QED
    BY <2>1, FS_CardinalityType
<1>. QED
  BY <1>1, HalvesCount, StoreAssumption DEF HalvesAreExcused, TypeOK

LEMMA OneMoreHalf ==
    ASSUME TypeOK, HalvesAreExcused, NEW k \in Key, Halves' \subseteq Halves \cup {k},
           \/ faults' = faults + 1 /\ UNCHANGED collided
           \/ k \notin collided /\ collided' = collided \cup {k} /\ UNCHANGED faults
    PROVE  HalvesAreExcused'
<1>1. /\ IsFiniteSet(Halves \cup {k})
      /\ Cardinality(Halves \cup {k}) <= Cardinality(Halves) + 1
  <2>1. IsFiniteSet(Halves) /\ Cardinality(Halves) \in Nat
    BY HalvesCount
  <2>2. /\ IsFiniteSet(Halves \cup {k})
        /\ Cardinality(Halves \cup {k}) =
              IF k \in Halves THEN Cardinality(Halves) ELSE Cardinality(Halves) + 1
    BY <2>1, FS_AddElement
  <2>. QED
    BY <2>1, <2>2
<1>2. /\ Cardinality(Halves \cup {k}) \in Nat
      /\ Cardinality(Halves') \in Nat
      /\ Cardinality(Halves') <= Cardinality(Halves \cup {k})
  <2>1. IsFiniteSet(Halves') /\ Cardinality(Halves') <= Cardinality(Halves \cup {k})
    BY <1>1, FS_Subset
  <2>. QED
    BY <1>1, <2>1, FS_CardinalityType
<1>3. faults' + Cardinality(collided') = faults + Cardinality(collided) + 1
  <2>1. CASE faults' = faults + 1 /\ UNCHANGED collided
    BY <2>1, HalvesCount, StoreAssumption DEF TypeOK
  <2>2. CASE k \notin collided /\ collided' = collided \cup {k} /\ UNCHANGED faults
    <3>1. Cardinality(collided') = Cardinality(collided) + 1
      BY <2>2, HalvesCount, FS_AddElement
    <3>. QED
      BY <2>2, <3>1, HalvesCount, StoreAssumption DEF TypeOK
  <2>. QED
    BY <2>1, <2>2
<1>. QED
  BY <1>1, <1>2, <1>3, HalvesCount, StoreAssumption DEF HalvesAreExcused, TypeOK

\* Nothing is orphaned while no object appears, no row goes that has one, and
\* uploads that have stored theirs go on.  No row loses its object while none
\* appears without one, and deletions that have erased theirs go on or end.
LEMMA HalvesStay ==
    ASSUME TypeOK, \A k \in Key : object'[k] => /\ object[k]
                                                /\ row'[k] \notin Status => row[k] \notin Status,
           \A k \in Key : row'[k] \in Status /\ ~object'[k] =>
              \/ row[k] \in Status /\ ~object[k]
              \/ \E q \in Request : pc'[q] = "erased" /\ key'[q] = k,
           \A q \in Request : pc[q] = "stored" => pc'[q] = pc[q] /\ key'[q] = key[q],
           \A q \in Request : pc[q] = "erased" => \/ pc'[q] = pc[q] /\ key'[q] = key[q]
                                                  \/ row'[key[q]] \notin Status
    PROVE  Halves' \subseteq Halves
<1>1. Orphans' \subseteq Orphans
  BY DEF Orphans, Stored
<1>2. Headless' \subseteq Headless
  <2>. SUFFICES ASSUME NEW k \in Key, row'[k] \in Status, ~object'[k],
                       \A q \in Request : key'[q] = k => pc'[q] # "erased"
       PROVE  k \in Headless
    BY DEF Headless, LiveRows
  <2>1. row[k] \in Status /\ ~object[k]
    OBVIOUS
  <2>2. ASSUME NEW q \in Request, key[q] = k PROVE pc[q] # "erased"
    BY <2>2
  <2>. QED
    BY <2>1, <2>2 DEF Headless, LiveRows
<1>. QED
  BY <1>1, <1>2 DEF Halves

\* Keys in hand after the step of one request, if it gives none out.
LEMMA ExcuseStep ==
    ASSUME TypeOK, StoreInv, ExcuseInv, NEW r \in Request,
           pc' = [pc EXCEPT ![r] = pc'[r]],
           key' = [key EXCEPT ![r] = key'[r]],
           pc'[r] \in Inserting => pc[r] \in Inserting /\ key'[r] = key[r],
           pc'[r] # "erased",
           \A q \in Request \ {r} : pc[q] \in Inserting => key[q] \notin collided',
           pc'[r] \in Inserting => UNCHANGED collided,
           \A k \in Key : object'[k] /\ ~object[k] => row[k] = "absent",
           \A k \in collided' : k \in collided \/ k < nextKey,
           UNCHANGED nextKey,
           HalvesAreExcused'
    PROVE  ExcuseInv'
<1>1. \A q \in Request : q # r => pc'[q] = pc[q] /\ key'[q] = key[q]
  BY DEF TypeOK
<1>2. ASSUME NEW q \in Request
      PROVE  /\ pc'[q] \in Inserting => key'[q] \notin collided'
             /\ pc'[q] = "erased" => ~object'[key'[q]]
  <2>1. CASE q = r
    BY <2>1 DEF ExcuseInv
  <2>2. CASE q # r
    <3>1. pc[q] = "erased" => key[q] \in Key /\ row[key[q]] # "absent" /\ ~object[key[q]]
      BY KeyInHand DEF StoreInv, InHandInv, ExcuseInv
    <3>. QED
      BY <1>1, <2>2, <3>1
  <2>. QED
    BY <2>1, <2>2
<1>. QED
  BY <1>2 DEF ExcuseInv

\* A step of a request that leaves objects and rows alone.
LEMMA ExcuseQuiet ==
    ASSUME TypeOK, StoreInv, ExcuseInv, NEW r \in Request,
           pc[r] \notin {"stored", "erased"},
           pc' = [pc EXCEPT ![r] = pc'[r]],
           key' = [key EXCEPT ![r] = key'[r]],
           pc'[r] \notin Inserting \cup {"erased"},
           UNCHANGED <<object, nextKey, collided, faults>>,
           \A k \in Key : row'[k] \in Status <=> row[k] \in Status
    PROVE  ExcuseInv'
<1>1. \A q \in Request : pc[q] \in {"stored", "erased"} => pc'[q] = pc[q] /\ key'[q] = key[q]
  BY DEF TypeOK
<1>2. HalvesAreExcused'
  BY <1>1, HalvesStay, NoMoreHalves DEF ExcuseInv
<1>. QED
  BY <1>2, ExcuseStep DEF ExcuseInv

\* A step of the runner.
LEMMA ExcuseRun ==
    ASSUME TypeOK, ExcuseInv,
           UNCHANGED <<object, nextKey, pc, key, collided, faults>>,
           \A k \in Key : row'[k] \in Status <=> row[k] \in Status
    PROVE  ExcuseInv'
<1>1. HalvesAreExcused'
  BY HalvesStay, NoMoreHalves DEF ExcuseInv
<1>. QED
  BY <1>1 DEF ExcuseInv

\* Every action keeps the count of halves and of their excuses.
LEMMA ExcuseNext == TypeOK /\ StoreInv /\ ExcuseInv /\ [Next]_storeVars => ExcuseInv'
<1>. SUFFICES ASSUME TypeOK, StoreInv, ExcuseInv, [Next]_storeVars PROVE ExcuseInv'
  OBVIOUS
<1>1. ASSUME NEW r \in Request, NEW c \in Content, Upload(r, c) PROVE ExcuseInv'
  <2>1. /\ pc' = [pc EXCEPT ![r] = pc'[r]] /\ pc'[r] = "upload"
        /\ key' = [key EXCEPT ![r] = key'[r]]
    BY <1>1 DEF Upload, TypeOK
  <2>. QED
    BY <1>1, <2>1, ExcuseQuiet DEF Upload, rowVars, Inserting
<1>2. ASSUME NEW r \in Request, NEW k \in 1..(nextKey - 1), Delete(r, k) PROVE ExcuseInv'
  <2>1. /\ pc' = [pc EXCEPT ![r] = pc'[r]] /\ pc'[r] = "delete"
        /\ key' = [key EXCEPT ![r] = key'[r]]
    BY <1>2 DEF Delete, TypeOK
  <2>. QED
    BY <1>2, <2>1, ExcuseQuiet DEF Delete, rowVars, Inserting
<1>3. ASSUME NEW r \in Request, LookUp(r) PROVE ExcuseInv'
  <2>. USE <1>3 DEF LookUp, rowVars, Inserting
  <2>1. CASE Goes(r, "unknown")
    BY <2>1, GoesQuiet, ExcuseQuiet
  <2>2. CASE Ends(r, "done")
    BY <2>2, EndsQuiet, ExcuseQuiet
  <2>3. ASSUME NEW k \in LiveRows, pc' = [pc EXCEPT ![r] = "failed"],
               key' = [key EXCEPT ![r] = k]
        PROVE  ExcuseInv'
    <3>1. pc'[r] = "failed" /\ key'[r] = k
      BY <2>3 DEF TypeOK
    <3>. QED
      BY <2>3, <3>1, ExcuseQuiet
  <2>. QED
    BY <2>1, <2>2, <2>3
<1>4. ASSUME NEW r \in Request, Requeue(r) PROVE ExcuseInv'
  <2>1. \A k \in Key : row'[k] \in Status <=> row[k] \in Status
    BY <1>4 DEF Requeue, TypeOK, Status
  <2>2. pc[r] = "failed" /\ UNCHANGED <<object, nextKey, collided, faults>>
        /\ \E told : Ends(r, told)
    BY <1>4 DEF Requeue
  <2>. QED
    BY <2>1, <2>2, EndsQuiet, ExcuseQuiet DEF Inserting
<1>5. ASSUME NEW r \in Request, CountRows(r) PROVE ExcuseInv'
  <2>1. CASE AtLimit
    BY <1>5, <2>1, EndsQuiet, ExcuseQuiet DEF CountRows, Inserting
  <2>2. CASE ~AtLimit
    <3>1. /\ nextKey \in Key /\ nextKey' = nextKey + 1
          /\ pc[r] = "unknown" /\ pc' = [pc EXCEPT ![r] = "admitted"]
          /\ key' = [key EXCEPT ![r] = nextKey]
          /\ UNCHANGED <<row, object, collided, faults>>
      BY <1>5, <2>2, StoreAssumption DEF CountRows, TypeOK, Key
    <3>2. /\ pc'[r] = "admitted" /\ key'[r] = nextKey
          /\ \A q \in Request : q # r => pc'[q] = pc[q] /\ key'[q] = key[q]
      BY <3>1 DEF TypeOK
    <3>3. nextKey \notin collided /\ \A k \in collided : k < nextKey'
      BY <3>1 DEF ExcuseInv, TypeOK, Key
    <3>4. HalvesAreExcused'
      BY <3>1, <3>2, HalvesStay, NoMoreHalves DEF ExcuseInv
    <3>5. ASSUME NEW q \in Request
          PROVE  /\ pc'[q] \in Inserting => key'[q] \notin collided
                 /\ pc'[q] = "erased" => ~object[key'[q]]
      BY <3>2, <3>3 DEF ExcuseInv
    <3>. QED
      BY <3>1, <3>3, <3>4, <3>5 DEF ExcuseInv
  <2>. QED
    BY <2>1, <2>2
<1>6. ASSUME NEW r \in Request, PutObject(r) PROVE ExcuseInv'
  <2>1. /\ key[r] \in Key /\ row[key[r]] = "absent"
        /\ pc[r] = "admitted" /\ object' = [object EXCEPT ![key[r]] = TRUE]
        /\ UNCHANGED <<row, nextKey, collided, faults>> /\ Goes(r, "stored")
    BY <1>6, KeyInHand DEF PutObject, rowVars, StoreInv, InHandInv, Inserting
  <2>2. /\ pc'[r] = "stored" /\ key'[r] = key[r]
        /\ \A q \in Request : q # r => pc'[q] = pc[q] /\ key'[q] = key[q]
        /\ \A k \in Key : k # key[r] => object'[k] = object[k]
    BY <2>1 DEF Goes, TypeOK
  <2>3. Halves' \subseteq Halves
    BY <2>1, <2>2 DEF Halves, Orphans, Headless, LiveRows, Stored
  <2>4. HalvesAreExcused'
    BY <2>1, <2>3, NoMoreHalves DEF ExcuseInv
  <2>. QED
    BY <2>1, <2>2, <2>4, GoesQuiet, ExcuseStep DEF ExcuseInv, Inserting
<1>7. ASSUME NEW r \in Request, InsertRow(r) PROVE ExcuseInv'
  <2>0. /\ key[r] \in Key /\ key[r] < nextKey /\ pc[r] = "stored"
        /\ key[r] \notin collided /\ object[key[r]]
        /\ UNCHANGED <<object, nextKey, faults>>
    BY <1>7, KeyInHand DEF InsertRow, ExcuseInv, StoreInv, InHandInv, Inserting
  <2>1. CASE \E k \in LiveRows : content[k] = file[r]
    <3>1. collided' = collided \cup {key[r]} /\ UNCHANGED row /\ Ends(r, "refused")
      BY <1>7, <2>1 DEF InsertRow
    <3>2. \A q \in Request : q # r => pc'[q] = pc[q] /\ key'[q] = key[q]
      BY <3>1 DEF Ends, TypeOK
    <3>3. Halves' \subseteq Halves \cup {key[r]}
      BY <2>0, <3>1, <3>2 DEF Halves, Orphans, Headless, LiveRows, Stored
    <3>4. HalvesAreExcused'
      BY <2>0, <3>1, <3>3, OneMoreHalf DEF ExcuseInv
    <3>5. \A q \in Request \ {r} : pc[q] \in Inserting => key[q] \notin collided'
      BY <2>0, <3>1 DEF ExcuseInv, StoreInv, KeysApart, Inserting
    <3>. QED
      BY <2>0, <3>1, <3>4, <3>5, EndsQuiet, ExcuseStep DEF Inserting
  <2>2. CASE ~ \E k \in LiveRows : content[k] = file[r]
    <3>1. row' = [row EXCEPT ![key[r]] = "pending"] /\ UNCHANGED collided /\ Ends(r, "done")
      BY <1>7, <2>2 DEF InsertRow
    <3>2. \A q \in Request : q # r => pc'[q] = pc[q] /\ key'[q] = key[q]
      BY <3>1 DEF Ends, TypeOK
    <3>3. row'[key[r]] \in Status /\ \A k \in Key : k # key[r] => row'[k] = row[k]
      BY <2>0, <3>1 DEF TypeOK, Status
    <3>4. Halves' \subseteq Halves
      BY <2>0, <3>2, <3>3 DEF Halves, Orphans, Headless, LiveRows, Stored
    <3>5. HalvesAreExcused'
      BY <2>0, <3>1, <3>4, NoMoreHalves DEF ExcuseInv
    <3>. QED
      BY <2>0, <3>1, <3>5, EndsQuiet, ExcuseStep DEF ExcuseInv, Inserting
  <2>. QED
    BY <2>1, <2>2
<1>8. ASSUME NEW r \in Request, Find(r) PROVE ExcuseInv'
  BY <1>8, GoesQuiet, EndsQuiet, ExcuseQuiet DEF Find, rowVars, Inserting
<1>9. ASSUME NEW r \in Request, EraseObject(r) PROVE ExcuseInv'
  <2>1. /\ key[r] \in Key /\ pc[r] = "found"
        /\ object' = [object EXCEPT ![key[r]] = FALSE]
        /\ UNCHANGED <<row, nextKey, collided, faults>> /\ Goes(r, "erased")
    BY <1>9, KeyInHand DEF EraseObject, rowVars
  <2>2. /\ pc'[r] = "erased" /\ key'[r] = key[r] /\ ~object'[key[r]]
        /\ \A q \in Request : q # r => pc'[q] = pc[q] /\ key'[q] = key[q]
        /\ \A k \in Key : object'[k] => object[k]
    BY <2>1 DEF Goes, TypeOK
  <2>3. HalvesAreExcused'
    BY <2>1, <2>2, HalvesStay, NoMoreHalves DEF ExcuseInv
  <2>4. ASSUME NEW q \in Request
        PROVE  /\ pc'[q] \in Inserting => key'[q] \notin collided
               /\ pc'[q] = "erased" => ~object'[key'[q]]
    <3>1. pc[q] = "erased" => key[q] \in Key
      BY KeyInHand
    <3>. QED
      BY <2>2, <3>1 DEF ExcuseInv, Inserting
  <2>. QED
    BY <2>1, <2>3, <2>4 DEF ExcuseInv
<1>10. ASSUME NEW r \in Request, DeleteRow(r) PROVE ExcuseInv'
  <2>1. /\ key[r] \in Key /\ pc[r] = "erased" /\ ~object[key[r]]
        /\ row' = [row EXCEPT ![key[r]] = "deleted"]
        /\ UNCHANGED <<object, nextKey, collided, faults>> /\ Ends(r, "done")
    BY <1>10, KeyInHand DEF DeleteRow, ExcuseInv
  <2>2. /\ \A q \in Request : q # r => pc'[q] = pc[q] /\ key'[q] = key[q]
        /\ \A k \in Key : k # key[r] => row'[k] = row[k]
        /\ row'[key[r]] \notin Status
    BY <2>1 DEF Ends, TypeOK, Status
  <2>3. Halves' \subseteq Halves
    BY <2>1, <2>2, HalvesStay
  <2>4. HalvesAreExcused'
    BY <2>1, <2>3, NoMoreHalves DEF ExcuseInv
  <2>. QED
    BY <2>1, <2>4, EndsQuiet, ExcuseStep DEF ExcuseInv, Inserting
<1>11. ASSUME NEW r \in Request, Dies(r) PROVE ExcuseInv'
  <2>1. /\ faults' = faults + 1 /\ Ends(r, "refused")
        /\ UNCHANGED <<row, nextKey, collided>>
        /\ \/ UNCHANGED object
           \/ pc[r] = "admitted" /\ object' = [object EXCEPT ![key[r]] = TRUE]
           \/ pc[r] = "found" /\ object' = [object EXCEPT ![key[r]] = FALSE]
    BY <1>11 DEF Dies, Fault, rowVars
  <2>2. \A q \in Request : q # r => pc'[q] = pc[q] /\ key'[q] = key[q]
    BY <2>1 DEF Ends, TypeOK
  <2>3. \A k \in Key : object'[k] /\ ~object[k] => k = key[r] /\ row[k] = "absent"
    BY <2>1 DEF TypeOK, StoreInv, InHandInv, Inserting
  <2>4. HalvesAreExcused'
    <3>1. CASE key[r] \in Key
      <4>0. \A k \in Key : k # key[r] => object'[k] = object[k]
        BY <2>1 DEF TypeOK
      <4>1. Orphans' \subseteq Orphans \cup {key[r]}
        BY <2>1, <2>2, <2>3 DEF Orphans, Stored
      <4>2. Headless' \subseteq Headless \cup {key[r]}
        BY <2>1, <2>2, <4>0 DEF Headless, LiveRows
      <4>3. Halves' \subseteq Halves \cup {key[r]}
        BY <4>1, <4>2 DEF Halves
      <4>. QED
        BY <2>1, <3>1, <4>3, OneMoreHalf DEF ExcuseInv
    <3>2. CASE key[r] \notin Key
      <4>1. pc[r] \notin {"stored", "erased"} /\ \A k \in Key : object'[k] = object[k]
        BY <2>1, <3>2, KeyInHand DEF TypeOK
      <4>2. Halves' \subseteq Halves
        BY <2>1, <2>2, <4>1, HalvesStay
      <4>. QED
        BY <2>1, <4>2, NoMoreHalves DEF ExcuseInv
    <3>. QED
      BY <3>1, <3>2
  <2>. QED
    BY <2>1, <2>3, <2>4, EndsQuiet, ExcuseStep DEF ExcuseInv, Inserting
<1>12. ASSUME NEW k \in Key, TakeJob(k) PROVE ExcuseInv'
  <2>1. \A j \in Key : row'[j] \in Status <=> row[j] \in Status
    BY <1>12 DEF TakeJob, StoreInv, JobsHaveRows, TypeOK, Status
  <2>. QED
    BY <1>12, <2>1, ExcuseRun DEF TakeJob, reqVars
<1>13. CASE ReadObject
  BY <1>13, ExcuseRun DEF ReadObject, rowVars, reqVars
<1>14. CASE Publish \/ Finish \/ Interrupted \/ GivesUp
  <2>1. \A j \in Key : row'[j] \in Status <=> row[j] \in Status
    BY <1>14 DEF Publish, Finish, Interrupted, GivesUp, rowVars, TypeOK, Status
  <2>. QED
    BY <1>14, <2>1, ExcuseRun DEF Publish, Finish, Interrupted, GivesUp, reqVars
<1>15. CASE UNCHANGED storeVars
  BY <1>15, ExcuseRun DEF storeVars, rowVars, reqVars
<1>. QED
  BY <1>1, <1>2, <1>3, <1>4, <1>5, <1>6, <1>7, <1>8, <1>9, <1>10, <1>11, <1>12, <1>13,
     <1>14, <1>15 DEF Next, Run, Serve

\* Unreachable objects and documents that lost their bytes are together no more
\* than the faults and the inserts lost to an equal file: nothing else the code
\* does leaves half a document behind.
THEOREM HalvesHaveExcuses == Spec => []HalvesAreExcused
<1>1. Init => ExcuseInv
  <2>. SUFFICES ASSUME Init PROVE ExcuseInv
    OBVIOUS
  <2>1. Halves = {} /\ collided = {} /\ faults = 0
    BY DEF Init, Halves, Orphans, Headless, LiveRows, Stored, Status
  <2>2. HalvesAreExcused
    BY <2>1, FS_EmptySet DEF HalvesAreExcused
  <2>. QED
    BY <2>1, <2>2 DEF Init, ExcuseInv, Inserting
<1>2. Init => TypeOK /\ StoreInv
  BY TypeInit, StoreInit
<1>3. TypeOK /\ StoreInv /\ ExcuseInv /\ [Next]_storeVars => (TypeOK /\ StoreInv /\ ExcuseInv)'
  BY TypeNext, StoreNext, ExcuseNext
<1>4. ExcuseInv => HalvesAreExcused
  BY DEF ExcuseInv
<1>. QED
  BY <1>1, <1>2, <1>3, <1>4, PTL DEF Spec

-------------------------------------------------------------------------------
(* The page over the store                                                     *)

\* What the list of the server says of a document, by the document's row.
LEMMA ListAt ==
    ASSUME NEW k \in Key
    PROVE  /\ row[k] \notin Status => ListNow[k] = "absent"
           /\ Unsettled(k) => ListNow[k] = "settling"
           /\ row[k] \in {"ready", "failed"} => ListNow[k] = row[k]
           /\ row'[k] \notin Status => ListNow'[k] = "absent"
           /\ Unsettled(k)' => ListNow'[k] = "settling"
           /\ row'[k] \in {"ready", "failed"} => ListNow'[k] = row'[k]
  BY DEF ListNow, Unsettled, Status

LEMMA ListNowType == ListNow \in Shown
  BY DEF ListNow, Shown, Status

\* What the page sees of a run: nothing.
LEMMA RunIsUnseen == RunUnseen \/ BreaksOff => Run /\ UNCHANGED pageVars
  BY DEF RunUnseen, BreaksOff, Run

\* A run has no request in hand, and what it made ready it remembers.
LEMMA RunApart ==
    RunUnseen \/ BreaksOff => UNCHANGED <<reqVars, pageVars>> /\ unfinished \subseteq unfinished'
  BY DEF RunUnseen, BreaksOff, ReadObject, Publish, Finish, Interrupted, GivesUp, TakeJob

\* The types and the invariant of the store do not mind the page's own steps.
LEMMA AnswerTaken ==
    ASSUME TypeOK, StoreInv,
           UNCHANGED <<row, content, object, queued, nextKey, inHand, text, pc, file, key,
                       collided, condemned>>,
           answer' \in [Request -> {"none", "done", "refused"}],
           faults' \in 0..MaxFaults
    PROVE  TypeOK' /\ StoreInv'
<1>1. TypeOK'
  BY DEF TypeOK, Key
<1>2. StoreInv'
  BY DEF StoreInv, RowHasObject, InHandInv, FreshKeys, KeysApart, JobsHaveRows, LiveRows
<1>. QED
  BY <1>1, <1>2

LEMMA StoreUnderPage ==
    TypeOK /\ StoreInv /\ [PageNext]_vars => TypeOK' /\ StoreInv'
<1>. SUFFICES ASSUME TypeOK, StoreInv, [PageNext]_vars PROVE TypeOK' /\ StoreInv'
  OBVIOUS
<1>1. ASSUME [Next]_storeVars PROVE TypeOK' /\ StoreInv'
  BY <1>1, TypeNext, StoreNext
<1>2. CASE RunUnseen \/ BreaksOff \/ \E r \in Request : Serve(r)
  BY <1>1, <1>2, RunIsUnseen DEF Next
<1>3. ASSUME NEW r \in Request, NEW c \in Content, Choose(r, c) PROVE TypeOK' /\ StoreInv'
  BY <1>1, <1>3 DEF Choose, Next
<1>4. ASSUME NEW r \in Request, NEW k \in 1..(nextKey - 1), Remove(r, k)
      PROVE  TypeOK' /\ StoreInv'
  BY <1>1, <1>4 DEF Remove, Next
<1>5. ASSUME NEW r \in Request, UploadAnswered(r) \/ RemovalAnswered(r)
      PROVE  TypeOK' /\ StoreInv'
  <2>1. /\ Forgets(r)
        /\ UNCHANGED <<rowVars, object, nextKey, runVars, pc, file, key, faults, collided,
                       condemned>>
    BY <1>5 DEF UploadAnswered, RemovalAnswered
  <2>2. answer' \in [Request -> {"none", "done", "refused"}] /\ faults' \in 0..MaxFaults
    BY <2>1 DEF Forgets, TypeOK
  <2>. QED
    BY <2>1, <2>2, AnswerTaken DEF rowVars, runVars
<1>6. CASE Poll \/ ServerReads \/ Lands \/ UNCHANGED vars
  BY <1>1, <1>6 DEF Poll, ServerReads, Lands, vars
<1>7. CASE LoadFails
  <2>1. faults' \in 0..MaxFaults
    BY <1>7, StoreAssumption DEF LoadFails, Fault, TypeOK
  <2>2. answer' \in [Request -> {"none", "done", "refused"}]
    BY <1>7 DEF LoadFails, reqVars, TypeOK
  <2>. QED
    BY <1>7, <2>1, <2>2, AnswerTaken DEF LoadFails, rowVars, runVars, reqVars
<1>. QED
  BY <1>2, <1>3, <1>4, <1>5, <1>6, <1>7 DEF PageNext

LEMMA NothingShown == Nothing \in Shown
  BY DEF Nothing, Shown

LEMMA PageTypeInit == PageInit => PageTypeOK
  BY NothingShown DEF PageInit, PageTypeOK

LEMMA PageTypeNext == TypeOK /\ PageTypeOK /\ [PageNext]_vars => PageTypeOK'
<1>. SUFFICES ASSUME TypeOK, PageTypeOK, [PageNext]_vars PROVE PageTypeOK'
  OBVIOUS
<1>1. Nothing \in Shown
  BY NothingShown
<1>0. unfinished' \in SUBSET Key
  BY DEF PageNext, RunUnseen, BreaksOff, Choose, Remove, UploadAnswered, RemovalAnswered,
         Poll, ServerReads, Lands, LoadFails, vars, PageTypeOK
<1>2. tangled' \in BOOLEAN
  BY DEF PageNext, RunUnseen, BreaksOff, Choose, Remove, UploadAnswered, RemovalAnswered, Poll, ServerReads,
         Lands, LoadFails, Tangle, vars, pageVars, PageTypeOK
<1>3. ASSUME NEW r \in Request, NEW c \in Content, Choose(r, c) PROVE PageTypeOK'
  BY <1>0, <1>2, <1>3 DEF Choose, PageTypeOK
<1>4. ASSUME NEW r \in Request, NEW k \in 1..(nextKey - 1), Remove(r, k) PROVE PageTypeOK'
  <2>1. k \in Key
    BY StoreAssumption DEF TypeOK, Key
  <2>. QED
    BY <1>0, <1>2, <1>4, <2>1 DEF Remove, PageTypeOK
<1>5. ASSUME NEW r \in Request, UploadAnswered(r) PROVE PageTypeOK'
  BY <1>0, <1>1, <1>2, <1>5 DEF UploadAnswered, Forgets, StartsLoad, PageTypeOK
<1>6. ASSUME NEW r \in Request, RemovalAnswered(r) PROVE PageTypeOK'
  <2>1. list' \in Shown
    BY <1>6 DEF RemovalAnswered, PageTypeOK, Shown
  <2>. QED
    BY <1>0, <1>1, <1>2, <1>6, <2>1 DEF RemovalAnswered, Forgets, PageTypeOK
<1>7. CASE Poll \/ ServerReads \/ Lands \/ LoadFails
  BY <1>0, <1>1, <1>2, <1>7, ListNowType
  DEF Poll, ServerReads, Lands, LoadFails, StartsLoad, PageTypeOK
<1>8. CASE UNCHANGED pageVars
  BY <1>0, <1>8 DEF pageVars, PageTypeOK
<1>. QED
  BY <1>3, <1>4, <1>5, <1>6, <1>7, <1>8, RunApart DEF PageNext, vars

\* Whatever a request or the runner does, what has a job, or is in the runner's
\* hands and still there, is unsettled, or was made ready by a run that has yet
\* to complete the job, or never did.
LEMMA JobsNext ==
    TypeOK /\ StoreInv /\ PageTypeOK /\ JobsAreUnsettled /\ [PageNext]_vars => JobsAreUnsettled'
<1>. SUFFICES ASSUME TypeOK, StoreInv, PageTypeOK, JobsAreUnsettled, [PageNext]_vars
     PROVE JobsAreUnsettled'
  OBVIOUS
<1>. USE DEF JobsAreUnsettled, Unsettled, Published
<1>1. CASE UNCHANGED <<row, queued, inHand, text, unfinished>>
  BY <1>1
<1>2. ASSUME NEW k \in Key, UNCHANGED <<inHand, text, unfinished>>,
             row' = [row EXCEPT ![k] = "pending"], queued' = [queued EXCEPT ![k] = TRUE]
      PROVE  JobsAreUnsettled'
  BY <1>2 DEF TypeOK
<1>3. ASSUME NEW k \in Key, UNCHANGED <<inHand, text, unfinished>>,
             row' = [row EXCEPT ![k] = "deleted"], queued' = [queued EXCEPT ![k] = FALSE]
      PROVE  JobsAreUnsettled'
  BY <1>3 DEF TypeOK, Status
<1>4. ASSUME NEW r \in Request, Serve(r), UNCHANGED unfinished PROVE JobsAreUnsettled'
  <2>1. CASE DeleteRow(r)
    BY <1>3, <1>4, <2>1, KeyInHand DEF DeleteRow, runVars
  <2>2. CASE Requeue(r) \/ InsertRow(r)
    <3>1. key[r] \in Key
      BY <2>2, KeyInHand DEF Requeue, InsertRow
    <3>2. /\ UNCHANGED <<inHand, text>>
          /\ \/ UNCHANGED <<row, queued>>
             \/ /\ row' = [row EXCEPT ![key[r]] = "pending"]
                /\ queued' = [queued EXCEPT ![key[r]] = TRUE]
      BY <2>2 DEF Requeue, InsertRow, runVars
    <3>. QED
      BY <1>1, <1>2, <1>4, <3>1, <3>2
  <2>3. CASE \/ LookUp(r) \/ CountRows(r) \/ PutObject(r) \/ Find(r) \/ EraseObject(r)
             \/ Dies(r)
    BY <1>1, <1>4, <2>3
    DEF LookUp, CountRows, PutObject, Find, EraseObject, Dies, rowVars, runVars
  <2>. QED
    BY <1>4, <2>1, <2>2, <2>3 DEF Serve
<1>5. ASSUME NEW k \in Key, TakeJob(k), UNCHANGED unfinished PROVE JobsAreUnsettled'
  <2>1. k # 0
    BY StoreAssumption DEF Key
  <2>2. /\ row' = [row EXCEPT ![k] = "processing"] /\ inHand = 0 /\ inHand' = k
        /\ UNCHANGED <<queued, text>>
    BY <1>5 DEF TakeJob
  <2>3. row'[k] = "processing" /\ \A j \in Key : j # k => row'[j] = row[j]
    BY <2>2 DEF TypeOK
  <2>4. ASSUME NEW j \in Key PROVE j # 0
    BY StoreAssumption DEF Key
  <2>. QED
    BY <1>5, <2>2, <2>3, <2>4
<1>6. CASE Publish /\ UNCHANGED unfinished
  <2>1. /\ inHand \in Key /\ inHand' = inHand /\ text' = "published" /\ text = "text"
        /\ row' = [row EXCEPT ![inHand] = "ready"] /\ UNCHANGED queued
    BY <1>6 DEF Publish, TypeOK
  <2>2. row'[inHand] = "ready" /\ \A j \in Key : j # inHand => row'[j] = row[j]
    BY <2>1 DEF TypeOK
  <2>. QED
    BY <1>6, <2>1, <2>2
<1>7. CASE Finish /\ UNCHANGED unfinished
  <2>1. /\ inHand \in Key /\ inHand' = 0 /\ queued' = [queued EXCEPT ![inHand] = FALSE]
        /\ UNCHANGED row
    BY <1>7 DEF Finish, LaysDown, TypeOK
  <2>. QED
    BY <1>7, <2>1 DEF TypeOK
<1>8. CASE BreaksOff
  <2>1. /\ inHand \in Key /\ inHand' = 0 /\ unfinished \subseteq unfinished'
        /\ text = "published" => inHand \in unfinished'
    BY <1>8 DEF BreaksOff, Interrupted, GivesUp, LaysDown, TypeOK
  <2>2. \A j \in Key : queued'[j] => queued[j] /\ row'[j] = row[j]
    BY <1>8 DEF BreaksOff, Interrupted, GivesUp, rowVars, TypeOK
  <2>. QED
    BY <2>1, <2>2
<1>9. CASE ReadObject /\ UNCHANGED unfinished
  BY <1>9 DEF ReadObject, rowVars
<1>10. CASE \/ \E r \in Request : \/ \E c \in Content : Choose(r, c)
                                  \/ \E k \in 1..(nextKey - 1) : Remove(r, k)
                                  \/ UploadAnswered(r) \/ RemovalAnswered(r)
            \/ Poll \/ ServerReads \/ Lands \/ LoadFails \/ UNCHANGED vars
  BY <1>1, <1>10
  DEF Choose, Upload, Remove, Delete, UploadAnswered, RemovalAnswered, Poll, ServerReads,
      Lands, LoadFails, vars, storeVars, rowVars, runVars
<1>. QED
  BY <1>4, <1>5, <1>6, <1>7, <1>8, <1>9, <1>10 DEF PageNext, RunUnseen

\* A run takes a document from unsettled to ready or failed, and back only if
\* it is unfinished.
LEMMA RunSettles ==
    ASSUME TypeOK, JobsAreUnsettled, RunUnseen \/ BreaksOff, NEW k \in Key
    PROVE  /\ row[k] = "deleted" => row'[k] = "deleted"
           /\ \/ ListNow'[k] = ListNow[k]
              \/ ListNow[k] = "settling" /\ ListNow'[k] \in {"ready", "failed"}
              \/ /\ ListNow[k] = "ready" /\ ListNow'[k] \in {"settling", "failed"}
                 /\ k \in unfinished'
<1>0. k # 0
  BY StoreAssumption DEF Key
<1>1. CASE row'[k] = row[k]
  BY <1>1 DEF ListNow
<1>2. CASE Unsettled(k) /\ (Unsettled(k)' \/ row'[k] \in {"ready", "failed"})
  BY <1>2, ListAt DEF Unsettled
<1>3. CASE row[k] = "ready" /\ k \in unfinished' /\ (Unsettled(k)' \/ row'[k] = "failed")
  BY <1>3, ListAt DEF Unsettled
<1>. DEFINE Settles ==
        \/ row'[k] = row[k]
        \/ Unsettled(k) /\ (Unsettled(k)' \/ row'[k] \in {"ready", "failed"})
        \/ row[k] = "ready" /\ k \in unfinished' /\ (Unsettled(k)' \/ row'[k] = "failed")
<1>4. CASE ReadObject \/ Finish \/ Interrupted
  BY <1>1, <1>4 DEF ReadObject, Finish, Interrupted, rowVars
<1>5. ASSUME NEW j \in Key, TakeJob(j), UNCHANGED unfinished PROVE Settles
  <2>1. CASE k # j
    <3>1. row'[k] = row[k]
      BY <1>5, <2>1 DEF TakeJob, TypeOK
    <3>. QED
      BY <3>1
  <2>2. CASE k = j
    <3>1. row'[k] = "processing" /\ queued[k] /\ inHand = 0
      BY <1>5, <2>2 DEF TakeJob, TypeOK
    <3>2. Unsettled(k) \/ (row[k] = "ready" /\ k \in unfinished)
      BY <1>0, <3>1 DEF JobsAreUnsettled, Published
    <3>. QED
      BY <1>5, <3>1, <3>2 DEF Unsettled
  <2>. QED
    BY <2>1, <2>2
<1>6. ASSUME Publish PROVE Settles
  <2>1. CASE k # inHand
    <3>1. row'[k] = row[k]
      BY <1>6, <2>1 DEF Publish, TypeOK
    <3>. QED
      BY <3>1
  <2>2. CASE k = inHand
    <3>1. row'[k] = "ready" /\ row[k] \in Status /\ text # "published"
      BY <1>6, <2>2 DEF Publish, TypeOK
    <3>2. Unsettled(k)
      BY <1>0, <2>2, <3>1 DEF JobsAreUnsettled, Published
    <3>. QED
      BY <3>1, <3>2
  <2>. QED
    BY <2>1, <2>2
<1>7. ASSUME BreaksOff, GivesUp PROVE Settles
  <2>1. CASE k # inHand
    <3>1. row'[k] = row[k]
      BY <1>7, <2>1 DEF GivesUp, TypeOK
    <3>. QED
      BY <3>1
  <2>2. CASE k = inHand
    <3>1. row'[k] = "failed" /\ row[k] \in Status /\ (text = "published" => k \in unfinished')
      BY <1>7, <2>2 DEF BreaksOff, GivesUp, TypeOK
    <3>2. Unsettled(k) \/ (row[k] = "ready" /\ text = "published")
      BY <1>0, <2>2, <3>1 DEF JobsAreUnsettled, Published
    <3>. QED
      BY <3>1, <3>2
  <2>. QED
    BY <2>1, <2>2
<1>. QED
  BY <1>1, <1>2, <1>3, <1>4, <1>5, <1>6, <1>7 DEF RunUnseen, BreaksOff

\* The invariant by its parts: what a request of the page is doing, and what an
\* untangled page knows.
LEMMA RequestsNext ==
    ASSUME TypeOK, StoreInv, PageTypeOK, PageInv, [PageNext]_vars, NEW r \in Request
    PROVE  /\ pc'[r] # "idle" => asked'[r] # "nothing"
           /\ asked'[r] = "removal" =>
                 /\ pc'[r] \in {"idle", "delete", "found", "erased"}
                 /\ pc'[r] # "idle" => key'[r] = target'[r]
<1>. DEFINE Goal ==
        /\ pc'[r] # "idle" => asked'[r] # "nothing"
        /\ asked'[r] = "removal" =>
              /\ pc'[r] \in {"idle", "delete", "found", "erased"}
              /\ pc'[r] # "idle" => key'[r] = target'[r]
<1>0. /\ pc[r] # "idle" => asked[r] # "nothing"
      /\ asked[r] = "removal" =>
            /\ pc[r] \in {"idle", "delete", "found", "erased"}
            /\ pc[r] # "idle" => key[r] = target[r]
  BY DEF PageInv
<1>1. ASSUME pc'[r] = pc[r], key'[r] = key[r], asked'[r] = asked[r], target'[r] = target[r]
      PROVE  Goal
  BY <1>0, <1>1
<1>2. CASE RunUnseen \/ BreaksOff
  <2>1. UNCHANGED reqVars /\ UNCHANGED <<asked, target>>
    BY <1>2, RunApart DEF pageVars
  <2>. QED
    BY <1>1, <2>1 DEF reqVars
<1>3. ASSUME NEW q \in Request, Serve(q), UNCHANGED pageVars PROVE Goal
  <2>1. CASE q = r
    <3>1. CASE Find(r) \/ EraseObject(r) \/ DeleteRow(r) \/ Dies(r)
      BY <1>0, <1>3, <3>1, GoesQuiet, EndsQuiet DEF Find, EraseObject, DeleteRow, Dies, pageVars
    <3>2. CASE pc[r] \in Inserting \cup {"upload", "unknown", "failed"}
      BY <1>0, <1>3, <3>2 DEF pageVars, PageTypeOK, Inserting
    <3>. QED
      BY <1>3, <2>1, <3>1, <3>2
      DEF Serve, LookUp, Requeue, CountRows, PutObject, InsertRow, Inserting
  <2>2. CASE q # r
    BY <1>1, <1>3, <2>2 DEF Serve, LookUp, Requeue, CountRows, PutObject, InsertRow, Find,
                            EraseObject, DeleteRow, Dies, Ends, Goes, pageVars, TypeOK
  <2>. QED
    BY <2>1, <2>2
<1>4. ASSUME NEW q \in Request, NEW c \in Content, Choose(q, c) PROVE Goal
  <2>1. CASE q = r
    BY <1>4, <2>1 DEF Choose, PageTypeOK
  <2>2. CASE q # r
    BY <1>1, <1>4, <2>2 DEF Choose, Upload, PageTypeOK, TypeOK
  <2>. QED
    BY <2>1, <2>2
<1>5. ASSUME NEW q \in Request, NEW k \in 1..(nextKey - 1), Remove(q, k) PROVE Goal
  <2>1. CASE q = r
    BY <1>5, <2>1 DEF Remove, Delete, PageTypeOK, TypeOK
  <2>2. CASE q # r
    BY <1>1, <1>5, <2>2 DEF Remove, Delete, PageTypeOK, TypeOK
  <2>. QED
    BY <2>1, <2>2
<1>6. ASSUME NEW q \in Request, UploadAnswered(q) \/ RemovalAnswered(q) PROVE Goal
  <2>1. /\ asked' = [asked EXCEPT ![q] = "nothing"] /\ target' = [target EXCEPT ![q] = 0]
        /\ UNCHANGED <<pc, key>> /\ pc[q] = "idle"
    BY <1>6 DEF UploadAnswered, RemovalAnswered, Forgets
  <2>. QED
    BY <1>0, <2>1 DEF PageTypeOK
<1>7. CASE Poll \/ ServerReads \/ Lands \/ LoadFails \/ UNCHANGED vars
  <2>1. UNCHANGED reqVars /\ UNCHANGED <<asked, target>>
    BY <1>7 DEF Poll, ServerReads, Lands, LoadFails, vars, pageVars, storeVars
  <2>. QED
    BY <1>1, <2>1 DEF reqVars
<1>. QED
  BY <1>2, <1>3, <1>4, <1>5, <1>6, <1>7 DEF PageNext

\* Nothing the page does beside a removal leaves it untangled.
LEMMA TangledBeside ==
    ASSUME Tangle, ~tangled', NEW r \in Request, asked'[r] = "removal"
    PROVE  /\ ~tangled /\ load' = "none"
           /\ \A q \in Request \ {r} : asked'[q] = "nothing"
  BY DEF Tangle

\* What an untangled page knows.
Knows ==
    /\ \A r \in Request : asked[r] = "removal" => Alone(r)
    /\ Quiet /\ load = "none" => \A k \in Key : Behind(list, k)
    /\ Quiet /\ load = "read" => \A k \in Key : Behind(copy, k)

\* The runner does a step.
LEMMA KnowsRun ==
    ASSUME TypeOK, PageTypeOK, PageInv, ~tangled, RunUnseen \/ BreaksOff
    PROVE  Knows'
<1>1. \A k \in Key : /\ row[k] = "deleted" => row'[k] = "deleted"
                     /\ \/ ListNow'[k] = ListNow[k]
                        \/ ListNow[k] = "settling" /\ ListNow'[k] \in {"ready", "failed"}
                        \/ /\ ListNow[k] = "ready" /\ ListNow'[k] \in {"settling", "failed"}
                           /\ k \in unfinished'
  BY RunSettles DEF PageInv
<1>3. /\ UNCHANGED <<pc, answer, list, load, copy, asked, target, captured>>
      /\ unfinished \subseteq unfinished'
  BY RunApart DEF reqVars, pageVars
<1>2. /\ \A k \in Key : Behind(list, k) => Behind(list, k)'
      /\ \A k \in Key : Behind(copy, k) => Behind(copy, k)'
  BY <1>1, <1>3 DEF Behind, TrueOf
<1>4. ASSUME NEW r \in Request, asked[r] = "removal" PROVE Alone(r)'
  <2>1. Alone(r)
    BY <1>4 DEF PageInv
  <2>. QED
    BY <1>1, <1>2, <1>3, <2>1 DEF Alone
<1>. QED
  BY <1>2, <1>3, <1>4 DEF Knows, PageInv, Quiet

\* A request of the page does a step: it is the removal, or there is none.
LEMMA KnowsServe ==
    ASSUME TypeOK, StoreInv, PageTypeOK, PageInv, ~tangled,
           NEW r \in Request, Serve(r), UNCHANGED <<pageVars, unfinished>>
    PROVE  Knows'
<1>1. pc[r] # "idle" /\ asked[r] # "nothing"
  BY DEF Serve, LookUp, Requeue, CountRows, PutObject, InsertRow, Find, EraseObject, DeleteRow,
         Dies, PageInv
<1>2. ~Quiet'
  BY <1>1 DEF Quiet, pageVars
<1>3. ASSUME NEW q \in Request, asked[q] = "removal" PROVE Alone(q)'
  <2>1. Alone(q)
    BY <1>3 DEF PageInv
  <2>2. q = r
    BY <1>1, <2>1 DEF Alone
  <2>3. pc[r] \in {"delete", "found", "erased"} /\ key[r] = target[r]
    BY <1>1, <1>3, <2>2 DEF PageInv
  <2>4. \A k \in Key : Behind(list, k)
    BY <1>1, <2>1, <2>2 DEF Alone
  <2>5. CASE UNCHANGED row /\ (pc'[r] # "idle" \/ answer'[r] # "done")
    <3>1. \A k \in Key : Behind(list, k)'
      BY <2>4, <2>5 DEF Behind, TrueOf, ListNow, pageVars
    <3>. QED
      BY <2>1, <2>2, <2>5, <3>1 DEF Alone, pageVars
  <2>6. CASE DeleteRow(r)
    <3>1. /\ row' = [row EXCEPT ![target[r]] = "deleted"] /\ target[r] \in Key
          /\ pc'[r] = "idle" /\ answer'[r] = "done"
      BY <2>3, <2>6, KeyInHand DEF DeleteRow, Ends, TypeOK
    <3>2. row'[target[r]] = "deleted" /\ \A k \in Key : k # target[r] => row'[k] = row[k]
      BY <3>1 DEF TypeOK
    <3>3. \A k \in Key : k # target[r] => Behind(list, k)'
      BY <2>4, <3>2 DEF Behind, TrueOf, ListNow, pageVars
    <3>. QED
      BY <2>1, <2>2, <3>1, <3>2, <3>3 DEF Alone, pageVars
  <2>7. CASE Find(r) \/ EraseObject(r) \/ Dies(r)
    BY <2>5, <2>7 DEF Find, EraseObject, Dies, rowVars, Goes, Ends, TypeOK
  <2>. QED
    BY <2>3, <2>6, <2>7 DEF Serve, LookUp, Requeue, CountRows, PutObject, InsertRow
<1>. QED
  BY <1>2, <1>3 DEF Knows, pageVars

\* Every step of an untangled page keeps what it knows.
LEMMA KnowsNext ==
    ASSUME TypeOK, StoreInv, PageTypeOK, PageInv, [PageNext]_vars, ~tangled'
    PROVE  Knows'
<1>1. ~tangled
  BY DEF PageNext, RunUnseen, BreaksOff, Choose, Remove, UploadAnswered, RemovalAnswered, Poll, ServerReads, Lands,
         LoadFails, Tangle, vars, pageVars
<1>2. Knows
  BY <1>1 DEF PageInv, Knows
<1>3. CASE RunUnseen \/ BreaksOff
  BY <1>1, <1>3, KnowsRun
<1>4. ASSUME NEW r \in Request, Serve(r), UNCHANGED <<pageVars, unfinished>> PROVE Knows'
  BY <1>1, <1>4, KnowsServe
<1>5. ASSUME NEW r \in Request, NEW c \in Content, Choose(r, c) PROVE Knows'
  <2>1. Tangle /\ asked'[r] = "upload"
    BY <1>5 DEF Choose, PageTypeOK
  <2>2. \A q \in Request : asked'[q] # "removal"
    BY <2>1, TangledBeside
  <2>. QED
    BY <2>1, <2>2 DEF Knows, Quiet
<1>6. ASSUME NEW r \in Request, NEW k \in 1..(nextKey - 1), Remove(r, k) PROVE Knows'
  <2>1. /\ Tangle /\ asked[r] = "nothing" /\ asked' = [asked EXCEPT ![r] = "removal"]
        /\ captured'[r] = list /\ pc'[r] # "idle"
        /\ UNCHANGED <<row, list, load, unfinished>>
    BY <1>6 DEF Remove, Delete, rowVars, PageTypeOK, TypeOK
  <2>2. asked'[r] = "removal" /\ \A q \in Request \ {r} : asked'[q] = asked[q]
    BY <2>1 DEF PageTypeOK
  <2>3. load' = "none" /\ \A q \in Request \ {r} : asked'[q] = "nothing"
    BY <2>1, <2>2, TangledBeside
  <2>4. \A k_1 \in Key : Behind(list, k_1)
    BY <1>2, <2>1, <2>2, <2>3 DEF Knows, Quiet
  <2>5. \A k_1 \in Key : Behind(list, k_1)'
    BY <2>1, <2>4 DEF Behind, TrueOf, ListNow
  <2>6. Alone(r)'
    BY <2>1, <2>3, <2>5 DEF Alone
  <2>. QED
    BY <2>2, <2>3, <2>6 DEF Knows, Quiet
<1>7. ASSUME NEW r \in Request, UploadAnswered(r) PROVE Knows'
  BY <1>7, TangledBeside DEF UploadAnswered, StartsLoad, Knows
<1>8. ASSUME NEW r \in Request, RemovalAnswered(r) PROVE Knows'
  <2>1. /\ Alone(r) /\ pc[r] = "idle" /\ UNCHANGED <<row, load, copy, unfinished>>
        /\ asked' = [asked EXCEPT ![r] = "nothing"]
    BY <1>2, <1>8 DEF RemovalAnswered, Forgets, rowVars, Knows
  <2>2. \A q \in Request : asked'[q] = "nothing"
    BY <2>1 DEF Alone, PageTypeOK
  <2>3. ASSUME NEW k \in Key PROVE Behind(list, k)'
    <3>1. ListNow'[k] = ListNow[k]
      BY <2>1 DEF ListNow
    <3>2. CASE answer[r] = "done" /\ k = target[r]
      <4>1. ListNow[k] = "absent"
        BY <2>1, <3>2, ListAt DEF Alone, Status
      <4>2. list'[k] = "absent"
        BY <1>8, <3>2 DEF RemovalAnswered, PageTypeOK, Shown
      <4>. QED
        BY <2>1, <3>1, <4>1, <4>2 DEF Behind, TrueOf
    <3>3. CASE answer[r] # "done" \/ k # target[r]
      <4>1. Behind(list, k)
        BY <2>1, <3>3 DEF Alone
      <4>2. list'[k] = list[k]
        BY <1>8, <2>1, <3>3 DEF RemovalAnswered, PageTypeOK, Shown, Alone
      <4>. QED
        BY <2>1, <3>1, <4>1, <4>2 DEF Behind, TrueOf
    <3>. QED
      BY <3>2, <3>3
  <2>4. load' = "none"
    BY <2>1 DEF Alone
  <2>. QED
    BY <2>2, <2>3, <2>4 DEF Knows
<1>9. CASE Poll
  BY <1>9, TangledBeside DEF Poll, StartsLoad, Knows
<1>10. CASE ServerReads
  <2>1. load = "sent" /\ copy' = ListNow /\ load' = "read" /\ UNCHANGED <<row, asked>>
    BY <1>10 DEF ServerReads, storeVars, rowVars
  <2>2. \A k \in Key : Behind(copy, k)'
    BY <2>1 DEF Behind, TrueOf, ListNow
  <2>3. \A r \in Request : asked'[r] # "removal"
    BY <1>2, <2>1 DEF Knows, Alone
  <2>. QED
    BY <2>1, <2>2, <2>3 DEF Knows
<1>11. CASE Lands
  <2>1. load = "read" /\ list' = copy /\ load' = "none" /\ UNCHANGED <<row, asked, unfinished>>
    BY <1>11 DEF Lands, storeVars, rowVars
  <2>2. Quiet' => \A k \in Key : Behind(list, k)'
    BY <1>2, <2>1 DEF Behind, TrueOf, ListNow, Knows, Quiet
  <2>3. \A r \in Request : asked'[r] # "removal"
    BY <1>2, <2>1 DEF Knows, Alone
  <2>. QED
    BY <2>1, <2>2, <2>3 DEF Knows
<1>12. CASE LoadFails
  BY <1>12 DEF LoadFails
<1>13. CASE UNCHANGED vars
  BY <1>2, <1>13
  DEF vars, storeVars, rowVars, reqVars, pageVars, Knows, Quiet, Alone, Behind, TrueOf, ListNow
<1>. QED
  BY <1>3, <1>4, <1>5, <1>6, <1>7, <1>8, <1>9, <1>10, <1>11, <1>12, <1>13 DEF PageNext

LEMMA PageInvInit == PageInit => PageInv
<1>. SUFFICES ASSUME PageInit PROVE PageInv
  OBVIOUS
<1>1. /\ row = [k \in Key |-> "absent"] /\ queued = [k \in Key |-> FALSE] /\ inHand = 0
      /\ pc = [r \in Request |-> "idle"] /\ asked = [r \in Request |-> "nothing"]
      /\ load = "sent"
  BY DEF PageInit, Init
<1>. QED
  BY <1>1 DEF PageInv, JobsAreUnsettled

LEMMA PageInvNext ==
    TypeOK /\ StoreInv /\ PageTypeOK /\ PageInv /\ [PageNext]_vars => PageInv'
<1>. SUFFICES ASSUME TypeOK, StoreInv, PageTypeOK, PageInv, [PageNext]_vars PROVE PageInv'
  OBVIOUS
<1>1. JobsAreUnsettled'
  BY JobsNext DEF PageInv
<1>2. ~tangled' => Knows'
  BY KnowsNext
<1>. QED
  BY <1>1, <1>2, RequestsNext DEF PageInv, Knows

\* The documents page comes to rest only on a list that is the server's, unless
\* a load failed, a removal overlapped something else it was waiting for, or a
\* run made a document ready, did not complete its job, and the job was taken up
\* again: then the page may rest on ready for that document.
THEOREM PageRestsOnTruth == PageSpec => []RestsOnTruth
<1>1. PageInit => TypeOK /\ StoreInv /\ PageTypeOK /\ PageInv
  BY TypeInit, StoreInit, PageTypeInit, PageInvInit DEF PageInit
<1>2. TypeOK /\ StoreInv /\ PageTypeOK /\ PageInv /\ [PageNext]_vars
        => (TypeOK /\ StoreInv /\ PageTypeOK /\ PageInv)'
  BY StoreUnderPage, PageTypeNext, PageInvNext
<1>3. ASSUME PageTypeOK, PageInv PROVE RestsOnTruth
  <2>. SUFFICES ASSUME ~tangled, ~Settling(list), load = "none",
                       \A r \in Request : asked[r] = "nothing"
       PROVE  \A k \in Key : TrueOf(list, k)
    BY DEF RestsOnTruth
  <2>. QED
    BY <1>3 DEF PageInv, Quiet, Behind, Settling
<1>. QED
  BY <1>1, <1>2, <1>3, PTL DEF PageSpec

===============================================================================
