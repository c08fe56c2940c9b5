----------------------------- MODULE DocumentStore -----------------------------
(***************************************************************************)
(* A document lives in two places: a row of documents in Postgres and an   *)
(* object in the store.  No transaction spans both, so upload_document and *)
(* delete_document each pick an order, and whatever ends a request between *)
(* the two steps leaves one half behind.                                   *)
(*                                                                         *)
(* One action is one statement or one call of the store: between any two   *)
(* of them another request runs, or this one dies.  A storage key holds a  *)
(* fresh uuid, so keys are numbers given out in order, and a row is named  *)
(* by its key.  Content stands for the bytes and for their SHA-256 hash.   *)
(***************************************************************************)
EXTENDS Naturals, FiniteSets

CONSTANTS
    Content,       \* files a user may upload that pass validate_upload
    BadContent,    \* the ones among them that have no text to extract
    Request,       \* upload and delete requests that may be in flight
    MaxDocuments,  \* MAX_DOCUMENTS_PER_WORKSPACE
    MaxKeys,       \* bound: storage keys ever made
    MaxFaults      \* bound: crashes, failed calls of the store

ASSUME StoreAssumption ==
    /\ Content # {}
    /\ BadContent \subseteq Content
    /\ IsFiniteSet(Request)
    /\ MaxDocuments \in Nat \ {0}
    /\ MaxKeys \in Nat
    /\ MaxFaults \in Nat

VARIABLES
    row,       \* Document.status, "absent" before and "deleted" after the row
    content,   \* Document.content_hash, and the bytes under the key
    object,    \* has the store something under the key?
    queued,    \* is there a live ingestion job for the row?
    nextKey,   \* the next storage key
    inHand,    \* the document a runner is ingesting, 0 for none
    text,      \* how far it is: unread, its text or nothing extracted, published
    pc,        \* where each request is
    file,      \* the bytes an upload carries
    key,       \* the document or storage key a request works on
    answer,    \* what the client of the request was told last
    faults,    \* faults so far, against MaxFaults
    collided,  \* keys whose insert lost against the unique constraint
    condemned  \* keys some request has set out to delete

rowVars == <<row, content, queued>>
reqVars == <<pc, file, key, answer>>
runVars == <<inHand, text>>
storeVars == <<rowVars, object, nextKey, runVars, reqVars, faults, collided, condemned>>

Key      == 1..MaxKeys
Status   == {"pending", "processing", "ready", "failed"}
Inserting == {"admitted", "stored"}

LiveRows == {k \in Key : row[k] \in Status}

TypeOK ==
    /\ row \in [Key -> Status \cup {"absent", "deleted"}]
    /\ content \in [Key -> Content]
    /\ object \in [Key -> BOOLEAN]
    /\ queued \in [Key -> BOOLEAN]
    /\ nextKey \in 1..(MaxKeys + 1)
    /\ inHand \in Key \cup {0}
    /\ text \in {"unread", "text", "nothing", "published"}
    /\ pc \in [Request -> Inserting \cup {"idle", "upload", "unknown", "failed",
                                          "delete", "found", "erased"}]
    /\ file \in [Request -> Content]
    /\ key \in [Request -> Key \cup {0}]
    /\ answer \in [Request -> {"none", "done", "refused"}]
    /\ faults \in 0..MaxFaults
    /\ collided \in SUBSET Key
    /\ condemned \in SUBSET Key

-------------------------------------------------------------------------------
(* How a request moves.                                                      *)

AnyContent == CHOOSE c \in Content : TRUE

\* The end of a request, and whether its client gets a 2xx answer.
Ends(r, told) ==
    /\ pc' = [pc EXCEPT ![r] = "idle"]
    /\ file' = [file EXCEPT ![r] = AnyContent]
    /\ key' = [key EXCEPT ![r] = 0]
    /\ answer' = [answer EXCEPT ![r] = told]

Goes(r, where) ==
    /\ pc' = [pc EXCEPT ![r] = where]
    /\ UNCHANGED <<file, key, answer>>

Fault == faults < MaxFaults /\ faults' = faults + 1

-------------------------------------------------------------------------------
(* Mistakes the code could have made in the definitions below.               *)

\* A put whose failure nobody looks at.
PutObjectUnchecked(r) ==
    /\ pc[r] = "admitted"
    /\ object' \in {object, [object EXCEPT ![key[r]] = TRUE]}
    /\ Goes(r, "stored")
    /\ UNCHANGED <<rowVars, nextKey, runVars, faults, collided, condemned>>

\* A deletion that leaves the bytes to the database's cascade.
EraseNothing(r) ==
    /\ pc[r] = "found"
    /\ Goes(r, "erased")
    /\ UNCHANGED <<rowVars, object, nextKey, runVars, faults, collided, condemned>>

\* More than the limit, rather than at it.
PastLimit == Cardinality(LiveRows) > MaxDocuments

-------------------------------------------------------------------------------
(* A request, statement by statement.                                        *)

\* A client sends a file, or asks for a document to be deleted.
Upload(r, c) ==
    /\ pc[r] = "idle"
    /\ pc' = [pc EXCEPT ![r] = "upload"]
    /\ file' = [file EXCEPT ![r] = c]
    /\ answer' = [answer EXCEPT ![r] = "none"]
    /\ UNCHANGED <<rowVars, object, nextKey, runVars, key, faults, collided, condemned>>

Delete(r, k) ==
    /\ pc[r] = "idle"
    /\ pc' = [pc EXCEPT ![r] = "delete"]
    /\ key' = [key EXCEPT ![r] = k]
    /\ answer' = [answer EXCEPT ![r] = "none"]
    /\ UNCHANGED <<rowVars, object, nextKey, runVars, file, faults, collided, condemned>>

\* The select by content hash.  Known bytes are answered at once, unless the
\* row says that their ingestion failed: then it is queued again.
LookUp(r) ==
    /\ pc[r] = "upload"
    /\ LET known == {k \in LiveRows : content[k] = file[r]} IN
       \/ known = {} /\ Goes(r, "unknown")
       \/ \E k \in known :
            \/ row[k] # "failed" /\ Ends(r, "done")
            \/ /\ row[k] = "failed"
               /\ pc' = [pc EXCEPT ![r] = "failed"]
               /\ key' = [key EXCEPT ![r] = k]
               /\ UNCHANGED <<file, answer>>
    /\ UNCHANGED <<rowVars, object, nextKey, runVars, faults, collided, condemned>>

\* The failed row becomes pending with a fresh job; a row deleted meanwhile
\* makes the flush fail, and the request with it.
Requeue(r) ==
    /\ pc[r] = "failed"
    /\ IF row[key[r]] \in Status
       THEN /\ row' = [row EXCEPT ![key[r]] = "pending"]
            /\ queued' = [queued EXCEPT ![key[r]] = TRUE]
            /\ Ends(r, "done")
       ELSE Ends(r, "refused") /\ UNCHANGED <<row, queued>>
    /\ UNCHANGED <<content, object, nextKey, runVars, faults, collided, condemned>>

\* The select count(*), the limit, and the storage key.
AtLimit == Cardinality(LiveRows) >= MaxDocuments

CountRows(r) ==
    /\ pc[r] = "unknown"
    /\ IF AtLimit
       THEN Ends(r, "refused") /\ UNCHANGED <<nextKey, content>>
       ELSE /\ nextKey <= MaxKeys
            /\ nextKey' = nextKey + 1
            /\ content' = [content EXCEPT ![nextKey] = file[r]]
            /\ pc' = [pc EXCEPT ![r] = "admitted"]
            /\ key' = [key EXCEPT ![r] = nextKey]
            /\ UNCHANGED <<file, answer>>
    /\ UNCHANGED <<row, queued, object, runVars, faults, collided, condemned>>

\* store.put, before there is a row.
PutObject(r) ==
    /\ pc[r] = "admitted"
    /\ object' = [object EXCEPT ![key[r]] = TRUE]
    /\ Goes(r, "stored")
    /\ UNCHANGED <<rowVars, nextKey, runVars, faults, collided, condemned>>

\* Row and job in one transaction.  The unique constraint on workspace and
\* hash refuses the second of two equal files: an error no code handles.
InsertRow(r) ==
    /\ pc[r] = "stored"
    /\ IF \E k \in LiveRows : content[k] = file[r]
       THEN /\ collided' = collided \cup {key[r]}
            /\ Ends(r, "refused")
            /\ UNCHANGED <<row, queued>>
       ELSE /\ row' = [row EXCEPT ![key[r]] = "pending"]
            /\ queued' = [queued EXCEPT ![key[r]] = TRUE]
            /\ Ends(r, "done")
            /\ UNCHANGED collided
    /\ UNCHANGED <<content, object, nextKey, runVars, faults, condemned>>

\* get_document.
Find(r) ==
    /\ pc[r] = "delete"
    /\ IF row[key[r]] \in Status
       THEN Goes(r, "found") /\ condemned' = condemned \cup {key[r]}
       ELSE Ends(r, "refused") /\ UNCHANGED condemned
    /\ UNCHANGED <<rowVars, object, nextKey, runVars, faults, collided>>

\* store.delete, which does not mind an object that is gone already.
EraseObject(r) ==
    /\ pc[r] = "found"
    /\ object' = [object EXCEPT ![key[r]] = FALSE]
    /\ Goes(r, "erased")
    /\ UNCHANGED <<rowVars, nextKey, runVars, faults, collided, condemned>>

\* The row goes, and its jobs and chunks with it by ON DELETE CASCADE.
DeleteRow(r) ==
    /\ pc[r] = "erased"
    /\ row' = [row EXCEPT ![key[r]] = "deleted"]
    /\ queued' = [queued EXCEPT ![key[r]] = FALSE]
    /\ Ends(r, "done")
    /\ UNCHANGED <<content, object, nextKey, runVars, faults, collided, condemned>>

\* The process dies, the connection breaks or the store refuses, and the
\* request ends where it stands.  Nothing it has done outside a transaction
\* is undone; a put that is reported as failed may have stored the object.
Dies(r) ==
    /\ pc[r] # "idle"
    /\ Fault
    /\ \/ UNCHANGED object
       \/ pc[r] = "admitted" /\ object' = [object EXCEPT ![key[r]] = TRUE]
       \/ pc[r] = "found" /\ object' = [object EXCEPT ![key[r]] = FALSE]
    /\ Ends(r, "refused")
    /\ UNCHANGED <<rowVars, nextKey, runVars, collided, condemned>>

-------------------------------------------------------------------------------
(* The runner, reduced to what it does to the row and reads from the store.  *)
(* IngestionQueue has it in full.                                            *)

\* The claim and the first commit of the run in one: a run that ends between
\* the two leaves the row like one that never began, or fails it like any other.
TakeJob(k) ==
    /\ inHand = 0
    /\ queued[k]
    /\ row' = [row EXCEPT ![k] = "processing"]
    /\ inHand' = k
    /\ UNCHANGED <<content, object, queued, nextKey, text, reqVars, faults, collided,
                   condemned>>

\* store.get and the extraction: no object and no text end the same way.
ReadObject ==
    /\ inHand # 0 /\ text = "unread"
    /\ text' = IF object[inHand] /\ content[inHand] \notin BadContent
               THEN "text" ELSE "nothing"
    /\ UNCHANGED <<rowVars, object, nextKey, inHand, reqVars, faults, collided, condemned>>

\* The chunks go in with the transaction that makes the row ready; to a row
\* that was deleted meanwhile there is nothing to write, and the run fails.
Publish ==
    /\ inHand # 0 /\ text = "text"
    /\ row[inHand] \in Status
    /\ row' = [row EXCEPT ![inHand] = "ready"]
    /\ text' = "published"
    /\ UNCHANGED <<content, object, queued, nextKey, inHand, reqVars, faults, collided,
                   condemned>>

LaysDown == inHand' = 0 /\ text' = "unread"

\* The job is completed, in a transaction after that of Publish.
Finish ==
    /\ inHand # 0 /\ text = "published"
    /\ queued' = [queued EXCEPT ![inHand] = FALSE]
    /\ LaysDown
    /\ UNCHANGED <<row, content, object, nextKey, reqVars, faults, collided, condemned>>

\* Anything in a run may raise, the completion of the job as well, and anywhere
\* in it the process may be shut down or crash.  The job is there for another
\* run, and the row is what it was.
Interrupted ==
    /\ inHand # 0
    /\ LaysDown
    /\ UNCHANGED <<rowVars, object, nextKey, reqVars, faults, collided, condemned>>

\* The run that raised was the last attempt, and the row says so.
GivesUp ==
    /\ inHand # 0 /\ row[inHand] \in Status
    /\ row' = [row EXCEPT ![inHand] = "failed"]
    /\ queued' = [queued EXCEPT ![inHand] = FALSE]
    /\ LaysDown
    /\ UNCHANGED <<content, object, nextKey, reqVars, faults, collided, condemned>>

-------------------------------------------------------------------------------

Init ==
    /\ row = [k \in Key |-> "absent"]
    /\ content = [k \in Key |-> AnyContent]
    /\ object = [k \in Key |-> FALSE]
    /\ queued = [k \in Key |-> FALSE]
    /\ nextKey = 1
    /\ inHand = 0
    /\ text = "unread"
    /\ pc = [r \in Request |-> "idle"]
    /\ file = [r \in Request |-> AnyContent]
    /\ key = [r \in Request |-> 0]
    /\ answer = [r \in Request |-> "none"]
    /\ faults = 0
    /\ collided = {}
    /\ condemned = {}

\* What the server does by itself, and what a client may send.
Serve(r) ==
    \/ LookUp(r) \/ Requeue(r) \/ CountRows(r) \/ PutObject(r) \/ InsertRow(r)
    \/ Find(r) \/ EraseObject(r) \/ DeleteRow(r) \/ Dies(r)

Run ==
    \/ ReadObject \/ Publish \/ Finish \/ Interrupted \/ GivesUp
    \/ \E k \in Key : TakeJob(k)

Next ==
    \/ Run
    \/ \E r \in Request :
        \/ Serve(r)
        \/ \E c \in Content : Upload(r, c)
        \/ \E k \in 1..(nextKey - 1) : Delete(r, k)

Spec == Init /\ [][Next]_storeVars
-------------------------------------------------------------------------------
(* What should hold.                                                         *)

Stored == {k \in Key : object[k]}

\* A row never points at an object that was never written, and loses its
\* object only to a request to delete the document: the reason why
\* upload_document stores first and inserts second.
RowHasObject == \A k \in LiveRows : object[k] \/ k \in condemned

\* An object nobody can reach any more, and a document that has lost its bytes
\* while no deletion is there to take the row as well.
Orphans == {k \in Stored : /\ row[k] \notin Status
                           /\ \A r \in Request : key[r] = k => pc[r] # "stored"}
Headless == {k \in LiveRows : /\ ~object[k]
                              /\ \A r \in Request : key[r] = k => pc[r] # "erased"}
Halves == Orphans \cup Headless

\* Every half of a document has its one excuse: a fault, or an insert that lost
\* to an equal file.  Refusing, deduplicating and deleting leave none behind.
HalvesAreExcused == Cardinality(Halves) <= faults + Cardinality(collided)

\* The limit is read in one statement and used in a later one.  Uploads that
\* pass it together overshoot by one document each, all but the first.
LimitOvershoot == Cardinality(LiveRows) <= MaxDocuments + Cardinality(Request) - 1

-------------------------------------------------------------------------------
(* The inductive invariants behind RowHasObject and LimitOvershoot.          *)

\* What a request has in hand: a key that was given out, of a row that is yet
\* to come for an upload, and of one that is or was there for the others.
InHandInv ==
    \A r \in Request :
        /\ pc[r] \in Inserting => key[r] \in 1..(nextKey - 1) /\ row[key[r]] = "absent"
        /\ pc[r] = "stored" => object[key[r]]
        /\ pc[r] \in {"failed", "delete", "found", "erased"} => key[r] \in 1..(nextKey - 1)
        /\ pc[r] \in {"failed", "found", "erased"} => row[key[r]] # "absent"
        /\ pc[r] \in {"found", "erased"} => key[r] \in condemned

\* No row has a key that was not given out, and no two uploads have one key.
FreshKeys == \A k \in Key : k >= nextKey => row[k] = "absent"
KeysApart ==
    \A q, r \in Request :
        pc[q] \in Inserting /\ pc[r] \in Inserting /\ key[q] = key[r] => q = r

\* Only a row has a job: the cascade of the foreign key.
JobsHaveRows == \A k \in Key : queued[k] => row[k] \in Status

StoreInv == RowHasObject /\ InHandInv /\ FreshKeys /\ KeysApart /\ JobsHaveRows

Admitted == {r \in Request : pc[r] \in Inserting}

LimitInv ==
    Cardinality(LiveRows) + Cardinality(Admitted) <= MaxDocuments + Cardinality(Request) - 1

\* Keys that lost an insert are in nobody's hands, and the object of a deletion
\* under way stays gone: no key's object outlives its row or its excuse twice.
ExcuseInv ==
    /\ \A k \in collided : k < nextKey
    /\ \A r \in Request : /\ pc[r] \in Inserting => key[r] \notin collided
                          /\ pc[r] = "erased" => ~object[key[r]]
    /\ HalvesAreExcused
================================================================================
