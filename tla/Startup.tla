-------------------------------- MODULE Startup --------------------------------
(***************************************************************************)
(* The lifespan of the API's processes over one database: the boot         *)
(* migration behind an advisory lock, the checkpointer's own tables, the   *)
(* ingestion runner, and the way down again.  Processes overlap (a deploy  *)
(* starts the new one before it stops the old one) and crash anywhere.     *)
(*                                                                         *)
(* Postgres, SQLAlchemy and Alembic are modelled as the code meets them: a *)
(* session holds its advisory locks until it ends; the first statement of  *)
(* a connection begins its transaction, and closing the connection rolls   *)
(* back what nobody has committed; and Alembic leaves a transaction that   *)
(* was open before it was configured to whoever opened it.                 *)
(***************************************************************************)
EXTENDS Naturals

CONSTANTS
    Process,      \* instances of the service
    NoProcess,
    Migrating,    \* those with run_migrations_on_startup
    Working,      \* those with ingestion_worker_enabled
    Latest        \* the revision the code needs, from 0 for an empty database

ASSUME StartupAssumption ==
    /\ NoProcess \notin Process
    /\ Migrating \subseteq Process /\ Working \subseteq Process
    /\ Latest \in Nat

VARIABLES
    boot,         \* how far each process has come
    lock,         \* the session that holds MIGRATION_ADVISORY_LOCK_KEY
    schema,       \* alembic_version, as committed
    upgraded,     \* the revision in the process's own transaction
    tables,       \* the checkpoint tables exist
    saver,        \* the process's checkpointer and its pool
    runner        \* the process's ingestion task

bootVars == <<boot, lock, schema, upgraded, tables, saver, runner>>

Boot == {"down", "waiting", "upgrading", "upgraded", "aborted", "unlocked",
         "preparing", "serving", "stopping"}

Holding == {"upgrading", "upgraded", "aborted"}

Goes(p, from, to) == boot[p] = from /\ boot' = [boot EXCEPT ![p] = to]

-------------------------------------------------------------------------------

\* The process starts and connects; it asks for the lock unless it has been
\* told not to migrate.
Start(p) ==
    /\ Goes(p, "down", IF p \in Migrating THEN "waiting" ELSE "preparing")
    /\ UNCHANGED <<lock, schema, upgraded, tables, saver, runner>>

\* A mistake the code could have made in the definition below: asking without
\* waiting, and going on whatever the answer is.
LockIfFree(p) ==
    /\ Goes(p, "waiting", "upgrading")
    /\ lock' = IF lock = NoProcess THEN p ELSE lock
    /\ upgraded' = [upgraded EXCEPT ![p] = schema]
    /\ UNCHANGED <<schema, tables, saver, runner>>

\* pg_advisory_lock: it waits, and its transaction is open from here on.
Lock(p) ==
    /\ lock = NoProcess
    /\ Goes(p, "waiting", "upgrading")
    /\ lock' = p
    /\ upgraded' = [upgraded EXCEPT ![p] = schema]
    /\ UNCHANGED <<schema, tables, saver, runner>>

\* command.upgrade, one revision at a time.  A second transaction that changes
\* the schema waits for the first one's to end, and finds everything there if
\* that one was committed: then it can only fail.
Revision(p) ==
    /\ boot[p] = "upgrading" /\ schema <= upgraded[p] /\ upgraded[p] < Latest
    /\ \A q \in Process \ {p} : upgraded[q] <= schema
    /\ upgraded' = [upgraded EXCEPT ![p] = @ + 1]
    /\ UNCHANGED <<boot, lock, schema, tables, saver, runner>>

UpgradeDone(p) ==
    /\ upgraded[p] >= Latest
    /\ Goes(p, "upgrading", "upgraded")
    /\ UNCHANGED <<lock, schema, upgraded, tables, saver, runner>>

\* A revision fails: the transaction is aborted.
UpgradeFails(p) ==
    /\ Goes(p, "upgrading", "aborted")
    /\ UNCHANGED <<lock, schema, upgraded, tables, saver, runner>>

\* The finally clause.  In an aborted transaction the unlock is refused too.
Unlock(p) ==
    /\ Goes(p, "upgraded", "unlocked")
    /\ lock' = NoProcess
    /\ UNCHANGED <<schema, upgraded, tables, saver, runner>>

\* What becomes of a session that is closed: NullPool closes the connection.
SessionEnds(p) ==
    /\ lock' = IF lock = p THEN NoProcess ELSE lock
    /\ upgraded' = [upgraded EXCEPT ![p] = 0]

\* The connection goes back, and nothing has committed its transaction.
Close(p) ==
    /\ Goes(p, "unlocked", "preparing")
    /\ SessionEnds(p)
    /\ UNCHANGED <<schema, tables, saver, runner>>

\* The error goes up through the lifespan, and the process exits.
CloseAborted(p) ==
    /\ Goes(p, "aborted", "down")
    /\ SessionEnds(p)
    /\ UNCHANGED <<schema, tables, saver, runner>>

\* setup_checkpointer on a connection that commits every statement, and then
\* the runner.
Serve(p) ==
    /\ Goes(p, "preparing", "serving")
    /\ tables' = TRUE
    /\ saver' = [saver EXCEPT ![p] = TRUE]
    /\ runner' = [runner EXCEPT ![p] = p \in Working]
    /\ UNCHANGED <<lock, schema, upgraded>>

\* The way down: first the runner, then the checkpointer.
StopRunner(p) ==
    /\ Goes(p, "serving", "stopping")
    /\ runner' = [runner EXCEPT ![p] = FALSE]
    /\ UNCHANGED <<lock, schema, upgraded, tables, saver>>

CloseSaver(p) ==
    /\ Goes(p, "stopping", "down")
    /\ saver' = [saver EXCEPT ![p] = FALSE]
    /\ UNCHANGED <<lock, schema, upgraded, tables, runner>>

Crash(p) ==
    /\ boot[p] # "down"
    /\ boot' = [boot EXCEPT ![p] = "down"]
    /\ SessionEnds(p)
    /\ saver' = [saver EXCEPT ![p] = FALSE]
    /\ runner' = [runner EXCEPT ![p] = FALSE]
    /\ UNCHANGED <<schema, tables>>

\* "alembic upgrade head" by hand or in CI: a connection of its own on which
\* env.py begins the transaction, so it is committed, and no advisory lock.
UpgradeByHand ==
    /\ schema < Latest
    /\ \A p \in Process : upgraded[p] <= schema
    /\ schema' = Latest
    /\ UNCHANGED <<boot, lock, upgraded, tables, saver, runner>>

BootInit ==
    /\ boot = [p \in Process |-> "down"]
    /\ lock = NoProcess
    /\ schema = 0
    /\ upgraded = [p \in Process |-> 0]
    /\ tables = FALSE
    /\ saver = [p \in Process |-> FALSE]
    /\ runner = [p \in Process |-> FALSE]

BootNext ==
    \/ \E p \in Process :
        \/ Start(p) \/ Lock(p) \/ Revision(p) \/ UpgradeDone(p) \/ UpgradeFails(p)
        \/ Unlock(p) \/ Close(p) \/ CloseAborted(p) \/ Serve(p)
        \/ StopRunner(p) \/ CloseSaver(p) \/ Crash(p)
    \/ UpgradeByHand

BootSpec == BootInit /\ [][BootNext]_bootVars

-------------------------------------------------------------------------------

\* Two processes never run command.upgrade at the same time, whichever of them
\* crashes or fails in the middle of its own; and a lock is never left behind
\* by a process that is not in there.
OneUpgradeAtATime ==
    /\ \A p, q \in Process : boot[p] \in Holding /\ boot[q] \in Holding => p = q
    /\ lock # NoProcess => boot[lock] \in Holding
===============================================================================
