------------------------------ MODULE MCStartup ------------------------------
(* An instance of Startup for TLC, and what the README says of a boot.        *)
EXTENDS Startup

\* README.md:159-160: migrations run on boot, "so there is no separate `alembic
\* upgrade head` step": a process that migrates on boot and serves has brought
\* the database to the revision its code needs.
ServesAtHead == \A p \in Migrating : boot[p] = "serving" => schema >= Latest
==============================================================================
