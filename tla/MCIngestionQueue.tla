--------------------------- MODULE MCIngestionQueue ---------------------------
(* Instances of IngestionQueue for TLC.                                      *)
EXTENDS IngestionQueue, TLC

\* Documents, workers and requests are interchangeable; jobs are not, they are
\* ordered by age.  Not used where a liveness property is checked.
Interchangeable ==
    Permutations(Doc) \cup Permutations(Worker) \cup Permutations(Requester)

===============================================================================
