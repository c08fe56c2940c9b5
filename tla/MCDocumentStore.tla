---------------------------- MODULE MCDocumentStore ----------------------------
(* Instances of DocumentStore for TLC.                                         *)
EXTENDS DocumentStore, TLC

Interchangeable == Permutations(Request)
================================================================================
