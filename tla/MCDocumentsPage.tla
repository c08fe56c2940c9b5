---------------------------- MODULE MCDocumentsPage ----------------------------
(* Instances of DocumentsPage for TLC.                                         *)
EXTENDS DocumentsPage, TLC

Interchangeable == Permutations(Request)

\* A tangled page stays tangled, and RestsOnTruth has nothing to say of it: no
\* step that could violate the property is beyond this constraint.
Untangled == ~tangled
================================================================================
