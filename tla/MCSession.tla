------------------------------- MODULE MCSession -------------------------------
(* Instances of Session for TLC.                                               *)
EXTENDS Session, TLC

\* Tabs are interchangeable, and so are the requests of a tab.
Interchangeable == Permutations(Tab) \cup Permutations(Slot)

================================================================================
