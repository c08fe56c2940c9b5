------------------------------ MODULE MCChatTurns ------------------------------
(* Instances of ChatTurns for TLC.                                             *)
EXTENDS ChatTurns, TLC

Interchangeable == Permutations(Request)

\* Every caller comes from the same address.
OneAddress == [c \in Caller |-> CHOOSE a \in Address : TRUE]

================================================================================
