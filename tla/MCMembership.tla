----------------------------- MODULE MCMembership -----------------------------
(* Instances of Membership for TLC.                                            *)
EXTENDS Membership, TLC

Interchangeable == Permutations(User \ {Founder}) \cup Permutations(Request)

===============================================================================
