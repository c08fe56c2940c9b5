------------------------------ MODULE ConsentGate ------------------------------
(***************************************************************************)
(* What the approval gate promises (docs/SPEC-v2.md D20): nothing reaches  *)
(* the world without a reviewer's consent to exactly that payload, and     *)
(* every consent is good for one attempt, which may also come to nothing.  *)
(* How consent is asked for, recorded, contested or lost is not said here. *)
(***************************************************************************)
EXTENDS Naturals, FiniteSets

CONSTANTS Action, Payload, Reviewer

VARIABLES
    consent,  \* what each reviewer has allowed and nobody acted on yet
    given,    \* how often each payload of an action was consented to
    carried   \* how often it was carried out

gate == <<consent, given, carried>>

Nothing == {}

Consent(r, a, p) ==
    /\ consent[r] = Nothing
    /\ consent' = [consent EXCEPT ![r] = {<<a, p>>}]
    /\ given' = [given EXCEPT ![a][p] = @ + 1]
    /\ UNCHANGED carried

CarryOut(r, a, p) ==
    /\ consent[r] = {<<a, p>>}
    /\ consent' = [consent EXCEPT ![r] = Nothing]
    /\ carried' = [carried EXCEPT ![a][p] = @ + 1]
    /\ UNCHANGED given

\* The attempt fails, or the process that would have made it dies.
Waste(r) ==
    /\ consent[r] # Nothing
    /\ consent' = [consent EXCEPT ![r] = Nothing]
    /\ UNCHANGED <<given, carried>>

GateInit ==
    /\ consent = [r \in Reviewer |-> Nothing]
    /\ given = [a \in Action |-> [p \in Payload |-> 0]]
    /\ carried = [a \in Action |-> [p \in Payload |-> 0]]

GateNext ==
    \E r \in Reviewer :
        \/ \E a \in Action, p \in Payload : Consent(r, a, p) \/ CarryOut(r, a, p)
        \/ Waste(r)

Spec == GateInit /\ [][GateNext]_gate

-------------------------------------------------------------------------------
\* Nothing is carried out more often than it was consented to.
NeverUnasked == \A a \in Action, p \in Payload : carried[a][p] <= given[a][p]

\* Why: every consent that nobody acted on yet is still owed.
Open(a, p) == {r \in Reviewer : consent[r] = {<<a, p>>}}

OwedInv ==
    /\ given \in [Action -> [Payload -> Nat]]
    /\ carried \in [Action -> [Payload -> Nat]]
    /\ consent \in [Reviewer -> SUBSET (Action \X Payload)]
    /\ \A a \in Action, p \in Payload :
          carried[a][p] + Cardinality(Open(a, p)) <= given[a][p]

===============================================================================
