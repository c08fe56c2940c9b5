--------------------------- MODULE ConsentGateProofs ---------------------------
(***************************************************************************)
(* What the consent promise amounts to, for any number of reviewers.       *)
(***************************************************************************)
EXTENDS ConsentGate, FiniteSetTheorems, TLAPS

\* Consents are told apart by their action and payload.
LEMMA SamePair ==
    ASSUME NEW a \in Action, NEW p \in Payload, NEW b \in Action, NEW q \in Payload
    PROVE  {<<a, p>>} = {<<b, q>>} <=> b = a /\ q = p
<1>1. ASSUME {<<a, p>>} = {<<b, q>>} PROVE b = a /\ q = p
  <2>1. <<a, p>> \in {<<b, q>>}
    BY <1>1
  <2>. QED
    BY <2>1
<1>2. ASSUME b = a /\ q = p PROVE {<<a, p>>} = {<<b, q>>}
  BY <1>2
<1>. QED
  BY <1>1, <1>2

\* One reviewer's consent to a and p comes, goes, or does not matter to the
\* number of those that are open.
LEMMA OpenCount ==
    ASSUME IsFiniteSet(Reviewer), OwedInv, NEW r \in Reviewer,
           \A q \in Reviewer : q # r => consent'[q] = consent[q],
           NEW a \in Action, NEW p \in Payload
    PROVE  /\ Cardinality(Open(a, p)) \in Nat
           /\ Cardinality(Open(a, p))' \in Nat
           /\ consent[r] # {<<a, p>>} /\ consent'[r] = {<<a, p>>} =>
                Cardinality(Open(a, p))' = Cardinality(Open(a, p)) + 1
           /\ consent[r] = {<<a, p>>} /\ consent'[r] # {<<a, p>>} =>
                Cardinality(Open(a, p))' = Cardinality(Open(a, p)) - 1
           /\ consent[r] # {<<a, p>>} /\ consent'[r] # {<<a, p>>} =>
                Cardinality(Open(a, p))' = Cardinality(Open(a, p))
<1>. DEFINE before == {q \in Reviewer : consent[q] = {<<a, p>>}}
            after  == {q \in Reviewer : consent'[q] = {<<a, p>>}}
<1>1. IsFiniteSet(before) /\ IsFiniteSet(after)
  BY FS_Subset
<1>2. Cardinality(before) \in Nat /\ Cardinality(after) \in Nat
  BY <1>1, FS_CardinalityType
<1>3. after = IF consent'[r] = {<<a, p>>} THEN before \cup {r} ELSE before \ {r}
  BY DEF OwedInv
<1>4. r \in before <=> consent[r] = {<<a, p>>}
  OBVIOUS
<1>. HIDE DEF before, after
<1>5. CASE r \notin before /\ consent'[r] = {<<a, p>>}
  <2>1. Cardinality(after) = Cardinality(before) + 1
    BY <1>1, <1>3, <1>5, FS_AddElement
  <2>. QED
    BY <1>2, <1>4, <1>5, <2>1 DEF Open, before, after
<1>6. CASE r \in before /\ consent'[r] # {<<a, p>>}
  <2>1. Cardinality(after) = Cardinality(before) - 1
    BY <1>1, <1>3, <1>6, FS_RemoveElement
  <2>. QED
    BY <1>2, <1>4, <1>6, <2>1 DEF Open, before, after
<1>7. CASE (r \in before) = (consent'[r] = {<<a, p>>})
  <2>1. after = before
    BY <1>3, <1>7
  <2>. QED
    BY <1>2, <1>4, <1>7, <2>1 DEF Open, before, after
<1>. QED
  BY <1>5, <1>6, <1>7

\* Every step leaves what is carried out and what is owed within what was given.
LEMMA OwedNext ==
    ASSUME IsFiniteSet(Reviewer), OwedInv, [GateNext]_gate
    PROVE  OwedInv'
<1>1. ASSUME NEW r \in Reviewer, NEW a \in Action, NEW p \in Payload, Consent(r, a, p)
      PROVE  OwedInv'
  <2>1. /\ consent' = [consent EXCEPT ![r] = {<<a, p>>}]
        /\ consent[r] = {} /\ consent'[r] = {<<a, p>>}
        /\ \A s \in Reviewer : s # r => consent'[s] = consent[s]
    BY <1>1 DEF Consent, Nothing, OwedInv
  <2>2. /\ given' \in [Action -> [Payload -> Nat]]
        /\ carried' \in [Action -> [Payload -> Nat]]
        /\ consent' \in [Reviewer -> SUBSET (Action \X Payload)]
    BY <1>1, <2>1 DEF Consent, OwedInv
  <2>3. ASSUME NEW b \in Action, NEW q \in Payload
        PROVE  carried'[b][q] + Cardinality(Open(b, q))' <= given'[b][q]
    <3>1. carried'[b][q] = carried[b][q] /\ carried[b][q] \in Nat /\ given[b][q] \in Nat
      BY <1>1 DEF Consent, OwedInv
    <3>2. given'[b][q] = IF b = a /\ q = p THEN given[b][q] + 1 ELSE given[b][q]
      BY <1>1 DEF Consent, OwedInv
    <3>3. /\ Cardinality(Open(b, q)) \in Nat
          /\ Cardinality(Open(b, q))' = IF b = a /\ q = p
                                        THEN Cardinality(Open(b, q)) + 1
                                        ELSE Cardinality(Open(b, q))
      <4>1. {<<a, p>>} = {<<b, q>>} <=> b = a /\ q = p
        BY SamePair
      <4>2. consent[r] # {<<b, q>>}
        BY <2>1
      <4>3. CASE b = a /\ q = p
        BY <2>1, <4>2, <4>3, OpenCount
      <4>4. CASE ~(b = a /\ q = p)
        BY <2>1, <4>1, <4>2, <4>4, OpenCount
      <4>. QED
        BY <4>3, <4>4
    <3>4. carried[b][q] + Cardinality(Open(b, q)) <= given[b][q]
      BY DEF OwedInv
    <3>. QED
      BY <3>1, <3>2, <3>3, <3>4
  <2>. QED
    BY <2>2, <2>3 DEF OwedInv
<1>2. ASSUME NEW r \in Reviewer, NEW a \in Action, NEW p \in Payload, CarryOut(r, a, p)
      PROVE  OwedInv'
  <2>1. /\ consent' = [consent EXCEPT ![r] = {}]
        /\ consent[r] = {<<a, p>>} /\ consent'[r] = {}
        /\ \A s \in Reviewer : s # r => consent'[s] = consent[s]
    BY <1>2 DEF CarryOut, Nothing, OwedInv
  <2>2. /\ given' \in [Action -> [Payload -> Nat]]
        /\ carried' \in [Action -> [Payload -> Nat]]
        /\ consent' \in [Reviewer -> SUBSET (Action \X Payload)]
    BY <1>2, <2>1 DEF CarryOut, OwedInv
  <2>3. ASSUME NEW b \in Action, NEW q \in Payload
        PROVE  carried'[b][q] + Cardinality(Open(b, q))' <= given'[b][q]
    <3>1. given'[b][q] = given[b][q] /\ carried[b][q] \in Nat /\ given[b][q] \in Nat
      BY <1>2 DEF CarryOut, OwedInv
    <3>2. carried'[b][q] = IF b = a /\ q = p THEN carried[b][q] + 1 ELSE carried[b][q]
      BY <1>2 DEF CarryOut, OwedInv
    <3>3. /\ Cardinality(Open(b, q)) \in Nat
          /\ Cardinality(Open(b, q))' = IF b = a /\ q = p
                                        THEN Cardinality(Open(b, q)) - 1
                                        ELSE Cardinality(Open(b, q))
      <4>1. consent[r] = {<<b, q>>} <=> b = a /\ q = p
        BY <2>1, SamePair
      <4>2. consent'[r] # {<<b, q>>}
        BY <2>1
      <4>3. CASE b = a /\ q = p
        BY <2>1, <4>1, <4>2, <4>3, OpenCount
      <4>4. CASE ~(b = a /\ q = p)
        BY <2>1, <4>1, <4>2, <4>4, OpenCount
      <4>. QED
        BY <4>3, <4>4
    <3>4. carried[b][q] + Cardinality(Open(b, q)) <= given[b][q]
      BY DEF OwedInv
    <3>. QED
      BY <3>1, <3>2, <3>3, <3>4
  <2>. QED
    BY <2>2, <2>3 DEF OwedInv
<1>3. ASSUME NEW r \in Reviewer, Waste(r) PROVE OwedInv'
  <2>1. /\ consent' = [consent EXCEPT ![r] = {}]
        /\ UNCHANGED <<given, carried>> /\ consent'[r] = {}
        /\ \A s \in Reviewer : s # r => consent'[s] = consent[s]
    BY <1>3 DEF Waste, Nothing, OwedInv
  <2>2. /\ given' \in [Action -> [Payload -> Nat]]
        /\ carried' \in [Action -> [Payload -> Nat]]
        /\ consent' \in [Reviewer -> SUBSET (Action \X Payload)]
    BY <2>1 DEF OwedInv
  <2>3. ASSUME NEW b \in Action, NEW q \in Payload
        PROVE  carried'[b][q] + Cardinality(Open(b, q))' <= given'[b][q]
    <3>1. /\ given'[b][q] = given[b][q] /\ carried'[b][q] = carried[b][q]
          /\ carried[b][q] \in Nat /\ given[b][q] \in Nat
      BY <2>1 DEF OwedInv
    <3>2. /\ Cardinality(Open(b, q)) \in Nat
          /\ Cardinality(Open(b, q))' \in Nat
          /\ Cardinality(Open(b, q))' <= Cardinality(Open(b, q))
      <4>1. consent'[r] # {<<b, q>>}
        BY <2>1
      <4>. QED
        BY <2>1, <4>1, OpenCount
    <3>3. carried[b][q] + Cardinality(Open(b, q)) <= given[b][q]
      BY DEF OwedInv
    <3>. QED
      BY <3>1, <3>2, <3>3
  <2>. QED
    BY <2>2, <2>3 DEF OwedInv
<1>4. CASE UNCHANGED gate
  BY <1>4 DEF gate, OwedInv, Open
<1>. QED
  BY <1>1, <1>2, <1>3, <1>4 DEF GateNext

\* However many reviewers there are, no payload of an action is carried out more
\* often than it was consented to: a gate that implements ConsentGate never acts
\* unasked, and never twice for one approval.
THEOREM NothingUnasked ==
    ASSUME IsFiniteSet(Reviewer)
    PROVE  Spec => []NeverUnasked
<1>1. GateInit => OwedInv
  <2>. SUFFICES ASSUME GateInit PROVE OwedInv
    OBVIOUS
  <2>1. \A a \in Action, p \in Payload : Open(a, p) = {}
    BY DEF GateInit, Open, Nothing
  <2>2. Cardinality({}) = 0
    BY FS_EmptySet
  <2>. QED
    BY <2>1, <2>2 DEF GateInit, OwedInv, Nothing
<1>2. OwedInv /\ [GateNext]_gate => OwedInv'
  BY OwedNext
<1>3. OwedInv => NeverUnasked
  <2>. SUFFICES ASSUME OwedInv, NEW a \in Action, NEW p \in Payload
                PROVE  carried[a][p] <= given[a][p]
    BY DEF NeverUnasked
  <2>1. Cardinality(Open(a, p)) \in Nat
    BY FS_Subset, FS_CardinalityType DEF Open
  <2>. QED
    BY <2>1 DEF OwedInv
<1>. QED
  BY <1>1, <1>2, <1>3, PTL DEF Spec

===============================================================================
