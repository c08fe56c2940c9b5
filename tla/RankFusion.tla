------------------------------ MODULE RankFusion ------------------------------
(***************************************************************************)
(* Hybrid retrieval: the two searches of one question, each a ranking of   *)
(* at most so many chunks of the workspace, and reciprocal rank fusion of  *)
(* the two.  Scores are kept as fractions.                                 *)
(***************************************************************************)
EXTENDS Naturals, Sequences, FiniteSets

CONSTANTS
    Passage,      \* the chunks of the workspace
    K,            \* RRF_K
    Candidates,   \* RETRIEVAL_CANDIDATES
    TopK          \* RETRIEVAL_TOP_K

ASSUME FusionAssumption ==
    /\ IsFiniteSet(Passage)
    /\ K \in Nat \ {0} /\ TopK \in Nat
    /\ Candidates \in Nat /\ Candidates <= K + 1

VARIABLES
    hits,         \* the rankings so far: by vector, by keyword
    at,           \* the place the fusion has come to, in the one after the other
    fused,        \* the score of each chunk, as a fraction
    seen,         \* the chunks in the order in which they were first seen
    found         \* the answer, <<>> before there is one

fusionVars == <<hits, at, fused, seen, found>>

\* Rankings of n chunks; and how many a search returns at most.
Rankings(n) == {r \in [1..n -> Passage] : \A i, j \in 1..n : r[i] = r[j] => i = j}
AtMost == IF Candidates < Cardinality(Passage) THEN Candidates ELSE Cardinality(Passage)

Sums(a, b) == <<a[1] * b[2] + b[1] * a[2], a[2] * b[2]>>
Above(a, b) == a[1] * b[2] > b[1] * a[2]

-------------------------------------------------------------------------------

\* The vector search ranks as many chunks as there are; the keyword search those
\* that match.  One after the other, on one session.
SearchVector ==
    /\ hits = <<>>
    /\ \E r \in Rankings(AtMost) : hits' = <<r>>
    /\ UNCHANGED <<at, fused, seen, found>>

SearchKeyword ==
    /\ Len(hits) = 1
    /\ \E n \in 0..AtMost : \E r \in Rankings(n) : hits' = Append(hits, r)
    /\ UNCHANGED <<at, fused, seen, found>>

\* A mistake the code could have made in the definition below: places counted
\* from 0.
FromZero(place) == <<1, K + place - 1>>

Share(place) == <<1, K + place>>

Both == hits[1] \o hits[2]
Place(n) == IF n <= Len(hits[1]) THEN n ELSE n - Len(hits[1])

FuseNext ==
    /\ Len(hits) = 2 /\ at < Len(Both)
    /\ at' = at + 1
    /\ LET c == Both[at + 1] IN
       /\ fused' = [fused EXCEPT ![c] = Sums(@, Share(Place(at + 1)))]
       /\ seen' = IF \E i \in 1..Len(seen) : seen[i] = c THEN seen ELSE Append(seen, c)
    /\ UNCHANGED <<hits, found>>

\* sorted is stable: equal scores stay in the order they were seen.
Before(scores, s, i, j) ==
    \/ Above(scores[s[i]], scores[s[j]])
    \/ ~Above(scores[s[j]], scores[s[i]]) /\ i < j

Ordered(scores, s) ==
    [n \in 1..Len(s) |->
        s[CHOOSE i \in 1..Len(s) :
            Cardinality({j \in 1..Len(s) : Before(scores, s, j, i)}) = n - 1]]

Answer ==
    /\ Len(hits) = 2 /\ at = Len(Both) /\ found = <<>>
    /\ found' = SubSeq(Ordered(fused, seen), 1, IF TopK < Len(seen) THEN TopK ELSE Len(seen))
    /\ UNCHANGED <<hits, at, fused, seen>>

FusionInit ==
    /\ hits = <<>> /\ at = 0
    /\ fused = [c \in Passage |-> <<0, 1>>]
    /\ seen = <<>> /\ found = <<>>

FusionNext == SearchVector \/ SearchKeyword \/ FuseNext \/ Answer

FusionSpec == FusionInit /\ [][FusionNext]_fusionVars

-------------------------------------------------------------------------------

In(c, r) == \E i \in 1..Len(r) : r[i] = c
PlaceIn(c, r) == IF In(c, r) THEN CHOOSE i \in 1..Len(r) : r[i] = c ELSE Candidates + 1

InBoth(c) == In(c, hits[1]) /\ In(c, hits[2])
InOne(c)  == In(c, hits[1]) /= In(c, hits[2])
Dominates(c, d) ==
    /\ \A n \in 1..2 : PlaceIn(c, hits[n]) <= PlaceIn(d, hits[n])
    /\ \E n \in 1..2 : PlaceIn(c, hits[n]) < PlaceIn(d, hits[n])

\* What both retrievers rank is above what one of them ranks, even first; and a
\* chunk that one of them places better and neither worse is above: of two such
\* chunks the lesser is not in the answer unless the greater is there before it.
FusedInOrder ==
    \A j \in 1..Len(found) : \A c \in Passage :
        (InBoth(c) /\ InOne(found[j])) \/ Dominates(c, found[j]) =>
            \E i \in 1..(j - 1) : found[i] = c

-------------------------------------------------------------------------------
(* The inductive invariant behind FusedInOrder: what the loop has made of the *)
(* rankings by the place it has come to.                                      *)

\* The loop has come past c in the first ranking, or in the second.
Past(h, p, c, n) ==
    /\ n <= Len(h)
    /\ \E i \in 1..Len(h[n]) : h[n][i] = c /\ i + (IF n = 1 THEN 0 ELSE Len(h[1])) <= p
Come(c, n) == Past(hits, at, c, n)

Score(c) ==
    LET share(n) == Share(PlaceIn(c, hits[n]))
    IN  IF Come(c, 1) THEN IF Come(c, 2) THEN Sums(share(1), share(2)) ELSE share(1)
                      ELSE IF Come(c, 2) THEN share(2) ELSE <<0, 1>>

HitsInv ==
    /\ Len(hits) <= 2 /\ hits \in Seq(UNION {Rankings(n) : n \in 0..AtMost})
    /\ at \in Nat /\ (at > 0 => Len(hits) = 2 /\ at <= Len(Both))

SeenInv ==
    /\ seen \in Seq(Passage)
    /\ \A i, j \in 1..Len(seen) : seen[i] = seen[j] => i = j
    /\ \A c \in Passage : In(c, seen) <=> Come(c, 1) \/ Come(c, 2)

FusionInv ==
    /\ HitsInv /\ SeenInv
    /\ fused = [c \in Passage |-> Score(c)]
    /\ found = <<>> \/
        /\ Len(hits) = 2 /\ at = Len(Both)
        /\ found = SubSeq(Ordered(fused, seen), 1, IF TopK < Len(seen) THEN TopK ELSE Len(seen))
===============================================================================
