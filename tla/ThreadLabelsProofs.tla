------------------------- MODULE ThreadLabelsProofs -------------------------
(***************************************************************************)
(* How the numbers of threads at given labels change when a thread moves.  *)
(***************************************************************************)
EXTENDS ThreadLabels, FiniteSetTheorems, TLAPS

\* Counts are natural numbers, and 0 where nobody is, before and after a step.
LEMMA CountsAreNatural ==
    /\ Cardinality(Threads) \in Nat
    /\ \A L : Cardinality(At(L)) \in Nat /\ (Cardinality(At(L)) = 0 <=> At(L) = {})
    /\ \A L : Cardinality(At(L)') \in Nat /\ (Cardinality(At(L)') = 0 <=> At(L)' = {})
<1>1. IsFiniteSet(Threads) /\ \A L : IsFiniteSet(At(L)) /\ IsFiniteSet(At(L)')
  BY FS_Subset, ThreadsAssumption DEF At
<1> QED BY <1>1, FS_CardinalityType, FS_EmptySet

\* The thread that moves enters or leaves a set of labels, or does neither.
LEMMA MoveCounts ==
    ASSUME NEW PCs, pc \in [Threads -> PCs],
           NEW t \in Threads, NEW from, NEW to, Goto(t, from, to), NEW L
    PROVE  Cardinality(At(L)') = Cardinality(At(L))
             + (IF to \in L THEN 1 ELSE 0) - (IF from \in L THEN 1 ELSE 0)
<1>1. IsFiniteSet(At(L)) /\ Cardinality(At(L)) \in Nat
  BY FS_Subset, ThreadsAssumption, CountsAreNatural DEF At
<1>2. CASE (from \in L) = (to \in L)
  <2>1. At(L)' = At(L)
    BY <1>2 DEF At, Goto
  <2> QED BY <2>1, <1>1, <1>2
<1>3. CASE from \notin L /\ to \in L
  <2>1. At(L)' = At(L) \cup {t} /\ t \notin At(L)
    BY <1>3 DEF At, Goto
  <2>2. Cardinality(At(L) \cup {t}) = Cardinality(At(L)) + 1
    BY <2>1, <1>1, FS_AddElement
  <2> QED BY <2>1, <2>2, <1>1, <1>3
<1>4. CASE from \in L /\ to \notin L
  <2>1. At(L)' = At(L) \ {t} /\ t \in At(L)
    BY <1>4 DEF At, Goto
  <2>2. Cardinality(At(L) \ {t}) = Cardinality(At(L)) - 1
    BY <2>1, <1>1, FS_RemoveElement
  <2> QED BY <2>1, <2>2, <1>1, <1>4
<1> QED BY <1>2, <1>3, <1>4
=============================================================================
