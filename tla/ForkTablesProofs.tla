--------------------------- MODULE ForkTablesProofs ---------------------------
(***************************************************************************)
(* Lemmas about the queries of ForkTables that every service uses.         *)
(***************************************************************************)
EXTENDS ForkTables, FiniteSetTheorems, WellFoundedInduction, TLAPS

\* A set of row ids that is not empty has an oldest row.
LEMMA OldestExists ==
  ASSUME NEW n \in Nat, NEW S \in SUBSET (1 .. n), S # {}
  PROVE  \E i \in S : \A k \in S : i <= k
<1> DEFINE upTo(k) == S \cap (1 .. k)
           F == {upTo(k) : k \in S}
<1>1. F \subseteq FiniteSubsetsOf(S)
  <2>1. IsFiniteSet(S)
    <3>1. IsFiniteSet(1 .. n)
      BY FS_Interval
    <3> QED BY <3>1, FS_Subset
  <2> QED BY <2>1, FS_Subset DEF FiniteSubsetsOf
<1>2. F # {}
  OBVIOUS
<1>3. PICK U \in F : \A V \in F : <<V, U>> \notin StrictSubsetOrdering(S)
  <2>1. IsWellFoundedOn(StrictSubsetOrdering(S), FiniteSubsetsOf(S))
    BY FS_StrictSubsetOrderingWellFounded
  <2> HIDE DEF F
  <2> QED BY <1>1, <1>2, <2>1, WFMin
<1>4. PICK i \in S : U = upTo(i)
  OBVIOUS
<1>5. ASSUME NEW k \in S, ~ (i <= k)
      PROVE  FALSE
  <2>1. upTo(k) \subseteq upTo(i)
    BY <1>5
  <2>2. i \in upTo(i) /\ i \notin upTo(k)
    BY <1>5
  <2>3. upTo(k) \in F
    OBVIOUS
  <2>4. <<upTo(k), U>> \in StrictSubsetOrdering(S)
    BY <1>4, <2>1, <2>2 DEF StrictSubsetOrdering
  <2> QED BY <1>3, <2>3, <2>4
<1> QED BY <1>5

\* Oldest returns a member of the set, and 0 only for the empty set.
LEMMA OldestIsIn ==
  ASSUME NEW n \in Nat, NEW S \in SUBSET (1 .. n)
  PROVE  /\ S = {} => Oldest(S) = 0
         /\ S # {} => Oldest(S) \in S /\ \A k \in S : Oldest(S) <= k
<1>1. CASE S = {}
  BY <1>1 DEF Oldest
<1>2. CASE S # {}
  <2>1. \E i \in S : \A k \in S : i <= k
    BY <1>2, OldestExists
  <2> QED BY <1>2, <2>1 DEF Oldest
<1> QED BY <1>1, <1>2
=============================================================================
