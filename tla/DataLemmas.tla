----------------------------- MODULE DataLemmas -----------------------------
(***************************************************************************)
(* What the proofs about the data need: induction, stated for sets so that *)
(* no operator is a parameter, functions defined by recursion on a number  *)
(* or on a finite set, and from these the facts about Kept, FlattenSeq and *)
(* SumFunction, through which the models filter, concatenate and add.      *)
(***************************************************************************)
EXTENDS Subsequences, FiniteSetsExt, SequencesExt, FiniteSetTheorems,
        SequenceTheorems, WellFoundedInduction, TLAPS

-----------------------------------------------------------------------------
(* Induction.                                                              *)

\* A set of numbers with a member has a least one.
LEMMA LeastNumber ==
    ASSUME NEW S \in SUBSET Nat, S # {}
    PROVE  \E m \in S : \A n \in S : m <= n
<1> DEFINE below(m) == {n \in S : n < m}
           T == {below(m) : m \in S}
<1>1. T \subseteq FiniteSubsetsOf(Nat) /\ T # {}
  <2>1. ASSUME NEW m \in S PROVE IsFiniteSet(below(m)) /\ below(m) \subseteq Nat
    <3>1. m \in Nat
      OBVIOUS
    <3>2. IsFiniteSet(0..m)
      BY <3>1, FS_Interval
    <3>3. ASSUME NEW n \in below(m) PROVE n \in 0..m
      BY <3>1
    <3>4. below(m) \in SUBSET (0..m)
      BY <3>3
    <3>5. IsFiniteSet(below(m))
      BY <3>2, <3>4, FS_Subset
    <3> QED
      BY <3>5
  <2> QED
    BY <2>1 DEF FiniteSubsetsOf
<1>2. PICK U \in T : \A V \in T : <<V, U>> \notin StrictSubsetOrdering(Nat)
  BY <1>1, FS_StrictSubsetOrderingWellFounded, WFMin
<1>3. PICK m \in S : U = below(m)
  OBVIOUS
<1>4. ASSUME NEW n \in S, ~(m <= n) PROVE FALSE
  <2>1. n \in Nat /\ m \in Nat /\ n < m
    BY <1>4
  <2>2. below(n) \subseteq U /\ n \in U /\ n \notin below(n) /\ U \subseteq Nat
    <3>1. U = {k \in S : k < m}
      BY <1>3
    <3>2. ASSUME NEW k \in S, k < n PROVE k < m
      BY <2>1, <3>2
    <3>3. \A k \in below(n) : k \in U
      BY <3>1, <3>2
    <3>4. n \in U /\ ~(n < n)
      BY <2>1, <3>1
    <3> QED
      BY <3>1, <3>3, <3>4
  <2>3. below(n) \in T
    OBVIOUS
  <2> HIDE DEF below, T
  <2>4. below(n) \subseteq U /\ below(n) # U /\ U \in SUBSET Nat /\ below(n) \in SUBSET Nat
    BY <2>2
  <2>5. <<below(n), U>> \in StrictSubsetOrdering(Nat)
    BY <2>4 DEF StrictSubsetOrdering
  <2> QED
    BY <1>2, <2>3, <2>5
<1> QED
  BY <1>4

LEMMA NatInductionOnSet ==
    ASSUME NEW P, 0 \in P, \A n \in Nat : n \in P => n + 1 \in P
    PROVE  Nat \subseteq P
<1> DEFINE S == Nat \ P
<1>1. SUFFICES ASSUME S # {} PROVE FALSE
  OBVIOUS
<1>2. PICK m \in S : \A n \in S : m <= n
  BY <1>1, LeastNumber
<1>3. m # 0 /\ m - 1 \in Nat
  BY <1>2
<1>4. m - 1 \notin S
  BY <1>2, <1>3
<1>5. (m - 1) + 1 = m
  BY <1>2
<1> QED
  BY <1>2, <1>3, <1>4, <1>5

LEMMA FiniteInductionOnSet ==
    ASSUME NEW S, IsFiniteSet(S), NEW P,
           {} \in P,
           \A s \in SUBSET S : \A x \in S \ s : s \in P => s \cup {x} \in P
    PROVE  S \in P
<1> DEFINE M == {n \in Nat : \A s \in SUBSET S : Cardinality(s) = n => s \in P}
<1>0. \A s \in SUBSET S : IsFiniteSet(s) /\ Cardinality(s) \in Nat
  BY FS_Subset, FS_CardinalityType
<1>1. 0 \in M
  BY <1>0, FS_EmptySet
<1>2. ASSUME NEW n \in Nat, n \in M PROVE n + 1 \in M
  <2>1. ASSUME NEW s \in SUBSET S, Cardinality(s) = n + 1 PROVE s \in P
    <3>0. IsFiniteSet(s) /\ s # {}
      BY <1>0, <2>1, FS_EmptySet
    <3>1. PICK x : x \in s
      BY <3>0
    <3>2. Cardinality(s \ {x}) = n
      <4>1. Cardinality(s \ {x}) = Cardinality(s) - 1
        BY <3>0, <3>1, FS_RemoveElement
      <4> QED
        BY <2>1, <4>1
    <3>3. s \ {x} \in P
      BY <1>2, <3>2
    <3>4. (s \ {x}) \cup {x} = s /\ x \in S \ (s \ {x})
      BY <3>1
    <3> QED
      BY <3>3, <3>4
  <2> QED
    BY <2>1
<1> HIDE DEF M
<1>3. Nat \subseteq M
  BY <1>1, <1>2, NatInductionOnSet
<1> QED
  BY <1>0, <1>3 DEF M

\* The greatest and the least element of a nonempty finite set of integers.
LEMMA MaxMinExist ==
    ASSUME NEW S, IsFiniteSet(S), S # {}, S \subseteq Int
    PROVE  /\ Max(S) \in S /\ \A s \in S : s <= Max(S)
           /\ Min(S) \in S /\ \A s \in S : Min(S) <= s
<1> DEFINE P == {s \in SUBSET S : s = {} \/ /\ \E m \in s : \A x \in s : m >= x
                                            /\ \E m \in s : \A x \in s : m <= x}
<1>1. {} \in P
  OBVIOUS
<1>2. ASSUME NEW s \in SUBSET S, NEW y \in S \ s, s \in P PROVE s \cup {y} \in P
  <2>1. CASE s = {}
    BY <2>1
  <2>2. CASE s # {}
    <3>1. PICK hi \in s : \A x \in s : hi >= x
      BY <1>2, <2>2
    <3>2. PICK lo \in s : \A x \in s : lo <= x
      BY <1>2, <2>2
    <3>3. \E m \in s \cup {y} : \A x \in s \cup {y} : m >= x
      <4>1. CASE y >= hi
        BY <3>1, <4>1
      <4>2. CASE ~(y >= hi)
        BY <3>1, <4>2
      <4> QED BY <4>1, <4>2
    <3>4. \E m \in s \cup {y} : \A x \in s \cup {y} : m <= x
      <4>1. CASE y <= lo
        BY <3>2, <4>1
      <4>2. CASE ~(y <= lo)
        BY <3>2, <4>2
      <4> QED BY <4>1, <4>2
    <3> QED
      BY <3>3, <3>4
  <2> QED
    BY <2>1, <2>2
<1> HIDE DEF P
<1>3. S \in P
  BY <1>1, <1>2, FiniteInductionOnSet
<1>4. /\ \E m \in S : \A x \in S : m >= x
      /\ \E m \in S : \A x \in S : m <= x
  BY <1>3 DEF P
<1>5. Max(S) \in S /\ \A x \in S : Max(S) >= x
  BY <1>4 DEF Max
<1>6. Min(S) \in S /\ \A x \in S : Min(S) <= x
  BY <1>4 DEF Min
<1> QED
  BY <1>5, <1>6

LEMMA ImageFinite ==
    ASSUME NEW S, IsFiniteSet(S), NEW f
    PROVE  IsFiniteSet({f[x] : x \in S})
<1> DEFINE g == [x \in S |-> f[x]]
           T == {f[x] : x \in S}
<1>1. g \in Surjection(S, T)
  BY DEF Surjection
<1> QED
  BY <1>1, FS_Surjection

-----------------------------------------------------------------------------
(* Recursion.  Each function is shown to exist by approximation: one that  *)
(* satisfies its equation up to n gives one that satisfies it up to n + 1. *)

\* For each index, what becomes of the value so far.
Steps(indices, V) == [indices -> [V -> V]]

Accumulates(f, N, V, base, step) ==
    /\ f \in [0..N -> V]
    /\ f[0] = base
    /\ \A n \in 1..N : f[n] = step[n][f[n - 1]]

LEMMA RecursionOnNumbers ==
    ASSUME NEW N \in Nat, NEW V, NEW base \in V, NEW step \in Steps(1..N, V)
    PROVE  \E f : Accumulates(f, N, V, base, step)
<1> DEFINE Next1(f) == [n \in 0..N |-> IF n = 0 THEN base ELSE step[n][f[n - 1]]]
           M == {k \in Nat : \E f \in [0..N -> V] :
                                \A n \in 0..N : n <= k => f[n] = Next1(f)[n]}
<1>0. ASSUME NEW f \in [0..N -> V] PROVE Next1(f) \in [0..N -> V]
  <2>1. ASSUME NEW n \in 0..N, n # 0 PROVE step[n][f[n - 1]] \in V
    <3>1. n \in 1..N /\ n - 1 \in 0..N
      BY <2>1
    <3>2. step[n] \in [V -> V] /\ f[n - 1] \in V
      BY <3>1 DEF Steps
    <3> QED
      BY <3>2
  <2> QED
    BY <2>1
<1>1. 0 \in M
  <2> DEFINE f == [n \in 0..N |-> base]
  <2>1. f \in [0..N -> V]
    OBVIOUS
  <2>2. \A n \in 0..N : n <= 0 => f[n] = Next1(f)[n]
    OBVIOUS
  <2> QED
    BY <2>1, <2>2
<1>2. ASSUME NEW k \in Nat, k \in M PROVE k + 1 \in M
  <2>1. PICK f \in [0..N -> V] : \A n \in 0..N : n <= k => f[n] = Next1(f)[n]
    BY <1>2
  <2> DEFINE g == Next1(f)
  <2>2. g \in [0..N -> V]
    BY <1>0
  <2>3. ASSUME NEW n \in 0..N, n <= k + 1 PROVE g[n] = Next1(g)[n]
    <3>1. CASE n = 0
      BY <3>1
    <3>2. CASE n # 0
      <4>1. n - 1 \in 0..N /\ n - 1 <= k
        BY <2>3, <3>2
      <4>2. f[n - 1] = g[n - 1]
        BY <2>1, <4>1
      <4>3. g[n] = step[n][f[n - 1]] /\ Next1(g)[n] = step[n][g[n - 1]]
        BY <3>2
      <4> QED
        BY <4>2, <4>3
    <3> QED
      BY <3>1, <3>2
  <2> HIDE DEF g, Next1
  <2> QED
    BY <2>2, <2>3
<1> HIDE DEF M
<1>3. Nat \subseteq M
  BY <1>1, <1>2, NatInductionOnSet
<1>4. PICK f \in [0..N -> V] : \A n \in 0..N : n <= N => f[n] = Next1(f)[n]
  BY <1>3 DEF M
<1>5. 0 \in 0..N /\ \A n \in 1..N : n \in 0..N /\ n # 0
  OBVIOUS
<1> QED
  BY <1>4, <1>5 DEF Accumulates

\* A choice of an element of each set.
Picks(pick, S) == \A s \in SUBSET S : s # {} => pick[s] \in s

\* The value of a set is that of the set without one of its elements, moved by the
\* step of that element.
Folds(f, S, V, base, step, pick) ==
    /\ f \in [SUBSET S -> V]
    /\ f[{}] = base
    /\ \A s \in SUBSET S : s # {} => f[s] = step[pick[s]][f[s \ {pick[s]}]]

LEMMA RecursionOnSubsets ==
    ASSUME NEW S, IsFiniteSet(S), NEW V, NEW base \in V, NEW step \in Steps(S, V),
           NEW pick, Picks(pick, S)
    PROVE  \E f : Folds(f, S, V, base, step, pick)
<1> DEFINE Next1(f) == [s \in SUBSET S |->
                           IF s = {} THEN base ELSE step[pick[s]][f[s \ {pick[s]}]]]
           M == {k \in Nat : \E f \in [SUBSET S -> V] :
                                \A s \in SUBSET S : Cardinality(s) <= k => f[s] = Next1(f)[s]}
<1>a. \A s \in SUBSET S : IsFiniteSet(s) /\ Cardinality(s) \in Nat
  BY FS_Subset, FS_CardinalityType
<1> USE DEF Picks
<1>0. ASSUME NEW f \in [SUBSET S -> V] PROVE Next1(f) \in [SUBSET S -> V]
  <2>1. ASSUME NEW s \in SUBSET S, s # {} PROVE step[pick[s]][f[s \ {pick[s]}]] \in V
    <3>1. pick[s] \in S /\ s \ {pick[s]} \in SUBSET S
      BY <2>1
    <3>2. step[pick[s]] \in [V -> V] /\ f[s \ {pick[s]}] \in V
      BY <3>1 DEF Steps
    <3> QED
      BY <3>2
  <2> QED
    BY <2>1
<1>1. 0 \in M
  <2> DEFINE f == [s \in SUBSET S |-> base]
  <2>1. f \in [SUBSET S -> V]
    OBVIOUS
  <2>2. ASSUME NEW s \in SUBSET S, Cardinality(s) <= 0 PROVE f[s] = Next1(f)[s]
    <3>1. s = {}
      BY <1>a, <2>2, FS_EmptySet
    <3> QED
      BY <3>1
  <2> HIDE DEF Next1, f
  <2> QED
    BY <2>1, <2>2
<1>2. ASSUME NEW k \in Nat, k \in M PROVE k + 1 \in M
  <2>1. PICK f \in [SUBSET S -> V] : \A s \in SUBSET S : Cardinality(s) <= k => f[s] = Next1(f)[s]
    BY <1>2
  <2> DEFINE g == Next1(f)
  <2>2. g \in [SUBSET S -> V]
    BY <1>0
  <2>3. ASSUME NEW s \in SUBSET S, Cardinality(s) <= k + 1 PROVE g[s] = Next1(g)[s]
    <3>1. CASE s = {}
      BY <3>1
    <3>2. CASE s # {}
      <4> DEFINE t == s \ {pick[s]}
      <4>1. t \in SUBSET S /\ pick[s] \in s
        BY <3>2
      <4>2. Cardinality(t) = Cardinality(s) - 1
        BY <1>a, <4>1, FS_RemoveElement
      <4>3. Cardinality(t) <= k
        BY <1>a, <2>3, <4>2
      <4>4. f[t] = g[t]
        BY <2>1, <4>1, <4>3
      <4>5. g[s] = step[pick[s]][f[t]] /\ Next1(g)[s] = step[pick[s]][g[t]]
        BY <3>2
      <4> QED
        BY <4>4, <4>5
    <3> QED
      BY <3>1, <3>2
  <2> HIDE DEF g, Next1
  <2> QED
    BY <2>2, <2>3
<1> HIDE DEF M
<1>3. Nat \subseteq M
  BY <1>1, <1>2, NatInductionOnSet
<1>b. Cardinality(S) \in M
  BY <1>a, <1>3
<1>4. PICK f \in [SUBSET S -> V] :
         \A s \in SUBSET S : Cardinality(s) <= Cardinality(S) => f[s] = Next1(f)[s]
  BY <1>b DEF M
<1>5. \A s \in SUBSET S : Cardinality(s) <= Cardinality(S)
  BY FS_Subset
<1>6. f[{}] = base /\ \A s \in SUBSET S : s # {} => f[s] = step[pick[s]][f[s \ {pick[s]}]]
  BY <1>4, <1>5
<1> QED
  BY <1>6 DEF Folds

\* The same of a g that is not known to have its values in V.
Unfolds(g, S, V, base, step, pick) ==
    /\ g[{}] = base
    /\ \A s \in SUBSET S : s # {} /\ g[s \ {pick[s]}] \in V
                            => g[s] = step[pick[s]][g[s \ {pick[s]}]]

LEMMA FoldsAgree ==
    ASSUME NEW S, IsFiniteSet(S), NEW V, NEW base, NEW step, NEW pick, Picks(pick, S),
           NEW f, Folds(f, S, V, base, step, pick),
           NEW g, Unfolds(g, S, V, base, step, pick)
    PROVE  \A s \in SUBSET S : g[s] = f[s]
<1> DEFINE M == {n \in Nat : \A s \in SUBSET S : Cardinality(s) = n => g[s] = f[s]}
<1>0. \A s \in SUBSET S : IsFiniteSet(s) /\ Cardinality(s) \in Nat
  BY FS_Subset, FS_CardinalityType
<1>1. 0 \in M
  BY <1>0, FS_EmptySet DEF Folds, Unfolds
<1>2. ASSUME NEW n \in Nat, n \in M PROVE n + 1 \in M
  <2>1. ASSUME NEW s \in SUBSET S, Cardinality(s) = n + 1 PROVE g[s] = f[s]
    <3>1. IsFiniteSet(s) /\ s # {}
      BY <1>0, <2>1, FS_EmptySet
    <3>2. pick[s] \in s
      BY <3>1 DEF Picks
    <3>3. Cardinality(s \ {pick[s]}) = Cardinality(s) - 1
      BY <3>1, <3>2, FS_RemoveElement
    <3>4. s \ {pick[s]} \in SUBSET S /\ Cardinality(s \ {pick[s]}) = n
      BY <2>1, <3>3
    <3>5. g[s \ {pick[s]}] = f[s \ {pick[s]}] /\ f[s \ {pick[s]}] \in V
      BY <1>2, <3>4 DEF Folds
    <3> QED
      BY <3>1, <3>5 DEF Folds, Unfolds
  <2> QED
    BY <2>1
<1> HIDE DEF M
<1>3. Nat \subseteq M
  BY <1>1, <1>2, NatInductionOnSet
<1> QED
  BY <1>0, <1>3 DEF M

\* What the steps preserve holds of every set and its value.
Preserves(Good, S, V, step, pick) ==
    \A s \in SUBSET S, v \in V :
        s # {} /\ <<s \ {pick[s]}, v>> \in Good => <<s, step[pick[s]][v]>> \in Good

LEMMA FoldsPreserve ==
    ASSUME NEW S, IsFiniteSet(S), NEW V, NEW base, NEW step, NEW pick, Picks(pick, S),
           NEW f, Folds(f, S, V, base, step, pick),
           NEW Good, <<{}, base>> \in Good, Preserves(Good, S, V, step, pick)
    PROVE  \A s \in SUBSET S : <<s, f[s]>> \in Good
<1> DEFINE M == {n \in Nat : \A s \in SUBSET S : Cardinality(s) = n => <<s, f[s]>> \in Good}
<1>0. \A s \in SUBSET S : IsFiniteSet(s) /\ Cardinality(s) \in Nat
  BY FS_Subset, FS_CardinalityType
<1>1. 0 \in M
  BY <1>0, FS_EmptySet DEF Folds
<1>2. ASSUME NEW n \in Nat, n \in M PROVE n + 1 \in M
  <2>1. ASSUME NEW s \in SUBSET S, Cardinality(s) = n + 1 PROVE <<s, f[s]>> \in Good
    <3>1. IsFiniteSet(s) /\ s # {}
      BY <1>0, <2>1, FS_EmptySet
    <3>2. pick[s] \in s
      BY <3>1 DEF Picks
    <3> DEFINE t == s \ {pick[s]}
    <3>3. Cardinality(t) = Cardinality(s) - 1
      BY <3>1, <3>2, FS_RemoveElement
    <3>4. t \in SUBSET S /\ Cardinality(t) = n
      BY <2>1, <3>3
    <3>5. <<t, f[t]>> \in Good /\ f[t] \in V
      BY <1>2, <3>4 DEF Folds
    <3>6. f[s] = step[pick[s]][f[t]]
      BY <3>1 DEF Folds
    <3> QED
      BY <3>1, <3>5, <3>6 DEF Preserves
  <2> QED
    BY <2>1
<1> HIDE DEF M
<1>3. Nat \subseteq M
  BY <1>1, <1>2, NatInductionOnSet
<1> QED
  BY <1>0, <1>3 DEF M

-----------------------------------------------------------------------------
(* Sequences.                                                              *)

\* Kept(s, kept) is read off s at increasing positions, which are those in kept.
KeptAt(s, kept, out, pos) ==
    /\ pos \in [1..Len(out) -> {i \in 1..Len(s) : i \in kept}]
    /\ \A j, k \in 1..Len(out) : j < k => pos[j] < pos[k]
    /\ \A i \in 1..Len(s) : i \in kept => \E k \in 1..Len(out) : pos[k] = i
    /\ \A k \in 1..Len(out) : out[k] = s[pos[k]]

LEMMA KeptPositions ==
    ASSUME NEW T, NEW s \in Seq(T), NEW kept
    PROVE  /\ Kept(s, kept) \in Seq(T)
           /\ \E pos : KeptAt(s, kept, Kept(s, kept), pos)
<1> DEFINE N == Len(s)
           V == Seq(T)
           Equation(f) == [n \in 0..N |->
               IF n = 0 THEN <<>>
               ELSE IF n \in kept THEN Append(f[n - 1], s[n]) ELSE f[n - 1]]
           upTo == CHOOSE f : f = Equation(f)
           step == [n \in 1..N |-> [v \in V |-> IF n \in kept THEN Append(v, s[n]) ELSE v]]
<1>1. N \in Nat /\ \A n \in 1..N : s[n] \in T
  BY LenProperties, ElementOfSeq
<1>2. <<>> \in V
  BY EmptySeq
<1>3. step \in [1..N -> [V -> V]]
  BY <1>1, AppendProperties
<1>4. \E f \in [0..N -> V] : f = Equation(f)
  <2>0. N \in Nat /\ <<>> \in V /\ step \in Steps(1..N, V)
    BY <1>1, <1>2, <1>3 DEF Steps
  <2>1. PICK f : Accumulates(f, N, V, <<>>, step)
    <3> HIDE DEF N, V, step
    <3> QED
      BY <2>0, RecursionOnNumbers
  <2>a. f \in [0..N -> V] /\ f[0] = <<>> /\ \A n \in 1..N : f[n] = step[n][f[n - 1]]
    <3> HIDE DEF N, V, step
    <3> QED
      BY <2>1 DEF Accumulates
  <2>2. ASSUME NEW n \in 0..N, n # 0
        PROVE  f[n] = IF n \in kept THEN Append(f[n - 1], s[n]) ELSE f[n - 1]
    <3>1. n \in 1..N /\ n - 1 \in 0..N
      BY <1>1, <2>2
    <3>2. f[n - 1] \in V
      BY <2>a, <3>1
    <3>3. f[n] = step[n][f[n - 1]]
      BY <2>a, <3>1
    <3> QED
      BY <3>1, <3>2, <3>3
  <2>3. f = Equation(f)
    <3> HIDE DEF step, V, N
    <3> QED
      BY <2>0, <2>a, <2>2
  <2> QED
    BY <2>a, <2>3
<1>5. upTo = Equation(upTo)
  BY <1>4
<1>6. Kept(s, kept) = upTo[N]
  BY DEF Kept
<1> HIDE DEF upTo
<1>7. /\ upTo[0] = <<>>
      /\ \A n \in 1..N : upTo[n] = IF n \in kept THEN Append(upTo[n - 1], s[n]) ELSE upTo[n - 1]
  <2>1. 0 \in 0..N /\ \A n \in 1..N : n \in 0..N /\ n # 0
    BY <1>1
  <2> HIDE DEF N
  <2> QED
    BY <1>5, <2>1
<1> DEFINE At(n, pos) ==
               /\ pos \in [1..Len(upTo[n]) -> {i \in 1..n : i \in kept}]
               /\ \A j, k \in 1..Len(upTo[n]) : j < k => pos[j] < pos[k]
               /\ \A i \in 1..n : i \in kept => \E k \in 1..Len(upTo[n]) : pos[k] = i
               /\ \A k \in 1..Len(upTo[n]) : upTo[n][k] = s[pos[k]]
           M == {n \in Nat : n <= N => upTo[n] \in V /\ \E pos : At(n, pos)}
<1>8. 0 \in M
  <2> DEFINE pos == [k \in 1..0 |-> k]
  <2>1. upTo[0] \in V /\ Len(upTo[0]) = 0
    BY <1>2, <1>7, EmptySeq
  <2>2. At(0, pos)
    BY <2>1
  <2> QED
    BY <2>1, <2>2
<1>9. ASSUME NEW n \in Nat, n \in M PROVE n + 1 \in M
  <2> SUFFICES ASSUME n + 1 <= N PROVE upTo[n + 1] \in V /\ \E pos : At(n + 1, pos)
    <3> HIDE DEF At, V, N
    <3> QED
      OBVIOUS
  <2>1. n <= N /\ n + 1 \in 1..N /\ (n + 1) - 1 = n
    BY <1>1
  <2>2. upTo[n] \in V
    BY <1>9, <2>1
  <2>3. PICK pos : At(n, pos)
    BY <1>9, <2>1
  <2>4. Len(upTo[n]) \in Nat
    BY <2>2, LenProperties
  <2>5. CASE n + 1 \notin kept
    <3>1. upTo[n + 1] = upTo[n]
      BY <1>7, <2>1, <2>5
    <3>2. At(n + 1, pos)
      BY <2>3, <2>4, <2>5, <3>1
    <3> QED
      BY <2>2, <3>1, <3>2
  <2>6. CASE n + 1 \in kept
    <3> DEFINE L == Len(upTo[n])
               new == [k \in 1..(L + 1) |-> IF k = L + 1 THEN n + 1 ELSE pos[k]]
    <3>1. upTo[n + 1] = Append(upTo[n], s[n + 1]) /\ s[n + 1] \in T
      BY <1>1, <1>7, <2>1, <2>6
    <3>2. /\ upTo[n + 1] \in V /\ Len(upTo[n + 1]) = L + 1
          /\ \A k \in 1..L : upTo[n + 1][k] = upTo[n][k]
          /\ upTo[n + 1][L + 1] = s[n + 1]
      BY <2>2, <3>1, AppendProperties
    <3>3. \A k \in 1..(L + 1) : k # L + 1 => k \in 1..L
      BY <2>4
    <3>4. \A k \in 1..L : pos[k] \in 1..n /\ pos[k] \in kept /\ pos[k] \in Nat /\ pos[k] < n + 1
      <4>1. \A k \in 1..L : pos[k] \in {i \in 1..n : i \in kept}
        BY <2>3
      <4>2. \A i \in 1..n : i \in Nat /\ i < n + 1
        OBVIOUS
      <4> HIDE DEF L
      <4> QED
        BY <4>1, <4>2
    <3>5. new \in [1..(L + 1) -> {i \in 1..(n + 1) : i \in kept}]
      BY <2>6, <3>3, <3>4
    <3>6. \A j, k \in 1..(L + 1) : j < k => new[j] < new[k]
      BY <2>3, <2>4, <3>3, <3>4
    <3>7. \A i \in 1..(n + 1) : i \in kept => \E k \in 1..(L + 1) : new[k] = i
      <4>1. new[L + 1] = n + 1 /\ L + 1 \in 1..(L + 1)
        BY <2>4
      <4>2. \A i \in 1..(n + 1) : i # n + 1 => i \in 1..n
        OBVIOUS
      <4>3. \A k \in 1..L : k \in 1..(L + 1) /\ new[k] = pos[k]
        BY <2>4
      <4> HIDE DEF new
      <4> QED
        BY <2>3, <4>1, <4>2, <4>3
    <3>8. \A k \in 1..(L + 1) : upTo[n + 1][k] = s[new[k]]
      BY <2>3, <3>2, <3>3
    <3> HIDE DEF new, L
    <3>9. At(n + 1, new)
      BY <3>2, <3>5, <3>6, <3>7, <3>8
    <3> QED
      BY <3>2, <3>9
  <2> QED
    BY <2>5, <2>6
<1> HIDE DEF M
<1>10. N \in M
  BY <1>1, <1>8, <1>9, NatInductionOnSet
<1>11. upTo[N] \in V /\ \E pos : At(N, pos)
  BY <1>1, <1>10 DEF M
<1> QED
  BY <1>6, <1>11 DEF KeptAt

\* new has the elements of old and those of more.
Together(new, old, more) ==
    /\ \A k \in 1..Len(new) : \/ \E i \in 1..Len(old) : new[k] = old[i]
                              \/ \E i \in 1..Len(more) : new[k] = more[i]
    /\ \A i \in 1..Len(old) : \E k \in 1..Len(new) : new[k] = old[i]
    /\ \A i \in 1..Len(more) : \E k \in 1..Len(new) : new[k] = more[i]

LEMMA ConcatElements ==
    ASSUME NEW T, NEW old \in Seq(T), NEW more \in Seq(T)
    PROVE  old \o more \in Seq(T) /\ Together(old \o more, old, more)
<1> DEFINE a == Len(old)
           b == Len(more)
           new == old \o more
<1>1. a \in Nat /\ b \in Nat
  BY LenProperties
<1>2. /\ new \in Seq(T) /\ Len(new) = a + b
      /\ \A k \in 1..(a + b) : new[k] = IF k <= a THEN old[k] ELSE more[k - a]
  BY ConcatProperties
<1> HIDE DEF a, b, new
<1>3. ASSUME NEW k \in 1..(a + b)
      PROVE  \/ \E i \in 1..a : new[k] = old[i]
             \/ \E i \in 1..b : new[k] = more[i]
  <2>1. CASE k <= a
    <3>1. k \in 1..a /\ new[k] = old[k]
      BY <1>1, <1>2, <2>1
    <3> QED
      BY <3>1
  <2>2. CASE ~(k <= a)
    <3>1. k - a \in 1..b /\ new[k] = more[k - a]
      BY <1>1, <1>2, <2>2
    <3> QED
      BY <3>1
  <2> QED
    BY <2>1, <2>2
<1>4. ASSUME NEW i \in 1..a PROVE i \in 1..(a + b) /\ new[i] = old[i]
  BY <1>1, <1>2
<1>5. ASSUME NEW i \in 1..b PROVE i + a \in 1..(a + b) /\ new[i + a] = more[i]
  <2>1. i + a \in 1..(a + b) /\ ~(i + a <= a) /\ (i + a) - a = i
    BY <1>1
  <2> QED
    BY <1>2, <2>1
<1> QED
  BY <1>2, <1>3, <1>4, <1>5 DEF a, b, new, Together

\* FlattenSeq has the elements of its sequences and no others.
LEMMA FlattenElements ==
    ASSUME NEW T, NEW seqs \in Seq(Seq(T))
    PROVE  /\ FlattenSeq(seqs) \in Seq(T)
           /\ \A k \in 1..Len(FlattenSeq(seqs)) : \E t \in 1..Len(seqs) :
                 \E i \in 1..Len(seqs[t]) : FlattenSeq(seqs)[k] = seqs[t][i]
           /\ \A t \in 1..Len(seqs) : \A i \in 1..Len(seqs[t]) :
                 \E k \in 1..Len(FlattenSeq(seqs)) : FlattenSeq(seqs)[k] = seqs[t][i]
<1> DEFINE N == Len(seqs)
           V == Seq(T)
           Equation(f) == [n \in 1..N |-> IF n = 1 THEN seqs[n] ELSE f[n - 1] \o seqs[n]]
           flatten == CHOOSE f : f = Equation(f)
           step == [n \in 1..N |-> [v \in V |-> v \o seqs[n]]]
<1>1. N \in Nat /\ \A n \in 1..N : seqs[n] \in V
  BY LenProperties, ElementOfSeq
<1>2. CASE N = 0
  <2>1. seqs = <<>>
    BY <1>2, EmptySeq
  <2>2. FlattenSeq(seqs) = <<>>
    BY <1>2, <2>1 DEF FlattenSeq
  <2> QED
    BY <1>2, <2>2, EmptySeq
<1>3. CASE N # 0
  <2>1. <<>> \in V /\ step \in Steps(1..N, V)
    BY <1>1, EmptySeq, ConcatProperties DEF Steps
  <2>2. PICK f : Accumulates(f, N, V, <<>>, step)
    <3> HIDE DEF N, V, step
    <3> QED
      BY <1>1, <2>1, RecursionOnNumbers
  <2>3. f \in [0..N -> V] /\ f[0] = <<>> /\ \A n \in 1..N : f[n] = step[n][f[n - 1]]
    <3> HIDE DEF N, V, step
    <3> QED
      BY <2>2 DEF Accumulates
  <2>4. ASSUME NEW n \in 1..N
        PROVE  f[n - 1] \in V /\ f[n] = f[n - 1] \o seqs[n]
    <3>1. n - 1 \in 0..N
      BY <1>1
    <3>2. f[n - 1] \in V
      BY <2>3, <3>1
    <3>3. f[n] = step[n][f[n - 1]]
      BY <2>3
    <3> QED
      BY <3>2, <3>3
  <2> DEFINE g == [n \in 1..N |-> f[n]]
  <2>5. ASSUME NEW n \in 1..N PROVE g[n] = Equation(g)[n]
    <3>1. CASE n = 1
      <4>1. f[1] = <<>> \o seqs[1]
        <5>1. f[n] = f[n - 1] \o seqs[n]
          BY <2>4
        <5>2. n - 1 = 0
          BY <3>1
        <5> HIDE DEF N, V
        <5> QED
          BY <2>3, <3>1, <5>1, <5>2
      <4>2. <<>> \o seqs[1] = seqs[1]
        BY <1>1, <3>1, ConcatEmptySeq
      <4> QED
        BY <3>1, <4>1, <4>2
    <3>2. CASE n # 1
      <4>1. n - 1 \in 1..N
        BY <1>1, <3>2
      <4> QED
        BY <2>4, <3>2, <4>1
    <3> QED
      BY <3>1, <3>2
  <2>6. g = Equation(g)
    BY <2>5
  <2>7. flatten = Equation(flatten)
    BY <2>6
  <2>8. FlattenSeq(seqs) = flatten[N]
    BY <1>3 DEF FlattenSeq
  <2>9. /\ flatten[1] = seqs[1]
        /\ \A n \in 1..N : n # 1 => flatten[n] = flatten[n - 1] \o seqs[n]
    <3>1. 1 \in 1..N
      BY <1>1, <1>3
    <3> HIDE DEF flatten, N
    <3> QED
      BY <2>7, <3>1
  <2> HIDE DEF flatten
  <2> DEFINE Has(n) ==
                 /\ \A k \in 1..Len(flatten[n]) : \E t \in 1..n :
                       \E i \in 1..Len(seqs[t]) : flatten[n][k] = seqs[t][i]
                 /\ \A t \in 1..n : \A i \in 1..Len(seqs[t]) :
                       \E k \in 1..Len(flatten[n]) : flatten[n][k] = seqs[t][i]
             M == {n \in Nat : n + 1 <= N => flatten[n + 1] \in V /\ Has(n + 1)}
  <2>10. 0 \in M
    <3>1. flatten[1] \in V
      BY <1>1, <1>3, <2>9
    <3>2. Has(1)
      BY <2>9
    <3>3. 0 + 1 = 1
      OBVIOUS
    <3> HIDE DEF Has, V, N
    <3> QED
      BY <3>1, <3>2, <3>3
  <2>11. ASSUME NEW n \in Nat, n \in M PROVE n + 1 \in M
    <3> DEFINE m == n + 1
    <3> SUFFICES ASSUME m + 1 <= N PROVE flatten[m + 1] \in V /\ Has(m + 1)
      <4> HIDE DEF Has, V, N
      <4> QED
        OBVIOUS
    <3>1. m \in Nat /\ m # 0 /\ m + 1 \in 1..N /\ m <= N
      BY <1>1
    <3>2. flatten[m] \in V /\ Has(m)
      BY <2>11, <3>1
    <3> HIDE DEF m
    <3> DEFINE old == flatten[m]
               more == seqs[m + 1]
               new == flatten[m + 1]
    <3>3. new = old \o more /\ old \in V /\ more \in V
      <4>1. (m + 1) - 1 = m /\ m + 1 # 1
        BY <3>1
      <4> QED
        BY <1>1, <2>9, <3>1, <3>2, <4>1
    <3>4. new \in V /\ Together(new, old, more)
      <4> HIDE DEF old, more, new
      <4> QED
        BY <3>3, ConcatElements
    <3>a. \A t \in 1..m : t \in 1..(m + 1)
      BY <3>1
    <3>b. m + 1 \in 1..(m + 1) /\ \A t \in 1..(m + 1) : t # m + 1 => t \in 1..m
      BY <3>1
    <3>c. /\ \A k \in 1..Len(old) : \E t \in 1..m :
                \E i \in 1..Len(seqs[t]) : old[k] = seqs[t][i]
          /\ \A t \in 1..m : \A i \in 1..Len(seqs[t]) :
                \E k \in 1..Len(old) : old[k] = seqs[t][i]
      BY <3>2
    <3> HIDE DEF new, old, Has, V, N
    <3>5. ASSUME NEW k \in 1..Len(new)
          PROVE  \E t \in 1..(m + 1) : \E i \in 1..Len(seqs[t]) : new[k] = seqs[t][i]
      <4>1. CASE \E i \in 1..Len(old) : new[k] = old[i]
        BY <3>a, <3>c, <4>1
      <4>2. CASE \E i \in 1..Len(more) : new[k] = more[i]
        BY <3>b, <4>2
      <4> QED
        BY <3>4, <4>1, <4>2 DEF Together
    <3>6. ASSUME NEW t \in 1..(m + 1), NEW i \in 1..Len(seqs[t])
          PROVE  \E k \in 1..Len(new) : new[k] = seqs[t][i]
      <4>1. CASE t = m + 1
        BY <3>4, <4>1 DEF Together
      <4>2. CASE t # m + 1
        BY <3>4, <3>b, <3>c, <4>2 DEF Together
      <4> QED
        BY <4>1, <4>2
    <3> QED
      BY <3>4, <3>5, <3>6 DEF Has, new
  <2> HIDE DEF M
  <2>12. N - 1 \in Nat /\ (N - 1) + 1 = N
    BY <1>1, <1>3
  <2>13. N - 1 \in M
    BY <2>10, <2>11, <2>12, NatInductionOnSet
  <2>14. flatten[N] \in V /\ Has(N)
    BY <1>1, <2>12, <2>13 DEF M
  <2> QED
    BY <2>8, <2>14
<1> QED
  BY <1>2, <1>3

-----------------------------------------------------------------------------
(* Sums.                                                                   *)

\* F gives the sum of f over each subset of S.
IsSum(F, S, f) ==
    /\ F \in [SUBSET S -> Int]
    /\ F[{}] = 0
    /\ \A s \in SUBSET S : \A x \in s : F[s] = f[x] + F[s \ {x}]

LEMMA SumUnfolds ==
    ASSUME NEW S, IsFiniteSet(S), NEW f \in [S -> Int]
    PROVE  \E F \in [SUBSET S -> Int] :
              /\ F[{}] = 0
              /\ \A s \in SUBSET S : s # {} =>
                    F[s] = f[CHOOSE x \in s : TRUE] + F[s \ {CHOOSE x \in s : TRUE}]
              /\ SumFunction(f) = F[S]
<1> DEFINE Equation(F) == [s \in SUBSET S |->
               IF s = {} THEN 0
               ELSE f[CHOOSE x \in s : TRUE] + F[s \ {CHOOSE x \in s : TRUE}]]
           iter == CHOOSE F : F = Equation(F)
           pick == [s \in SUBSET S |-> CHOOSE x \in s : TRUE]
           step == [x \in S |-> [v \in Int |-> f[x] + v]]
<1>1. Picks(pick, S)
  BY DEF Picks
<1>2. step \in Steps(S, Int)
  BY DEF Steps
<1>3. PICK F : Folds(F, S, Int, 0, step, pick)
  <2> HIDE DEF step, pick
  <2>1. ASSUME NEW base \in Int PROVE \E F : Folds(F, S, Int, base, step, pick)
    BY <1>1, <1>2, RecursionOnSubsets
  <2> QED
    BY <2>1
<1>4. /\ F \in [SUBSET S -> Int] /\ F[{}] = 0
      /\ \A s \in SUBSET S : s # {} => F[s] = step[pick[s]][F[s \ {pick[s]}]]
  <2> HIDE DEF step, pick
  <2> QED
    BY <1>3 DEF Folds
<1>5. ASSUME NEW s \in SUBSET S, s # {}
      PROVE  F[s] = f[CHOOSE x \in s : TRUE] + F[s \ {CHOOSE x \in s : TRUE}]
  <2> DEFINE p == CHOOSE x \in s : TRUE
  <2>1. p \in S /\ pick[s] = p
    BY <1>5
  <2> HIDE DEF pick, p
  <2>2. F[s \ {p}] \in Int
    BY <1>4
  <2>3. F[s] = f[p] + F[s \ {p}]
    BY <1>4, <1>5, <2>1, <2>2
  <2> QED
    BY <2>3 DEF p
<1>6. F = Equation(F)
  <2> HIDE DEF step
  <2> QED
    BY <1>4, <1>5
<1>7. iter = Equation(iter)
  <2> HIDE DEF Equation
  <2> QED
    BY <1>6
<1>8. iter[{}] = 0
  <2> HIDE DEF iter
  <2> QED
    BY <1>7
<1>9. ASSUME NEW s \in SUBSET S, s # {}
      PROVE  iter[s] = f[CHOOSE x \in s : TRUE] + iter[s \ {CHOOSE x \in s : TRUE}]
  <2> HIDE DEF iter
  <2> QED
    BY <1>7, <1>9
<1>10. iter[S] = F[S]
  <2>1. ASSUME NEW s \in SUBSET S, s # {}, iter[s \ {pick[s]}] \in Int
        PROVE  iter[s] = step[pick[s]][iter[s \ {pick[s]}]]
    <3>1. pick[s] \in S /\ pick[s] = CHOOSE x \in s : TRUE
      BY <2>1
    <3> HIDE DEF iter, pick
    <3> QED
      BY <1>9, <2>1, <3>1
  <2> HIDE DEF iter, step, pick
  <2>2. Unfolds(iter, S, Int, 0, step, pick)
    BY <1>8, <2>1 DEF Unfolds
  <2>3. \A s \in SUBSET S : iter[s] = F[s]
    BY <1>1, <1>3, <2>2, FoldsAgree
  <2> QED
    BY <2>3
<1>11. SumFunction(f) = iter[S]
  <2>1. DOMAIN f = S
    OBVIOUS
  <2>2. SumFunction(f) = MapThenFoldSet(+, 0, LAMBDA i : f[i], LAMBDA s : CHOOSE x \in s : TRUE, S)
    BY <2>1 DEF SumFunction, SumFunctionOnSet, FoldFunctionOnSet
  <2> QED
    BY <2>2 DEF MapThenFoldSet
<1> HIDE DEF iter, Equation, step, pick
<1>12. SumFunction(f) = F[S]
  BY <1>10, <1>11
<1> QED
  BY <1>4, <1>5, <1>12

\* The elements may be taken in any order.
LEMMA SumAnyOrder ==
    ASSUME NEW S, IsFiniteSet(S), NEW f \in [S -> Int]
    PROVE  \E F : IsSum(F, S, f) /\ SumFunction(f) = F[S]
<1>1. PICK F \in [SUBSET S -> Int] :
         /\ F[{}] = 0
         /\ \A s \in SUBSET S : s # {} =>
               F[s] = f[CHOOSE x \in s : TRUE] + F[s \ {CHOOSE x \in s : TRUE}]
         /\ SumFunction(f) = F[S]
  BY SumUnfolds
<1> DEFINE Good(s) == \A x \in s : F[s] = f[x] + F[s \ {x}]
           M == {n \in Nat : \A s \in SUBSET S : Cardinality(s) = n => Good(s)}
<1>2. \A s \in SUBSET S : IsFiniteSet(s) /\ Cardinality(s) \in Nat
  BY FS_Subset, FS_CardinalityType
<1>3. 0 \in M
  <2>1. \A s \in SUBSET S : Cardinality(s) = 0 => s = {}
    BY <1>2, FS_EmptySet
  <2> QED
    BY <2>1
<1>4. ASSUME NEW n \in Nat, n \in M PROVE n + 1 \in M
  <2>1. ASSUME NEW s \in SUBSET S, Cardinality(s) = n + 1, NEW x \in s
        PROVE  F[s] = f[x] + F[s \ {x}]
    <3> DEFINE p == CHOOSE y \in s : TRUE
    <3>1. p \in s /\ F[s] = f[p] + F[s \ {p}]
      BY <1>1
    <3> HIDE DEF p
    <3>2. ASSUME x # p PROVE F[s] = f[x] + F[s \ {x}]
      <4>1. Cardinality(s \ {p}) = n /\ Cardinality(s \ {x}) = n
        <5>1. /\ Cardinality(s \ {p}) = Cardinality(s) - 1
              /\ Cardinality(s \ {x}) = Cardinality(s) - 1
          BY <1>2, <3>1, FS_RemoveElement
        <5> QED
          BY <2>1, <5>1
      <4>2. F[s \ {p}] = f[x] + F[(s \ {p}) \ {x}]
        <5>1. s \ {p} \in SUBSET S /\ x \in s \ {p}
          BY <3>2
        <5> QED
          BY <1>4, <4>1, <5>1
      <4>3. F[s \ {x}] = f[p] + F[(s \ {x}) \ {p}]
        <5>1. s \ {x} \in SUBSET S /\ p \in s \ {x}
          BY <3>1, <3>2
        <5> QED
          BY <1>4, <4>1, <5>1
      <4>4. (s \ {x}) \ {p} = (s \ {p}) \ {x}
        OBVIOUS
      <4>5. F[(s \ {p}) \ {x}] \in Int /\ f[x] \in Int /\ f[p] \in Int
        BY <1>1, <3>1
      <4> DEFINE rest == F[(s \ {p}) \ {x}]
      <4>6. F[s \ {x}] = f[p] + rest
        BY <4>3, <4>4
      <4>7. F[s \ {p}] = f[x] + rest /\ rest \in Int
        BY <4>2, <4>5
      <4> HIDE DEF rest
      <4> QED
        BY <3>1, <4>5, <4>6, <4>7
    <3> QED
      BY <3>1, <3>2
  <2> QED
    BY <2>1
<1> HIDE DEF M
<1>5. Nat \subseteq M
  BY <1>3, <1>4, NatInductionOnSet
<1>6. \A s \in SUBSET S : Good(s)
  BY <1>2, <1>5 DEF M
<1> QED
  BY <1>1, <1>6 DEF IsSum

LEMMA SumAdds ==
    ASSUME NEW S, NEW f, NEW F, IsSum(F, S, f), NEW s \in SUBSET S, NEW x \in S \ s
    PROVE  F[s \cup {x}] = f[x] + F[s]
<1> DEFINE t == s \cup {x}
<1>1. t \in SUBSET S /\ x \in t /\ t \ {x} = s
  OBVIOUS
<1> HIDE DEF t
<1>2. F[t] = f[x] + F[t \ {x}]
  BY <1>1 DEF IsSum
<1>3. F[t] = f[x] + F[s]
  BY <1>1, <1>2
<1> QED
  BY <1>3 DEF t

\* Two families with the same numbers have the same sum, however they are indexed.
LEMMA SumBijection ==
    ASSUME NEW S, IsFiniteSet(S), NEW f \in [S -> Int],
           NEW T, NEW g \in [T -> Int],
           NEW b \in Bijection(S, T), \A s \in S : f[s] = g[b[s]]
    PROVE  SumFunction(f) = SumFunction(g)
<1>1. IsFiniteSet(T)
  BY FS_Bijection DEF ExistsBijection
<1>2. PICK F : IsSum(F, S, f) /\ SumFunction(f) = F[S]
  BY SumAnyOrder
<1>3. PICK G : IsSum(G, T, g) /\ SumFunction(g) = G[T]
  BY <1>1, SumAnyOrder
<1>4. /\ b \in [S -> T]
      /\ \A x, y \in S : x # y => b[x] # b[y]
      /\ \A t \in T : \E s \in S : b[s] = t
  BY DEF Bijection, Injection, Surjection, IsInjective
<1> DEFINE image(s) == {b[x] : x \in s}
           P == {s \in SUBSET S : F[s] = G[image(s)]}
<1>5. {} \in P
  <2>1. image({}) = {}
    OBVIOUS
  <2> QED
    BY <1>2, <1>3, <2>1 DEF IsSum
<1>6. ASSUME NEW s \in SUBSET S, NEW x \in S \ s, s \in P PROVE s \cup {x} \in P
  <2>1. image(s \cup {x}) = image(s) \cup {b[x]} /\ b[x] \notin image(s)
    BY <1>4
  <2>3. image(s) \in SUBSET T /\ b[x] \in T \ image(s)
    BY <1>4, <2>1
  <2>4. F[s] = G[image(s)]
    BY <1>6
  <2> HIDE DEF image
  <2>5. G[image(s) \cup {b[x]}] = g[b[x]] + G[image(s)]
    BY <1>3, <2>3, SumAdds
  <2>6. F[s \cup {x}] = f[x] + F[s]
    BY <1>2, SumAdds
  <2>7. F[s \cup {x}] = G[image(s \cup {x})]
    BY <2>1, <2>4, <2>5, <2>6
  <2> QED
    BY <2>7
<1>7. S \in P
  <2> HIDE DEF P
  <2> QED
    BY <1>5, <1>6, FiniteInductionOnSet
<1>8. image(S) = T
  BY <1>4
<1> QED
  BY <1>2, <1>3, <1>7, <1>8

LEMMA SumNatural ==
    ASSUME NEW S, IsFiniteSet(S), NEW f \in [S -> Nat]
    PROVE  SumFunction(f) \in Nat
<1>1. PICK F : IsSum(F, S, f) /\ SumFunction(f) = F[S]
  BY SumAnyOrder
<1> DEFINE P == {s \in SUBSET S : F[s] \in Nat}
<1>2. {} \in P
  BY <1>1 DEF IsSum
<1>3. ASSUME NEW s \in SUBSET S, NEW x \in S \ s, s \in P PROVE s \cup {x} \in P
  <2>1. F[s \cup {x}] = f[x] + F[s]
    BY <1>1, SumAdds
  <2> QED
    BY <1>3, <2>1
<1> HIDE DEF P
<1>4. S \in P
  BY <1>2, <1>3, FiniteInductionOnSet
<1> QED
  BY <1>1, <1>4 DEF P

LEMMA ImageCounts ==
    ASSUME NEW S, IsFiniteSet(S), NEW f, \A x, y \in S : f[x] = f[y] => x = y
    PROVE  /\ IsFiniteSet({f[x] : x \in S})
           /\ Cardinality({f[x] : x \in S}) = Cardinality(S)
<1> DEFINE g == [x \in S |-> f[x]]
           T == {f[x] : x \in S}
<1>1. g \in Bijection(S, T)
  BY DEF Bijection, Injection, Surjection, IsInjective
<1> HIDE DEF g, T
<1>2. ExistsBijection(S, T)
  BY <1>1 DEF ExistsBijection
<1>3. IsFiniteSet(T) /\ Cardinality(T) = Cardinality(S)
  BY <1>2, FS_Bijection
<1> QED
  BY <1>3 DEF T

\* What is counted class by class is counted once.
LEMMA ClassesAddUp ==
    ASSUME NEW S, IsFiniteSet(S), NEW Q, IsFiniteSet(Q), NEW p \in [Q -> S],
           NEW f, f = [s \in S |-> Cardinality({x \in Q : p[x] = s})]
    PROVE  SumFunction(f) = Cardinality(Q)
<1> DEFINE Of(s) == {x \in Q : p[x] = s}
           Into(s) == {x \in Q : p[x] \in s}
<1>1. /\ \A s \in S : IsFiniteSet(Of(s)) /\ Cardinality(Of(s)) \in Nat
      /\ \A s \in SUBSET S : IsFiniteSet(Into(s)) /\ Cardinality(Into(s)) \in Nat
  <2>1. (\A s \in S : Of(s) \subseteq Q) /\ \A s \in SUBSET S : Into(s) \subseteq Q
    OBVIOUS
  <2> HIDE DEF Of, Into
  <2> QED
    BY <2>1, FS_Subset, FS_CardinalityType
<1>2. f \in [S -> Int] /\ \A s \in S : f[s] = Cardinality(Of(s))
  <2>1. f = [s \in S |-> Cardinality(Of(s))]
    OBVIOUS
  <2> HIDE DEF Of
  <2>2. \A s \in S : Cardinality(Of(s)) \in Int
    BY <1>1
  <2> QED
    BY <2>1, <2>2
<1>3. PICK F : IsSum(F, S, f) /\ SumFunction(f) = F[S]
  BY <1>2, SumAnyOrder
<1> DEFINE P == {s \in SUBSET S : F[s] = Cardinality(Into(s))}
<1>4. {} \in P
  <2>1. Into({}) = {}
    OBVIOUS
  <2> HIDE DEF Into
  <2> QED
    BY <1>3, <2>1, FS_EmptySet DEF IsSum
<1>5. ASSUME NEW s \in SUBSET S, NEW x \in S \ s, s \in P PROVE s \cup {x} \in P
  <2>1. Into(s \cup {x}) = Into(s) \cup Of(x) /\ Into(s) \cap Of(x) = {}
    OBVIOUS
  <2>2. F[s] = Cardinality(Into(s))
    BY <1>5
  <2> HIDE DEF Of, Into
  <2>3. F[s \cup {x}] = f[x] + F[s]
    BY <1>3, SumAdds
  <2>4. Cardinality(Into(s) \cup Of(x)) =
           Cardinality(Into(s)) + Cardinality(Of(x)) - Cardinality(Into(s) \cap Of(x))
    BY <1>1, FS_Union
  <2>5. Cardinality(Into(s) \cap Of(x)) = 0
    BY <2>1, FS_EmptySet
  <2>6. Cardinality(Into(s) \cup Of(x)) = Cardinality(Into(s)) + Cardinality(Of(x))
    BY <1>1, <2>4, <2>5
  <2>7. F[s \cup {x}] = Cardinality(Into(s) \cup Of(x))
    BY <1>1, <1>2, <2>2, <2>3, <2>6
  <2> QED
    BY <2>1, <2>7
<1> HIDE DEF P
<1>6. S \in P
  BY <1>4, <1>5, FiniteInductionOnSet
<1>7. Into(S) = Q
  OBVIOUS
<1> QED
  BY <1>3, <1>6, <1>7 DEF P

=============================================================================
