------------------------------- MODULE SumFacts -------------------------------
(***************************************************************************)
(* Facts about finite sets and sums over them.  The sums of the community  *)
(* modules are recursive functions on the subsets of a set; that there is  *)
(* such a function, and what it computes, is derived here from the         *)
(* well-founded order of the finite sets.                                  *)
(***************************************************************************)
EXTENDS Integers, Sequences, FiniteSets, FiniteSetsExt, FiniteSetTheorems, SequenceTheorems,
        WellFoundedInduction, TLAPS


-------------------------------------------------------------------------------
(* Induction over the subsets of a finite set, for a set of good subsets.  *)
LEMMA SubsetInduction ==
    ASSUME NEW T, IsFiniteSet(T), NEW Good,
           \A s \in SUBSET T : (\A r \in SUBSET s : r # s => r \in Good) => s \in Good
    PROVE  \A s \in SUBSET T : s \in Good
<1> DEFINE R == StrictSubsetOrdering(T)
           Bad == {s \in SUBSET T : s \notin Good}
<1>1. IsWellFoundedOn(R, SUBSET T)
  BY FS_StrictSubsetOrderingWellFounded, FS_FiniteSubsetsOfFinite
<1>2. SUFFICES ASSUME Bad # {} PROVE FALSE
  OBVIOUS
<1> HIDE DEF R
<1>3. PICK s \in Bad : \A r \in Bad : <<r, s>> \notin R
  <2>1. Bad \subseteq SUBSET T
    OBVIOUS
  <2> HIDE DEF Bad
  <2> QED BY <1>1, <1>2, <2>1, WFMin
<1>4. ASSUME NEW r \in SUBSET s, r # s PROVE r \in Good
  <2>1. <<r, s>> \in R
    BY <1>3, <1>4 DEF R, StrictSubsetOrdering
  <2> QED BY <1>3, <1>4, <2>1
<1> QED BY <1>3, <1>4

(* Induction over the numbers up to n, for a set of good numbers.          *)
LEMMA NumberInduction ==
    ASSUME NEW n \in Nat, NEW Good, 0 \in Good,
           \A i \in 0..n : (i # 0 /\ i - 1 \in Good) => i \in Good
    PROVE  \A i \in 0..n : i \in Good
<1> DEFINE Fine == {s \in SUBSET (0..n) : \A i \in 0..n : s = 0..i => i \in Good}
<1>1. IsFiniteSet(0..n)
  BY FS_Interval
<1>2. ASSUME NEW s \in SUBSET (0..n), \A r \in SUBSET s : r # s => r \in Fine
      PROVE  s \in Fine
  <2>1. ASSUME NEW i \in 0..n, s = 0..i PROVE i \in Good
    <3>1. CASE i = 0
      BY <3>1
    <3>2. CASE i # 0
      <4>1. /\ i - 1 \in 0..n /\ 0..(i - 1) \in SUBSET s /\ i \in s /\ i \notin 0..(i - 1)
        BY <2>1, <3>2
      <4>2. 0..(i - 1) \in Fine
        BY <1>2, <4>1
      <4> QED BY <3>2, <4>1, <4>2
    <3> QED BY <3>1, <3>2
  <2> QED BY <2>1
<1> HIDE DEF Fine
<1>3. \A s \in SUBSET (0..n) : s \in Fine
  BY <1>1, <1>2, SubsetInduction
<1>4. ASSUME NEW i \in 0..n PROVE i \in Good
  <2>1. 0..i \in Fine
    BY <1>3
  <2> QED BY <2>1 DEF Fine
<1> QED BY <1>4

(* A nonempty set of numbers up to n has a greatest one.                   *)
LEMMA Extremum ==
    ASSUME NEW n \in Nat, NEW S \in SUBSET (0..n), S # {}
    PROVE  Max(S) \in S /\ \A x \in S : x <= Max(S)
<1> DEFINE Good == {k \in 0..n : S \cap (0..k) = {} \/ \E m \in S : \A x \in S \cap (0..k) : x <= m}
<1>1. 0 \in Good
  <2>1. CASE 0 \in S
    BY <2>1
  <2>2. CASE 0 \notin S
    BY <2>2
  <2> QED BY <2>1, <2>2
<1>2. ASSUME NEW k \in 0..n, k # 0, k - 1 \in Good PROVE k \in Good
  <2>1. CASE k \in S
    BY <2>1
  <2>2. CASE k \notin S
    <3>1. S \cap (0..k) = S \cap (0..(k - 1))
      BY <1>2, <2>2
    <3> QED BY <1>2, <3>1
  <2> QED BY <2>1, <2>2
<1> HIDE DEF Good
<1>3. n \in Good
  <2>1. \A k \in 0..n : k \in Good
    BY <1>1, <1>2, NumberInduction
  <2> QED BY <2>1
<1>4. S \cap (0..n) = S
  OBVIOUS
<1>5. \E m \in S : \A x \in S : x <= m
  BY <1>3, <1>4 DEF Good
<1> QED BY <1>5 DEF Max

-------------------------------------------------------------------------------
(* Sums.                                                                   *)

Total(f, S) == MapThenSumSet(LAMBDA i : f[i], S)

Pick(s) == CHOOSE x \in s : TRUE

(* g is the function by which the sum of f over T is computed.             *)
SumsUp(g, f, T) ==
    g = [s \in SUBSET T |-> IF s = {} THEN 0 ELSE f[Pick(s)] + g[s \ {Pick(s)}]]

LEMMA Picked ==
    ASSUME NEW s, s # {}
    PROVE  Pick(s) \in s /\ s \ {Pick(s)} \in SUBSET s /\ s \ {Pick(s)} # s
BY DEF Pick

LEMMA SumsUpUnique ==
    ASSUME NEW T, IsFiniteSet(T), NEW f, NEW g, NEW h, SumsUp(g, f, T), SumsUp(h, f, T)
    PROVE  g = h
<1> DEFINE Good == {s \in SUBSET T : g[s] = h[s]}
<1>1. ASSUME NEW s \in SUBSET T, \A r \in SUBSET s : r # s => r \in Good
      PROVE  s \in Good
  <2>1. CASE s = {}
    BY <2>1 DEF SumsUp
  <2>2. CASE s # {}
    <3>1. g[s \ {Pick(s)}] = h[s \ {Pick(s)}]
      BY <1>1, <2>2, Picked
    <3>2. g[s] = f[Pick(s)] + g[s \ {Pick(s)}] /\ h[s] = f[Pick(s)] + h[s \ {Pick(s)}]
      BY <2>2 DEF SumsUp
    <3> QED BY <3>1, <3>2
  <2> QED BY <2>1, <2>2
<1> HIDE DEF Good
<1>2. \A s \in SUBSET T : s \in Good
  BY <1>1, SubsetInduction
<1>3. \A s \in SUBSET T : g[s] = h[s]
  BY <1>2 DEF Good
<1>4. /\ g = [s \in SUBSET T |-> g[s]] /\ h = [s \in SUBSET T |-> h[s]]
  BY DEF SumsUp
<1> QED BY <1>3, <1>4

LEMMA SumsUpRestricted ==
    ASSUME NEW T, NEW U \in SUBSET T, NEW f, NEW g, SumsUp(g, f, T),
           NEW h, h = [s \in SUBSET U |-> g[s]]
    PROVE  SumsUp(h, f, U)
<1>1. ASSUME NEW s \in SUBSET U
      PROVE  h[s] = IF s = {} THEN 0 ELSE f[Pick(s)] + h[s \ {Pick(s)}]
  <2>1. g[s] = IF s = {} THEN 0 ELSE f[Pick(s)] + g[s \ {Pick(s)}]
    BY DEF SumsUp
  <2>2. h[s \ {Pick(s)}] = g[s \ {Pick(s)}]
    OBVIOUS
  <2> QED BY <2>1, <2>2
<1> QED BY <1>1 DEF SumsUp

LEMMA SumsUpExists ==
    ASSUME NEW T, IsFiniteSet(T), NEW f
    PROVE  \E g : SumsUp(g, f, T)
<1> DEFINE Good == {s \in SUBSET T : \E g : SumsUp(g, f, s)}
           G(s) == CHOOSE g : SumsUp(g, f, s)
<1>1. ASSUME NEW s \in SUBSET T, \A r \in SUBSET s : r # s => r \in Good
      PROVE  s \in Good
  <2>1. \A r \in SUBSET s : r # s => SumsUp(G(r), f, r)
    BY <1>1
  <2> HIDE DEF G, Good
  <2> DEFINE rest(r) == r \ {Pick(r)}
             g == [r \in SUBSET s |->
                      IF r = {} THEN 0 ELSE f[Pick(r)] + G(rest(r))[rest(r)]]
  <2>2. ASSUME NEW r \in SUBSET s, r # s PROVE g[r] = G(r)[r]
    <3>1. CASE r = {}
      BY <2>1, <2>2, <3>1 DEF SumsUp
    <3>2. CASE r # {}
      <4>1. /\ rest(r) \in SUBSET r /\ rest(r) \in SUBSET s /\ rest(r) # s
        BY <3>2, Picked
      <4>2. SumsUp(G(r), f, r) /\ SumsUp(G(rest(r)), f, rest(r))
        BY <2>1, <2>2, <4>1
      <4>3. IsFiniteSet(rest(r))
        BY <4>1, FS_Subset
      <4>4. PICK h : h = [q \in SUBSET rest(r) |-> G(r)[q]]
        OBVIOUS
      <4>5. G(rest(r)) = h
        <5> HIDE DEF rest
        <5>1. SumsUp(h, f, rest(r))
          BY <4>1, <4>2, <4>4, SumsUpRestricted
        <5> QED BY <4>2, <4>3, <5>1, SumsUpUnique
      <4>6. G(rest(r))[rest(r)] = G(r)[rest(r)]
        BY <4>4, <4>5
      <4>7. G(r)[r] = f[Pick(r)] + G(r)[rest(r)]
        BY <3>2, <4>2 DEF SumsUp
      <4> QED BY <3>2, <4>6, <4>7
    <3> QED BY <3>1, <3>2
  <2>3. ASSUME NEW r \in SUBSET s
        PROVE  g[r] = IF r = {} THEN 0 ELSE f[Pick(r)] + g[r \ {Pick(r)}]
    <3>1. CASE r = {}
      BY <3>1
    <3>2. CASE r # {}
      <4>1. rest(r) \in SUBSET s /\ rest(r) # s
        BY <3>2, Picked
      <4>2. g[rest(r)] = G(rest(r))[rest(r)]
        BY <2>2, <4>1
      <4> QED BY <3>2, <4>2
    <3> QED BY <3>1, <3>2
  <2>4. g = [r \in SUBSET s |-> g[r]]
    OBVIOUS
  <2> HIDE DEF g
  <2>5. SumsUp(g, f, s)
    BY <2>3, <2>4 DEF SumsUp
  <2> QED BY <2>5 DEF Good
<1> HIDE DEF Good
<1>2. T \in Good
  BY <1>1, SubsetInduction
<1> QED BY <1>2 DEF Good

(* What a fold over a finite set computes.                                 *)
LEMMA TotalOf ==
    ASSUME NEW S, IsFiniteSet(S), NEW f, NEW g, SumsUp(g, f, S)
    PROVE  Total(f, S) = g[S]
<1> DEFINE it == CHOOSE it : it = [s \in SUBSET S |->
                     IF s = {} THEN 0
                     ELSE LET x == CHOOSE x \in s : TRUE IN f[x] + it[s \ {x}]]
<1>1. Total(f, S) = it[S]
  BY DEF Total, MapThenSumSet, MapThenFoldSet
<1>2. it = [s \in SUBSET S |->
                     IF s = {} THEN 0
                     ELSE LET x == CHOOSE x \in s : TRUE IN f[x] + it[s \ {x}]]
  BY DEF SumsUp, Pick
<1> HIDE DEF it
<1>3. SumsUp(it, f, S)
  BY <1>2 DEF SumsUp, Pick
<1> QED BY <1>1, <1>3, SumsUpUnique

LEMMA TotalSplits ==
    ASSUME NEW S, IsFiniteSet(S), NEW f
    PROVE  /\ Total(f, {}) = 0
           /\ S # {} => Total(f, S) = f[Pick(S)] + Total(f, S \ {Pick(S)})
<1>1. PICK g : SumsUp(g, f, S)
  BY SumsUpExists
<1>2. ASSUME NEW r \in SUBSET S PROVE Total(f, r) = g[r]
  <2>0. PICK h : h = [s \in SUBSET r |-> g[s]]
    OBVIOUS
  <2>1. IsFiniteSet(r) /\ SumsUp(h, f, r)
    <3>1. SumsUp(h, f, r)
      BY <1>1, <2>0, SumsUpRestricted
    <3> QED BY <3>1, FS_Subset
  <2>2. h[r] = g[r]
    BY <2>0
  <2> QED BY <2>1, <2>2, TotalOf
<1>3. g[{}] = 0 /\ (S # {} => g[S] = f[Pick(S)] + g[S \ {Pick(S)}])
  BY <1>1 DEF SumsUp
<1> QED BY <1>2, <1>3, Picked

LEMMA TotalIsInt ==
    ASSUME NEW S, IsFiniteSet(S), NEW f, \A x \in S : f[x] \in Int
    PROVE  Total(f, S) \in Int
<1> DEFINE Good == {s \in SUBSET S : Total(f, s) \in Int}
<1>1. ASSUME NEW s \in SUBSET S, \A r \in SUBSET s : r # s => r \in Good
      PROVE  s \in Good
  <2>1. IsFiniteSet(s)
    BY FS_Subset
  <2>2. CASE s = {}
    <3>1. Total(f, s) = 0
      BY <2>1, <2>2, TotalSplits
    <3> QED BY <3>1
  <2>3. CASE s # {}
    <3>1. Total(f, s \ {Pick(s)}) \in Int /\ f[Pick(s)] \in Int
      BY <1>1, <2>3, Picked
    <3>2. Total(f, s) = f[Pick(s)] + Total(f, s \ {Pick(s)})
      BY <2>1, <2>3, TotalSplits
    <3>3. Total(f, s) \in Int
      <4> HIDE DEF Good
      <4> QED BY <3>1, <3>2
    <3> QED BY <3>3
  <2> QED BY <2>2, <2>3
<1> HIDE DEF Good
<1>2. S \in Good
  BY <1>1, SubsetInduction
<1> QED BY <1>2 DEF Good

(* The order of summation does not matter.                                 *)
LEMMA TotalWithout ==
    ASSUME NEW S, IsFiniteSet(S), NEW f, \A x \in S : f[x] \in Int, NEW x \in S
    PROVE  Total(f, S) = f[x] + Total(f, S \ {x})
<1> DEFINE Good == {s \in SUBSET S : \A y \in s : Total(f, s) = f[y] + Total(f, s \ {y})}
<1>1. ASSUME NEW s \in SUBSET S, \A r \in SUBSET s : r # s => r \in Good
      PROVE  s \in Good
  <2>1. \A r \in SUBSET s : IsFiniteSet(r) /\ Total(f, r) \in Int
    <3>1. ASSUME NEW r \in SUBSET s PROVE IsFiniteSet(r) /\ \A y \in r : f[y] \in Int
      BY FS_Subset
    <3> QED BY <3>1, TotalIsInt
  <2>2. ASSUME NEW y \in s PROVE Total(f, s) = f[y] + Total(f, s \ {y})
    <3> DEFINE z == Pick(s)
    <3>1. z \in s /\ Total(f, s) = f[z] + Total(f, s \ {z})
      BY <2>1, Picked, TotalSplits
    <3> HIDE DEF z
    <3>2. CASE y = z
      BY <3>1, <3>2
    <3>3. CASE y # z
      <4>1. /\ s \ {z} \in SUBSET s /\ s \ {z} # s /\ y \in s \ {z}
            /\ s \ {y} \in SUBSET s /\ s \ {y} # s /\ z \in s \ {y}
        BY <3>1, <3>3
      <4>2. s \ {z} \in Good /\ s \ {y} \in Good
        BY <1>1, <4>1
      <4>3. /\ Total(f, s \ {z}) = f[y] + Total(f, (s \ {z}) \ {y})
            /\ Total(f, s \ {y}) = f[z] + Total(f, (s \ {y}) \ {z})
        BY <4>1, <4>2
      <4>4. (s \ {z}) \ {y} = (s \ {y}) \ {z} /\ (s \ {z}) \ {y} \in SUBSET s
        OBVIOUS
      <4>5. /\ f[y] \in Int /\ f[z] \in Int /\ Total(f, (s \ {z}) \ {y}) \in Int
            /\ Total(f, (s \ {y}) \ {z}) = Total(f, (s \ {z}) \ {y})
        BY <2>1, <3>1, <4>4
      <4> HIDE DEF Good
      <4> QED BY <3>1, <4>3, <4>5
    <3> QED BY <3>2, <3>3
  <2> QED BY <2>2
<1> HIDE DEF Good
<1>2. S \in Good
  BY <1>1, SubsetInduction
<1> QED BY <1>2 DEF Good

LEMMA TotalWith ==
    ASSUME NEW S, IsFiniteSet(S), NEW f, NEW x, x \notin S, f[x] \in Int,
           \A y \in S : f[y] \in Int
    PROVE  Total(f, S \cup {x}) = Total(f, S) + f[x]
<1>1. IsFiniteSet(S \cup {x}) /\ (S \cup {x}) \ {x} = S
  BY FS_AddElement
<1>2. Total(f, S) \in Int
  BY TotalIsInt
<1>3. Total(f, S \cup {x}) = f[x] + Total(f, S)
  <2>1. x \in S \cup {x} /\ \A y \in S \cup {x} : f[y] \in Int
    OBVIOUS
  <2>2. Total(f, S \cup {x}) = f[x] + Total(f, (S \cup {x}) \ {x})
    BY <1>1, <2>1, TotalWithout
  <2> QED BY <1>1, <2>2
<1> QED BY <1>2, <1>3

(* Two summands that agree have the same sum.                              *)
LEMMA TotalSame ==
    ASSUME NEW S, IsFiniteSet(S), NEW f, NEW g, \A x \in S : f[x] = g[x]
    PROVE  Total(f, S) = Total(g, S)
<1>1. PICK h : SumsUp(h, f, S)
  BY SumsUpExists
<1>2. SumsUp(h, g, S)
  <2>1. ASSUME NEW s \in SUBSET S
        PROVE  (IF s = {} THEN 0 ELSE f[Pick(s)] + h[s \ {Pick(s)}])
                  = (IF s = {} THEN 0 ELSE g[Pick(s)] + h[s \ {Pick(s)}])
    BY Picked
  <2> QED BY <1>1, <2>1 DEF SumsUp
<1> QED BY <1>1, <1>2, TotalOf

(* A sum over a part of a set, and over the rest of it.                    *)
LEMMA TotalOfParts ==
    ASSUME NEW S, IsFiniteSet(S), NEW f, \A x \in S : f[x] \in Int, NEW U \in SUBSET S
    PROVE  Total(f, S) = Total(f, U) + Total(f, S \ U)
<1> DEFINE Good == {s \in SUBSET S : Total(f, s) = Total(f, s \cap U) + Total(f, s \ U)}
<1>0. \A r \in SUBSET S : IsFiniteSet(r) /\ Total(f, r) \in Int
  <2>1. ASSUME NEW r \in SUBSET S PROVE IsFiniteSet(r) /\ \A y \in r : f[y] \in Int
    BY FS_Subset
  <2> QED BY <2>1, TotalIsInt
<1>1. ASSUME NEW s \in SUBSET S, \A r \in SUBSET s : r # s => r \in Good
      PROVE  s \in Good
  <2>1. CASE s = {}
    <3>1. s \cap U = {} /\ s \ U = {} /\ Total(f, {}) = 0
      BY <1>0, <2>1, TotalSplits
    <3> QED BY <2>1, <3>1
  <2>2. CASE s # {}
    <3>1. PICK x \in s : TRUE
      BY <2>2
    <3> DEFINE r == s \ {x}
    <3>2. r \in SUBSET s /\ r # s /\ IsFiniteSet(s) /\ f[x] \in Int
      BY <1>0
    <3>3. Total(f, s) = f[x] + Total(f, r)
      BY <3>2, TotalWithout
    <3>4. Total(f, r) = Total(f, r \cap U) + Total(f, r \ U)
      BY <1>1, <3>2
    <3>5. /\ Total(f, r \cap U) \in Int /\ Total(f, r \ U) \in Int
          /\ IsFiniteSet(s \cap U) /\ IsFiniteSet(s \ U)
      BY <1>0
    <3>6. CASE x \in U
      <4>1. s \ U = r \ U /\ (s \cap U) \ {x} = r \cap U /\ x \in s \cap U
        BY <3>6
      <4>2. Total(f, s \cap U) = f[x] + Total(f, r \cap U)
        BY <3>5, <4>1, TotalWithout
      <4>3. Total(f, s) = Total(f, s \cap U) + Total(f, s \ U)
        <5>1. Total(f, s \ U) = Total(f, r \ U)
          BY <4>1
        <5>2. Total(f, r \cap U) \in Int /\ Total(f, r \ U) \in Int /\ f[x] \in Int
          BY <3>2, <3>5
        <5> HIDE DEF r, Good
        <5> QED BY <3>3, <3>4, <4>2, <5>1, <5>2
      <4> QED BY <4>3
    <3>7. CASE x \notin U
      <4>1. s \cap U = r \cap U /\ (s \ U) \ {x} = r \ U /\ x \in s \ U
        BY <3>7
      <4>2. Total(f, s \ U) = f[x] + Total(f, r \ U)
        BY <3>5, <4>1, TotalWithout
      <4>3. Total(f, s) = Total(f, s \cap U) + Total(f, s \ U)
        <5>1. Total(f, s \cap U) = Total(f, r \cap U)
          BY <4>1
        <5>2. Total(f, r \cap U) \in Int /\ Total(f, r \ U) \in Int /\ f[x] \in Int
          BY <3>2, <3>5
        <5> HIDE DEF r, Good
        <5> QED BY <3>3, <3>4, <4>2, <5>1, <5>2
      <4> QED BY <4>3
    <3> QED BY <3>6, <3>7
  <2> QED BY <2>1, <2>2
<1> HIDE DEF Good
<1>2. S \in Good
  BY <1>1, SubsetInduction
<1>3. S \cap U = U
  OBVIOUS
<1> QED BY <1>2, <1>3 DEF Good

LEMMA TotalIsNat ==
    ASSUME NEW S, IsFiniteSet(S), NEW f, \A x \in S : f[x] \in Nat
    PROVE  /\ Total(f, S) \in Nat
           /\ \A x \in S : f[x] <= Total(f, S)
<1> DEFINE Good == {s \in SUBSET S : Total(f, s) \in Nat}
<1>1. ASSUME NEW s \in SUBSET S, \A r \in SUBSET s : r # s => r \in Good
      PROVE  s \in Good
  <2>1. IsFiniteSet(s)
    BY FS_Subset
  <2>2. CASE s = {}
    <3>1. Total(f, s) = 0
      BY <2>1, <2>2, TotalSplits
    <3> QED BY <3>1
  <2>3. CASE s # {}
    <3>1. Total(f, s \ {Pick(s)}) \in Nat /\ f[Pick(s)] \in Nat
      BY <1>1, <2>3, Picked
    <3>2. Total(f, s) = f[Pick(s)] + Total(f, s \ {Pick(s)})
      BY <2>1, <2>3, TotalSplits
    <3>3. Total(f, s) \in Nat
      <4> HIDE DEF Good
      <4> QED BY <3>1, <3>2
    <3> QED BY <3>3
  <2> QED BY <2>2, <2>3
<1> HIDE DEF Good
<1>2. \A s \in SUBSET S : s \in Good
  BY <1>1, SubsetInduction
<1>3. \A s \in SUBSET S : Total(f, s) \in Nat
  BY <1>2 DEF Good
<1>4. ASSUME NEW x \in S PROVE f[x] <= Total(f, S)
  <2>1. Total(f, S) = f[x] + Total(f, S \ {x})
    BY TotalWithout
  <2>2. Total(f, S \ {x}) \in Nat /\ f[x] \in Nat
    BY <1>3
  <2> QED BY <2>1, <2>2
<1> QED BY <1>3, <1>4

(* A sum over more is at least as much, if nothing is negative.            *)
LEMMA TotalGrows ==
    ASSUME NEW S, IsFiniteSet(S), NEW f, \A x \in S : f[x] \in Nat, NEW U \in SUBSET S
    PROVE  Total(f, U) \in Nat /\ Total(f, S) \in Nat /\ Total(f, U) <= Total(f, S)
<1>1. Total(f, S) = Total(f, U) + Total(f, S \ U)
  BY TotalOfParts
<1>2. IsFiniteSet(U) /\ IsFiniteSet(S \ U)
  BY FS_Subset
<1>3. Total(f, U) \in Nat /\ Total(f, S \ U) \in Nat
  BY <1>2, TotalIsNat
<1> QED BY <1>1, <1>3
==============================================================================
