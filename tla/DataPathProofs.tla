--------------------------- MODULE DataPathProofs ---------------------------
(***************************************************************************)
(* What carries data: the reassembler's candidates and the TNC's buffer.   *)
(***************************************************************************)
EXTENDS Sar, TncSession, FiniteSetTheorems, NaturalsInduction, WellFoundedInduction, TLAPS

-----------------------------------------------------------------------------
(* Sums.                                                                   *)

(* Induction on the natural numbers, for a set.                            *)
LEMMA Induction ==
  ASSUME NEW G, 0 \in G, \A n \in Nat : n \in G => n + 1 \in G
  PROVE  \A n \in Nat : n \in G
<1> SUFFICES ASSUME NEW k \in Nat, k \notin G PROVE FALSE
  OBVIOUS
<1> DEFINE B == {n \in Nat : n \notin G}
<1>1. PICK n \in B : \A m \in B : ~(<<m, n>> \in OpToRel(<, Nat))
  <2>1. B # {} /\ B \subseteq Nat
    OBVIOUS
  <2> HIDE DEF B
  <2> QED BY Zenon, <2>1, NatLessThanWellFounded, WFMin
<1>2. n # 0 /\ n \in Nat /\ n \notin G
  OBVIOUS
<1>3. n - 1 \in Nat /\ n - 1 < n /\ (n - 1) + 1 = n
  BY <1>2
<1>4. <<n - 1, n>> \in OpToRel(<, Nat)
  BY <1>2, <1>3 DEF OpToRel
<1>5. n - 1 \in G
  BY Zenon, <1>1, <1>3, <1>4
<1> QED BY <1>2, <1>3, <1>5

(* The sum of f over S, as SumFunctionOnSet computes it: an element at a   *)
(* time, in the order of CHOOSE.                                           *)
SumOver(f, S) == FoldFunctionOnSet(+, 0, f, S)

Pick(s) == CHOOSE x \in s : TRUE
SumBody(f, g, s) == IF s = {} THEN 0 ELSE f[Pick(s)] + g[s \ {Pick(s)}]
IsSum(f, S, g) == g = [s \in SUBSET S |-> SumBody(f, g, s)]

(* The fold is the value of a function that some g is, if any g is.        *)
LEMMA SumUnfolds ==
  ASSUME NEW f, NEW S
  PROVE  SumOver(f, S) = (CHOOSE g : IsSum(f, S, g))[S]
  BY DEF SumOver, FoldFunctionOnSet, MapThenFoldSet, SumBody, Pick, IsSum

(* A set that is not empty has a picked element.                           *)
LEMMA PickIs ==
  ASSUME NEW s, s # {}
  PROVE  Pick(s) \in s
  BY DEF Pick

(* Without one element a finite set is one smaller.                        *)
LEMMA OneLess ==
  ASSUME NEW s, IsFiniteSet(s), NEW x \in s
  PROVE  /\ IsFiniteSet(s \ {x}) /\ Cardinality(s \ {x}) \in Nat /\ Cardinality(s) \in Nat
         /\ Cardinality(s) = Cardinality(s \ {x}) + 1
<1>1. IsFiniteSet(s \ {x}) /\ Cardinality(s \ {x}) = Cardinality(s) - 1
  BY FS_RemoveElement
<1>2. Cardinality(s \ {x}) \in Nat /\ Cardinality(s) \in Nat
  BY <1>1, FS_CardinalityType
<1> QED BY <1>1, <1>2

(* Over a finite set such a function exists.                               *)
LEMMA SumExists ==
  ASSUME NEW f, NEW S, IsFiniteSet(S)
  PROVE  \E g : IsSum(f, S, g)
<1> DEFINE Upto(n, g) == /\ DOMAIN g = SUBSET S
                         /\ g = [s \in SUBSET S |-> g[s]]
                         /\ \A s \in SUBSET S : Cardinality(s) < n => g[s] = SumBody(f, g, s)
           G == {n \in Nat : \E g : Upto(n, g)}
<1>1. \A s \in SUBSET S : IsFiniteSet(s) /\ Cardinality(s) \in Nat /\ Cardinality(s) <= Cardinality(S)
  BY FS_Subset, FS_CardinalityType
<1>2. 0 \in G
  <2> DEFINE z == [s \in SUBSET S |-> 0]
  <2>1. Upto(0, z)
    BY <1>1
  <2> QED BY Zenon, <2>1
<1>3. ASSUME NEW n \in Nat, n \in G PROVE n + 1 \in G
  <2>1. PICK g : Upto(n, g)
    BY Zenon, <1>3
  <2> DEFINE h == [s \in SUBSET S |-> SumBody(f, g, s)]
  <2>2. ASSUME NEW s \in SUBSET S, Cardinality(s) < n + 1
        PROVE  h[s] = SumBody(f, h, s)
    <3>1. CASE s = {}
      BY <3>1 DEF SumBody
    <3>2. CASE s # {}
      <4>1. PICK r : r = s \ {Pick(s)}
        BY Zenon
      <4>2. r \in SUBSET S /\ Cardinality(r) < n
        BY <1>1, <2>2, <3>2, <4>1, PickIs, OneLess
      <4>3. h[r] = g[r]
        BY Zenon, <2>1, <4>2
      <4>4. h[s] = f[Pick(s)] + g[r]
        BY <3>2, <4>1 DEF SumBody
      <4> HIDE DEF h
      <4> QED BY <3>2, <4>1, <4>3, <4>4 DEF SumBody
    <3> QED BY <3>1, <3>2
  <2>3. Upto(n + 1, h)
    BY Zenon, <2>2
  <2> HIDE DEF Upto, h
  <2> QED BY <2>3
<1> HIDE DEF G
<1>4. Cardinality(S) + 1 \in G
  BY <1>1, <1>2, <1>3, Induction, FS_CardinalityType
<1>5. PICK g : Upto(Cardinality(S) + 1, g)
  BY Zenon, <1>4 DEF G
<1>6. \A s \in SUBSET S : g[s] = SumBody(f, g, s)
  <2>1. \A s \in SUBSET S : Cardinality(s) < Cardinality(S) + 1
    BY <1>1, FS_CardinalityType
  <2> QED BY Zenon, <1>5, <2>1
<1>7. IsSum(f, S, g)
  BY Zenon, <1>5, <1>6 DEF IsSum
<1> QED BY <1>7

(* Over subsets of two sets two such functions agree.                      *)
LEMMA SumUnique ==
  ASSUME NEW f, NEW S, IsFiniteSet(S), NEW g, IsSum(f, S, g),
         NEW T, T \subseteq S, NEW h, IsSum(f, T, h)
  PROVE  g[T] = h[T]
<1> DEFINE G == {n \in Nat : \A s \in SUBSET T : Cardinality(s) = n => g[s] = h[s]}
<1>1. \A s \in SUBSET T : s \in SUBSET S /\ IsFiniteSet(s) /\ Cardinality(s) \in Nat
  BY FS_Subset, FS_CardinalityType
<1>2. \A s \in SUBSET T : g[s] = SumBody(f, g, s) /\ h[s] = SumBody(f, h, s)
  BY DEF IsSum
<1>3. 0 \in G
  BY Zenon, <1>1, <1>2, FS_EmptySet DEF SumBody
<1>4. ASSUME NEW n \in Nat, n \in G PROVE n + 1 \in G
  <2> SUFFICES ASSUME NEW s \in SUBSET T, Cardinality(s) = n + 1 PROVE g[s] = h[s]
    OBVIOUS
  <2>1. s # {}
    BY FS_EmptySet
  <2>2. PICK r : r = s \ {Pick(s)}
    BY Zenon
  <2>3. r \in SUBSET T /\ Cardinality(r) = n
    BY <1>1, <2>1, <2>2, PickIs, OneLess
  <2>4. g[r] = h[r]
    BY <1>4, <2>3
  <2> QED BY <1>2, <2>1, <2>2, <2>4 DEF SumBody
<1> HIDE DEF G
<1>5. Cardinality(T) \in G
  BY <1>1, <1>3, <1>4, Induction
<1> QED BY <1>5 DEF G

(* So a sum is nothing, or an element and the rest.                        *)
LEMMA SumPicks ==
  ASSUME NEW f, NEW S, IsFiniteSet(S)
  PROVE  /\ S = {} => SumOver(f, S) = 0
         /\ S # {} => SumOver(f, S) = f[Pick(S)] + SumOver(f, S \ {Pick(S)})
<1> DEFINE g == CHOOSE g : IsSum(f, S, g)
<1>1. IsSum(f, S, g)
  BY SumExists
<1> HIDE DEF g
<1>2. SumOver(f, S) = g[S] /\ g[S] = SumBody(f, g, S)
  BY Zenon, <1>1, SumUnfolds DEF g, IsSum
<1>3. CASE S = {}
  BY <1>2, <1>3 DEF SumBody
<1>4. CASE S # {}
  <2>1. PICK T : T = S \ {Pick(S)}
    BY Zenon
  <2> DEFINE h == CHOOSE h : IsSum(f, T, h)
  <2>2. T \subseteq S /\ IsFiniteSet(T)
    BY <2>1, FS_Subset
  <2>3. IsSum(f, T, h)
    BY <2>2, SumExists
  <2> HIDE DEF h
  <2>4. SumOver(f, T) = h[T]
    BY SumUnfolds DEF h
  <2>5. g[T] = h[T]
    BY <1>1, <2>2, <2>3, SumUnique
  <2> QED BY <1>2, <1>4, <2>1, <2>4, <2>5 DEF SumBody
<1> QED BY <1>3, <1>4

(* A sum of integers is one.                                               *)
LEMMA SumTyped ==
  ASSUME NEW f, NEW S, IsFiniteSet(S), \A x \in S : f[x] \in Int
  PROVE  SumOver(f, S) \in Int
<1> DEFINE G == {n \in Nat : \A s \in SUBSET S : Cardinality(s) = n => SumOver(f, s) \in Int}
<1>1. \A s \in SUBSET S : IsFiniteSet(s) /\ Cardinality(s) \in Nat
  BY FS_Subset, FS_CardinalityType
<1>2. 0 \in G
  <2>1. ASSUME NEW s \in SUBSET S, Cardinality(s) = 0 PROVE SumOver(f, s) = 0
    BY Zenon, <1>1, <2>1, FS_EmptySet, SumPicks
  <2> QED BY <2>1
<1>3. ASSUME NEW n \in Nat, n \in G PROVE n + 1 \in G
  <2> SUFFICES ASSUME NEW s \in SUBSET S, Cardinality(s) = n + 1 PROVE SumOver(f, s) \in Int
    OBVIOUS
  <2>1. s # {}
    BY FS_EmptySet
  <2>2. PICK r : r = s \ {Pick(s)}
    BY Zenon
  <2>3. r \in SUBSET S /\ Cardinality(r) = n
    BY <1>1, <2>1, <2>2, PickIs, OneLess
  <2>4. SumOver(f, r) \in Int /\ f[Pick(s)] \in Int
    BY <1>3, <2>1, <2>3, PickIs
  <2>5. SumOver(f, s) = f[Pick(s)] + SumOver(f, r)
    BY <1>1, <2>1, <2>2, SumPicks
  <2> QED BY <2>4, <2>5
<1> HIDE DEF G
<1>4. Cardinality(S) \in G
  BY <1>1, <1>2, <1>3, Induction
<1> QED BY <1>4 DEF G

(* A sum is the same whichever element is taken first.                     *)
LEMMA SumAny ==
  ASSUME NEW f, NEW S, IsFiniteSet(S), \A x \in S : f[x] \in Int, NEW e \in S
  PROVE  SumOver(f, S) = f[e] + SumOver(f, S \ {e})
<1> DEFINE G == {n \in Nat : \A s \in SUBSET S : Cardinality(s) = n =>
                   \A x \in s : SumOver(f, s) = f[x] + SumOver(f, s \ {x})}
<1>1. \A s \in SUBSET S : IsFiniteSet(s) /\ Cardinality(s) \in Nat
  BY FS_Subset, FS_CardinalityType
<1>2. 0 \in G
  BY <1>1, FS_EmptySet
<1>3. ASSUME NEW n \in Nat, n \in G PROVE n + 1 \in G
  <2> SUFFICES ASSUME NEW s \in SUBSET S, Cardinality(s) = n + 1, NEW x \in s
               PROVE  SumOver(f, s) = f[x] + SumOver(f, s \ {x})
    OBVIOUS
  <2>1. PICK p : p = Pick(s)
    OBVIOUS
  <2>2. p \in s /\ SumOver(f, s) = f[p] + SumOver(f, s \ {p})
    BY <1>1, <2>1, PickIs, SumPicks
  <2>3. CASE x = p
    BY <2>2, <2>3
  <2>4. CASE x # p
    <3>1. PICK r, t, u : r = s \ {p} /\ t = s \ {x} /\ u = (s \ {p}) \ {x}
      BY Zenon
    <3>2. /\ r \in SUBSET S /\ t \in SUBSET S /\ x \in r /\ p \in t
          /\ r \ {x} = u /\ t \ {p} = u
      BY <2>2, <2>4, <3>1
    <3>3. Cardinality(r) = n /\ Cardinality(t) = n
      BY <1>1, <2>2, <3>1, OneLess
    <3>4. SumOver(f, r) = f[x] + SumOver(f, u) /\ SumOver(f, t) = f[p] + SumOver(f, u)
      BY <1>3, <3>2, <3>3
    <3>5. f[x] \in Int /\ f[p] \in Int
      BY <2>2
    <3>6. u \in SUBSET S
      BY <3>2
    <3>7. SumOver(f, u) \in Int
      BY <1>1, <3>6, SumTyped
    <3>8. SumOver(f, s) = f[p] + (f[x] + SumOver(f, u))
      BY <2>2, <3>1, <3>4
    <3>9. SumOver(f, s \ {x}) = f[p] + SumOver(f, u)
      BY <3>1, <3>4
    <3> HIDE <3>4
    <3> QED BY <3>5, <3>7, <3>8, <3>9
  <2> QED BY <2>3, <2>4
<1> HIDE DEF G
<1>4. Cardinality(S) \in G
  BY <1>1, <1>2, <1>3, Induction
<1> QED BY <1>4 DEF G

(* Functions that agree on a set have the same sum there.                  *)
LEMMA SumSame ==
  ASSUME NEW f, NEW h, NEW S, IsFiniteSet(S), \A x \in S : f[x] = h[x]
  PROVE  SumOver(f, S) = SumOver(h, S)
<1> DEFINE G == {n \in Nat : \A s \in SUBSET S : Cardinality(s) = n => SumOver(f, s) = SumOver(h, s)}
<1>1. \A s \in SUBSET S : IsFiniteSet(s) /\ Cardinality(s) \in Nat
  BY FS_Subset, FS_CardinalityType
<1>2. 0 \in G
  BY Zenon, <1>1, FS_EmptySet, SumPicks
<1>3. ASSUME NEW n \in Nat, n \in G PROVE n + 1 \in G
  <2> SUFFICES ASSUME NEW s \in SUBSET S, Cardinality(s) = n + 1 PROVE SumOver(f, s) = SumOver(h, s)
    OBVIOUS
  <2>1. s # {}
    BY FS_EmptySet
  <2>2. PICK r : r = s \ {Pick(s)}
    BY Zenon
  <2>3. r \in SUBSET S /\ Cardinality(r) = n
    BY <1>1, <2>1, <2>2, PickIs, OneLess
  <2>4. SumOver(f, r) = SumOver(h, r) /\ f[Pick(s)] = h[Pick(s)]
    BY <1>3, <2>1, <2>3, PickIs
  <2> QED BY <1>1, <2>1, <2>2, <2>4, SumPicks
<1> HIDE DEF G
<1>4. Cardinality(S) \in G
  BY <1>1, <1>2, <1>3, Induction
<1> QED BY <1>4 DEF G

(* Changing one place changes the sum by as much.                          *)
LEMMA SumChanges ==
  ASSUME NEW f, NEW h, NEW S, IsFiniteSet(S), NEW e \in S,
         \A x \in S : f[x] \in Int, h[e] \in Int, \A x \in S \ {e} : f[x] = h[x]
  PROVE  /\ SumOver(f, S) \in Int /\ SumOver(h, S) \in Int
         /\ SumOver(h, S) = SumOver(f, S) + (h[e] - f[e])
<1>1. PICK T : T = S \ {e}
  BY Zenon
<1>2. IsFiniteSet(T) /\ T \subseteq S
  BY <1>1, FS_Subset
<1>3. \A x \in S : h[x] \in Int
  OBVIOUS
<1>4. SumOver(f, S) = f[e] + SumOver(f, T) /\ SumOver(h, S) = h[e] + SumOver(h, T)
  BY <1>1, <1>3, SumAny
<1>5. SumOver(f, T) = SumOver(h, T) /\ SumOver(f, T) \in Int /\ f[e] \in Int
  BY <1>1, <1>2, SumSame, SumTyped
<1> QED BY <1>4, <1>5

(* The sum of the differences is the difference of the sums.               *)
LEMMA SumSplits ==
  ASSUME NEW f, NEW h, NEW d, NEW S, IsFiniteSet(S),
         \A x \in S : f[x] \in Int /\ h[x] \in Int /\ d[x] = f[x] - h[x]
  PROVE  SumOver(d, S) = SumOver(f, S) - SumOver(h, S)
<1> DEFINE G == {n \in Nat : \A s \in SUBSET S : Cardinality(s) = n =>
                   SumOver(d, s) = SumOver(f, s) - SumOver(h, s)}
<1>1. \A s \in SUBSET S : IsFiniteSet(s) /\ Cardinality(s) \in Nat
  BY FS_Subset, FS_CardinalityType
<1>2. 0 \in G
  <2>1. ASSUME NEW s \in SUBSET S, Cardinality(s) = 0
        PROVE  SumOver(d, s) = 0 /\ SumOver(f, s) = 0 /\ SumOver(h, s) = 0
    BY Zenon, <1>1, <2>1, FS_EmptySet, SumPicks
  <2> QED BY <2>1
<1>3. ASSUME NEW n \in Nat, n \in G PROVE n + 1 \in G
  <2> SUFFICES ASSUME NEW s \in SUBSET S, Cardinality(s) = n + 1
               PROVE  SumOver(d, s) = SumOver(f, s) - SumOver(h, s)
    OBVIOUS
  <2>1. s # {}
    <3>1. n + 1 # 0
      OBVIOUS
    <3> QED BY Zenon, <3>1, FS_EmptySet
  <2>2. PICK p, r : p = Pick(s) /\ r = s \ {Pick(s)}
    BY Zenon
  <2>3. p \in S /\ r \in SUBSET S /\ Cardinality(r) = n
    BY <1>1, <2>1, <2>2, PickIs, OneLess
  <2>4. SumOver(d, r) = SumOver(f, r) - SumOver(h, r)
    BY <1>3, <2>3
  <2>5. SumOver(f, r) \in Int /\ SumOver(h, r) \in Int
    BY <1>1, <2>3, SumTyped
  <2>6. f[p] \in Int /\ h[p] \in Int /\ d[p] = f[p] - h[p]
    BY <2>3
  <2>7. /\ SumOver(d, s) = d[p] + SumOver(d, r) /\ SumOver(f, s) = f[p] + SumOver(f, r)
        /\ SumOver(h, s) = h[p] + SumOver(h, r)
    BY <1>1, <2>1, <2>2, SumPicks
  <2> QED BY <2>4, <2>5, <2>6, <2>7
<1> HIDE DEF G
<1>4. Cardinality(S) \in G
  BY <1>1, <1>2, <1>3, Induction
<1> QED BY <1>4 DEF G

(* Numbers add up to no less than any of them.                             *)
LEMMA SumAtLeast ==
  ASSUME NEW f, NEW S, IsFiniteSet(S), \A x \in S : f[x] \in Nat
  PROVE  SumOver(f, S) \in Nat /\ \A x \in S : f[x] <= SumOver(f, S)
<1> DEFINE G == {n \in Nat : \A s \in SUBSET S : Cardinality(s) = n => SumOver(f, s) \in Nat}
<1>1. \A s \in SUBSET S : IsFiniteSet(s) /\ Cardinality(s) \in Nat
  BY FS_Subset, FS_CardinalityType
<1>2. 0 \in G
  <2>1. ASSUME NEW s \in SUBSET S, Cardinality(s) = 0 PROVE SumOver(f, s) = 0
    BY Zenon, <1>1, <2>1, FS_EmptySet, SumPicks
  <2> QED BY <2>1
<1>3. ASSUME NEW n \in Nat, n \in G PROVE n + 1 \in G
  <2> SUFFICES ASSUME NEW s \in SUBSET S, Cardinality(s) = n + 1 PROVE SumOver(f, s) \in Nat
    OBVIOUS
  <2>1. s # {}
    BY FS_EmptySet
  <2>2. PICK p, r : p = Pick(s) /\ r = s \ {Pick(s)}
    BY Zenon
  <2>3. p \in S /\ r \in SUBSET S /\ Cardinality(r) = n
    BY <1>1, <2>1, <2>2, PickIs, OneLess
  <2>4. SumOver(f, r) \in Nat /\ f[p] \in Nat
    BY <1>3, <2>3
  <2>5. SumOver(f, s) = f[p] + SumOver(f, r)
    BY <1>1, <2>1, <2>2, SumPicks
  <2> QED BY <2>4, <2>5
<1> HIDE DEF G
<1>4. \A s \in SUBSET S : SumOver(f, s) \in Nat
  <2>1. \A n \in Nat : n \in G
    BY <1>2, <1>3, Induction
  <2> QED BY <1>1, <2>1 DEF G
<1>5. ASSUME NEW x \in S PROVE f[x] <= SumOver(f, S)
  <2>1. SumOver(f, S) = f[x] + SumOver(f, S \ {x})
    BY SumAny
  <2>2. SumOver(f, S \ {x}) \in Nat /\ f[x] \in Nat
    BY <1>4
  <2> QED BY <2>1, <2>2
<1> QED BY <1>4, <1>5

(* An interval is finite, and without its last element one shorter.        *)
LEMMA IntervalIs ==
  ASSUME NEW m \in Nat, NEW n \in Nat, m <= n + 1
  PROVE  /\ IsFiniteSet(m .. n) /\ IsFiniteSet(m .. n + 1) /\ n + 1 \in m .. n + 1
         /\ (m .. (n + 1)) \ {n + 1} = m .. n
<1>1. IsFiniteSet(m .. n)
  BY FS_Interval
<1>2. n + 1 \in Int /\ m \in Int
  OBVIOUS
<1>3. IsFiniteSet(m .. n + 1)
  BY <1>2, FS_Interval
<1> QED BY <1>1, <1>3

(* Its sum is that of the shorter one and the last element.                *)
LEMMA SumLast ==
  ASSUME NEW f, NEW m \in Nat, NEW n \in Nat, m <= n + 1,
         \A i \in m .. n + 1 : f[i] \in Int
  PROVE  SumOver(f, m .. n + 1) = f[n + 1] + SumOver(f, m .. n)
<1>1. PICK T : T = m .. n + 1
  OBVIOUS
<1>2. IsFiniteSet(T) /\ n + 1 \in T /\ T \ {n + 1} = m .. n
  BY Zenon, <1>1, IntervalIs
<1> QED BY <1>1, <1>2, SumAny

(* A sequence summed from its second place is its tail summed.             *)
LEMMA SumShifts ==
  ASSUME NEW f, NEW h, NEW k \in Nat,
         \A i \in 1 .. k : h[i] = f[i + 1], \A i \in 1 .. k + 1 : f[i] \in Int
  PROVE  SumOver(h, 1 .. k) = SumOver(f, 2 .. k + 1)
<1> DEFINE G == {n \in Nat : n <= k => SumOver(h, 1 .. n) = SumOver(f, 2 .. n + 1)}
<1>1. 0 \in G
  <2>1. 1 .. 0 = {} /\ 2 .. 0 + 1 = {}
    OBVIOUS
  <2>2. SumOver(h, {}) = 0 /\ SumOver(f, {}) = 0
    BY Zenon, SumPicks, FS_EmptySet
  <2> QED BY <2>1, <2>2
<1>2. ASSUME NEW n \in Nat, n \in G PROVE n + 1 \in G
  <2> SUFFICES ASSUME n + 1 <= k
               PROVE  SumOver(h, 1 .. n + 1) = SumOver(f, 2 .. (n + 1) + 1)
    OBVIOUS
  <2>1. \A i \in 1 .. n + 1 : h[i] \in Int
    OBVIOUS
  <2>2. \A i \in 2 .. (n + 1) + 1 : f[i] \in Int
    OBVIOUS
  <2>3. SumOver(h, 1 .. n + 1) = h[n + 1] + SumOver(h, 1 .. n)
    BY <2>1, SumLast
  <2>4. SumOver(f, 2 .. (n + 1) + 1) = f[(n + 1) + 1] + SumOver(f, 2 .. n + 1)
    <3>1. PICK m \in Nat : m = n + 1
      OBVIOUS
    <3>2. 2 <= m + 1 /\ \A i \in 2 .. m + 1 : f[i] \in Int
      BY <2>2, <3>1
    <3>3. SumOver(f, 2 .. m + 1) = f[m + 1] + SumOver(f, 2 .. m)
      BY <3>2, SumLast
    <3> QED BY <3>1, <3>3
  <2>5. SumOver(h, 1 .. n) = SumOver(f, 2 .. n + 1) /\ h[n + 1] = f[(n + 1) + 1]
    BY <1>2
  <2> QED BY <2>3, <2>4, <2>5
<1> HIDE DEF G
<1>3. k \in G
  BY <1>1, <1>2, Induction
<1> QED BY <1>3 DEF G

(* What a queue adds up to.                                                *)
SumOfQueue(q) == SumOver(q, DOMAIN q)

(* An element that is appended is added.                                   *)
LEMMA AppendAdds ==
  ASSUME NEW q \in Seq(Nat), NEW x \in Nat
  PROVE  /\ SumOfQueue(q) \in Nat
         /\ SumOfQueue(Append(q, x)) = SumOfQueue(q) + x
<1>0. Append(q, x) \in Seq(Nat)
  OBVIOUS
<1>1. PICK p \in Seq(Nat) : p = Append(q, x)
  BY Zenon, <1>0
<1>2. PICK n \in Nat : n = Len(q)
  OBVIOUS
<1>3. PICK S, T : S = 1 .. n /\ T = 1 .. n + 1
  OBVIOUS
<1>4. IsFiniteSet(S) /\ IsFiniteSet(T) /\ n + 1 \in T /\ T \ {n + 1} = S
  <2>1. 1 <= n + 1
    OBVIOUS
  <2> QED BY Zenon, <1>3, <2>1, IntervalIs
<1>5. /\ DOMAIN q = S /\ DOMAIN p = T /\ p[n + 1] = x
      /\ \A i \in S : p[i] = q[i]
      /\ \A i \in S : q[i] \in Nat
      /\ \A i \in T : p[i] \in Int
  BY <1>1, <1>2, <1>3
<1>6. SumOver(p, T) = x + SumOver(p, S)
  BY SMTT(30), <1>4, <1>5, SumAny
<1>7. SumOver(p, S) = SumOver(q, S) /\ SumOver(q, S) \in Nat
  BY <1>4, <1>5, SumSame, SumAtLeast
<1> QED BY <1>1, <1>5, <1>6, <1>7 DEF SumOfQueue

(* One that is taken from the front is taken off.                          *)
LEMMA TailTakes ==
  ASSUME NEW q \in Seq(Nat), q # <<>>
  PROVE  /\ Head(q) \in Nat /\ SumOfQueue(Tail(q)) \in Nat
         /\ SumOfQueue(q) = SumOfQueue(Tail(q)) + Head(q)
<1>0. Tail(q) \in Seq(Nat)
  OBVIOUS
<1>1. PICK p \in Seq(Nat) : p = Tail(q)
  BY Zenon, <1>0
<1>2. PICK k \in Nat : k = Len(q) - 1
  <2>1. Len(q) \in Nat /\ Len(q) # 0
    OBVIOUS
  <2>2. Len(q) - 1 \in Nat
    BY <2>1
  <2> QED BY Zenon, <2>2
<1>3. PICK S, T, U : S = 1 .. k /\ T = 1 .. k + 1 /\ U = 2 .. k + 1
  OBVIOUS
<1>4. IsFiniteSet(S) /\ IsFiniteSet(T) /\ 1 \in T /\ T \ {1} = U
  <2>1. IsFiniteSet(S) /\ IsFiniteSet(T)
    BY <1>3, IntervalIs
  <2> QED BY <1>3, <2>1
<1>5. /\ DOMAIN p = S /\ DOMAIN q = T /\ q[1] = Head(q) /\ Head(q) \in Nat
      /\ \A i \in S : p[i] = q[i + 1]
      /\ \A i \in S : p[i] \in Nat
      /\ \A i \in T : q[i] \in Int
  BY <1>1, <1>2, <1>3
<1>6. SumOver(q, T) = q[1] + SumOver(q, U)
  <2>1. IsFiniteSet(T) /\ 1 \in T /\ \A i \in T : q[i] \in Int
    BY Zenon, <1>4, <1>5
  <2>2. \A e \in T : SumOver(q, T) = q[e] + SumOver(q, T \ {e})
    BY ZenonT(30), <2>1, SumAny
  <2> QED BY Zenon, <1>4, <2>2
<1>7. SumOver(p, S) = SumOver(q, U)
  <2>1. /\ \A i \in 1 .. k : p[i] = q[i + 1]
        /\ \A i \in 1 .. k + 1 : q[i] \in Int
    BY Zenon, <1>3, <1>5
  <2>2. SumOver(p, 1 .. k) = SumOver(q, 2 .. k + 1)
    BY Zenon, <2>1, SumShifts
  <2> QED BY Zenon, <1>3, <2>2
<1>8. SumOver(p, S) \in Nat
  BY <1>4, <1>5, SumAtLeast
<1> QED BY <1>1, <1>5, <1>6, <1>7, <1>8 DEF SumOfQueue

-----------------------------------------------------------------------------
(* The TNC's buffer.                                                       *)

(* What is on its way through the TNC: the frame a data client's task has  *)
(* counted, the queue, and the frame the worker has taken.  A frame the    *)
(* worker has taken stays counted until it is done, so what it loads       *)
(* before it subtracts is no less than the frame.                          *)
Held(p) == [d \in DataClients |-> IF p[d] = None THEN 0 ELSE p[d]]
SumHeld(p) == SumOver(Held(p), DataClients)

BufferShape ==
  /\ tx_data \in Seq(Nat)
  /\ port \in [DataClients -> Lengths \cup {None}]
  /\ worker.len \in Nat
  /\ worker.pc \notin {"burst", "load", "sub"} => worker.len = 0
  /\ worker.pc = "sub" => worker.load \in Nat /\ worker.len <= worker.load

BufferCounts == tx_pending = (SumOfQueue(tx_data) + SumHeld(port)) + worker.len

BufferInv == BufferShape /\ BufferCounts

(* The counted bytes are those of BUFFER's definition.                     *)
LEMMA UnfinishedIs == (BufferIsExact <=> BufferCounts)
<1>1. SumFunction(tx_data) = SumOfQueue(tx_data)
  BY Zenon DEF SumFunction, SumFunctionOnSet, SumOfQueue, SumOver
<1>2. SumFunction(InHand) = SumHeld(port)
  BY Zenon DEF SumFunction, SumFunctionOnSet, SumHeld, SumOver, InHand, Held
<1> QED BY <1>1, <1>2 DEF BufferIsExact, Unfinished, BufferCounts

(* A data client's task that changes its frame changes the sum by as much. *)
LEMMA HeldChanges ==
  ASSUME NEW p \in [DataClients -> Lengths \cup {None}], NEW d \in DataClients,
         NEW v \in Lengths \cup {None}
  PROVE  /\ SumHeld(p) \in Nat
         /\ p[d] = None => SumHeld([p EXCEPT ![d] = v]) =
                             SumHeld(p) + (IF v = None THEN 0 ELSE v)
         /\ p[d] # None => SumHeld(p) = SumHeld([p EXCEPT ![d] = None]) + p[d]
<1> USE FramesAssumption
<1>1. \A r \in [DataClients -> Lengths \cup {None}] : \A x \in DataClients : Held(r)[x] \in Nat
  BY Zenon DEF Held
<1>2. ASSUME NEW r \in [DataClients -> Lengths \cup {None}], NEW t \in [DataClients -> Lengths \cup {None}],
             \A x \in DataClients \ {d} : r[x] = t[x]
      PROVE  /\ SumHeld(r) \in Nat /\ SumHeld(t) \in Nat
             /\ SumHeld(t) = SumHeld(r) + (Held(t)[d] - Held(r)[d])
  <2>1. PICK f, h : f = Held(r) /\ h = Held(t)
    OBVIOUS
  <2>2. \A x \in DataClients : f[x] \in Nat /\ h[x] \in Nat
    BY <1>1, <2>1
  <2>3. \A x \in DataClients \ {d} : f[x] = h[x]
    BY <1>2, <2>1 DEF Held
  <2>4. SumOver(h, DataClients) = SumOver(f, DataClients) + (h[d] - f[d])
    BY <2>2, <2>3, SumChanges
  <2>5. SumOver(f, DataClients) \in Nat /\ SumOver(h, DataClients) \in Nat
    BY <2>2, SumAtLeast
  <2> QED BY <2>1, <2>4, <2>5 DEF SumHeld
<1>3. PICK t \in [DataClients -> Lengths \cup {None}] : t = [p EXCEPT ![d] = v]
  BY Zenon
<1>4. PICK u \in [DataClients -> Lengths \cup {None}] : u = [p EXCEPT ![d] = None]
  BY Zenon
<1>5. SumHeld(p) \in Nat /\ SumHeld(t) = SumHeld(p) + (Held(t)[d] - Held(p)[d])
  BY Zenon, <1>2, <1>3
<1>6. SumHeld(u) \in Nat /\ SumHeld(u) = SumHeld(p) + (Held(u)[d] - Held(p)[d])
  BY Zenon, <1>2, <1>4
<1>7. p[d] = None => Held(p)[d] = 0
  BY DEF Held
<1>8. Held(t)[d] = IF v = None THEN 0 ELSE v
  BY <1>3 DEF Held
<1>9. Held(u)[d] = 0 /\ (p[d] # None => Held(p)[d] = p[d] /\ p[d] \in Nat)
  BY Zenon, <1>4 DEF Held
<1>10. p[d] = None => SumHeld(t) = SumHeld(p) + (IF v = None THEN 0 ELSE v)
  BY <1>5, <1>7, <1>8
<1>11. p[d] # None => SumHeld(p) = SumHeld(u) + p[d]
  BY <1>5, <1>6, <1>9
<1> QED BY <1>3, <1>4, <1>5, <1>10, <1>11

(* A data client's task counts its frame before it queues it.              *)
LEMMA DataPortKeeps ==
  ASSUME BufferInv, NEW d \in DataClients, DataPort(d)
  PROVE  BufferInv'
<1>1. BufferShape /\ BufferCounts
  BY DEF BufferInv
<1>2. SumOfQueue(tx_data) \in Nat /\ worker.len \in Nat /\ worker' = worker
  BY <1>1, AppendAdds DEF BufferShape, DataPort
<1>3. CASE port[d] = None
  <2>1. PICK len \in Lengths : /\ port' = [port EXCEPT ![d] = len]
                               /\ tx_pending' = tx_pending + len /\ tx_data' = tx_data
    BY <1>3 DEF DataPort
  <2>2. len \in Nat /\ len # None
    BY FramesAssumption
  <2>3. SumHeld(port) \in Nat /\ SumHeld([port EXCEPT ![d] = len]) = SumHeld(port) + len
    BY ZenonT(30), <1>1, <1>3, <2>2, HeldChanges DEF BufferShape
  <2>4. SumHeld(port') = SumHeld(port) + len
    BY <2>1, <2>3
  <2>5. BufferShape'
    BY <1>1, <1>2, <2>1 DEF BufferShape
  <2>6. tx_pending' = (SumOfQueue(tx_data) + (SumHeld(port) + len)) + worker.len
    BY <1>1, <1>2, <2>1, <2>2, <2>3 DEF BufferCounts
  <2>7. BufferCounts'
    BY <1>2, <2>1, <2>4, <2>6 DEF BufferCounts
  <2> QED BY <2>5, <2>7 DEF BufferInv
<1>4. CASE port[d] # None
  <2>1. PICK len : len = port[d]
    OBVIOUS
  <2>2. /\ port' = [port EXCEPT ![d] = None] /\ tx_pending' = tx_pending
        /\ tx_data' = Append(tx_data, len)
    BY <1>4, <2>1 DEF DataPort
  <2>3. len \in Nat /\ len # None
    BY <1>1, <1>4, <2>1, FramesAssumption DEF BufferShape
  <2>4. /\ SumHeld(port) = SumHeld([port EXCEPT ![d] = None]) + len
        /\ SumHeld([port EXCEPT ![d] = None]) \in Nat
    <3>1. [port EXCEPT ![d] = None] \in [DataClients -> Lengths \cup {None}]
      BY <1>1 DEF BufferShape
    <3>2. SumHeld(port) = SumHeld([port EXCEPT ![d] = None]) + len
      BY Zenon, <1>1, <1>4, <2>1, HeldChanges DEF BufferShape
    <3>3. PICK t \in [DataClients -> Lengths \cup {None}] : t = [port EXCEPT ![d] = None]
      BY Zenon, <3>1
    <3>4. SumHeld(t) \in Nat
      BY Zenon, HeldChanges
    <3> QED BY <3>2, <3>3, <3>4
  <2>5. SumOfQueue(Append(tx_data, len)) = SumOfQueue(tx_data) + len
    BY <1>1, <2>3, AppendAdds DEF BufferShape
  <2>6. BufferShape'
    BY <1>1, <1>2, <2>2, <2>3 DEF BufferShape
  <2>7. tx_pending = (SumOfQueue(Append(tx_data, len)) + SumHeld([port EXCEPT ![d] = None])) + worker.len
    BY <1>1, <1>2, <2>3, <2>4, <2>5 DEF BufferCounts
  <2>8. BufferCounts'
    BY <1>2, <2>2, <2>7 DEF BufferCounts
  <2> QED BY <2>6, <2>8 DEF BufferInv
<1> QED BY <1>3, <1>4

(* The worker takes a frame and takes it off BUFFER when it is done.       *)
LEMMA WorkerKeeps ==
  ASSUME BufferInv, TncWorker
  PROVE  BufferInv'
<1>1. /\ BufferShape /\ BufferCounts /\ port' = port
      /\ tx_data \in Seq(Nat) /\ worker.len \in Nat
  BY DEF BufferInv, BufferShape, TncWorker, portVars
<1>2. SumOfQueue(tx_data) \in Nat
  BY <1>1, AppendAdds
<1>3. SumHeld(port) \in Nat
  <2>1. PICK f : f = Held(port)
    OBVIOUS
  <2>2. \A x \in DataClients : f[x] \in Nat
    BY Zenon, <1>1, <2>1, FramesAssumption DEF BufferShape, Held
  <2>3. SumOver(f, DataClients) \in Nat
    BY <2>2, SumAtLeast, FramesAssumption
  <2> QED BY <2>1, <2>3 DEF SumHeld
<1>4. ASSUME UNCHANGED <<tx_data, tx_pending>>, worker'.len = worker.len,
             worker.pc \in {"burst", "load", "sub"} \/ worker'.pc \notin {"burst", "load", "sub"},
             worker'.pc \notin {"burst", "load", "sub"} => worker.pc \notin {"burst", "load", "sub"},
             worker'.pc = "sub" => worker'.load \in Nat /\ worker.len <= worker'.load
      PROVE  BufferInv'
  BY <1>1, <1>4 DEF BufferInv, BufferShape, BufferCounts
<1>5. CASE WorkerId \/ WorkerTimeout \/ WorkerBurst \/ WorkerReceive
  <2>1. PICK pc : worker' = [worker EXCEPT !.pc = pc] /\ pc \in {"timeout", "drain", "load", "id"}
                  /\ (pc = "load" <=> worker.pc = "burst")
                  /\ worker.pc \in {"id", "timeout", "burst", "drain"}
    BY Zenon, <1>5 DEF WorkerId, WorkerTimeout, WorkerBurst, WorkerReceive, Go
  <2>2. UNCHANGED <<tx_data, tx_pending>>
    BY <1>5 DEF WorkerId, WorkerTimeout, WorkerBurst, WorkerReceive
  <2> QED BY <1>4, <2>1, <2>2
<1>6. CASE WorkerTake
  <2>1. /\ worker.pc = "drain" /\ tx_data # <<>> /\ tx_data' = Tail(tx_data)
        /\ worker'.len = Head(tx_data) /\ worker'.pc \in {"burst", "load"}
        /\ tx_pending' = tx_pending
    BY <1>6 DEF WorkerTake
  <2>2. /\ Head(tx_data) \in Nat /\ SumOfQueue(Tail(tx_data)) \in Nat
        /\ SumOfQueue(tx_data) = SumOfQueue(Tail(tx_data)) + Head(tx_data)
    BY <1>1, <2>1, TailTakes
  <2>3. worker.len = 0
    BY <1>1, <2>1 DEF BufferShape
  <2>4. Tail(tx_data) \in Seq(Nat)
    BY <1>1, <2>1
  <2>5. BufferShape'
    BY <1>1, <2>1, <2>2, <2>4 DEF BufferShape
  <2>6. tx_pending = (SumOfQueue(Tail(tx_data)) + SumHeld(port)) + Head(tx_data)
    BY <1>1, <1>2, <1>3, <2>2, <2>3 DEF BufferCounts
  <2>7. BufferCounts'
    BY <1>1, <2>1, <2>6 DEF BufferCounts
  <2> QED BY <2>5, <2>7 DEF BufferInv
<1>7. CASE WorkerLoad
  <2>1. /\ worker.pc = "load" /\ worker'.pc = "sub" /\ worker'.len = worker.len
        /\ worker'.load = tx_pending /\ UNCHANGED <<tx_data, tx_pending>>
    BY <1>7 DEF WorkerLoad
  <2>2. tx_pending \in Nat /\ worker.len <= tx_pending
    BY <1>1, <1>2, <1>3 DEF BufferCounts
  <2> QED BY <1>4, <2>1, <2>2
<1>8. CASE WorkerSub
  <2>1. /\ worker.pc = "sub" /\ worker'.pc = "drain" /\ worker'.len = 0 /\ tx_data' = tx_data
        /\ tx_pending' = tx_pending - AtMost(worker.len, worker.load)
    BY <1>8 DEF WorkerSub
  <2>2. AtMost(worker.len, worker.load) = worker.len
    BY <1>1, <2>1 DEF BufferShape, AtMost
  <2>3. tx_pending' = (SumOfQueue(tx_data) + SumHeld(port)) + 0
    BY <1>1, <1>2, <1>3, <2>1, <2>2 DEF BufferCounts
  <2>4. BufferShape'
    BY <1>1, <2>1 DEF BufferShape
  <2>5. BufferCounts'
    BY <1>1, <2>1, <2>3 DEF BufferCounts
  <2> QED BY <2>4, <2>5 DEF BufferInv
<1> QED BY <1>5, <1>6, <1>7, <1>8 DEF TncWorker

(* BUFFER tells the host exactly the bytes it has handed over and the      *)
(* worker has not finished, with any number of data connections, frames of *)
(* any length and a queue of any capacity, although the data port's tasks  *)
(* count before they queue and the worker subtracts the minimum of the     *)
(* frame and of a value it loaded before (handle_client, worker_loop).     *)
THEOREM BufferNeverDrifts == TncSpec => []BufferIsExact
<1>1. TncInit => BufferInv
  <2> HAVE TncInit
  <2>1. /\ tx_data = <<>> /\ tx_pending = 0 /\ port = [d \in DataClients |-> None]
        /\ worker.len = 0 /\ worker.pc = "id"
    BY DEF TncInit
  <2>2. BufferShape
    BY <2>1 DEF BufferShape
  <2>3. SumOfQueue(tx_data) = 0
    <3>1. DOMAIN tx_data = {} /\ IsFiniteSet({})
      BY <2>1, FS_EmptySet
    <3>2. SumOver(tx_data, {}) = 0
      BY Zenon, <3>1, SumPicks
    <3> QED BY <3>1, <3>2 DEF SumOfQueue
  <2>4. SumHeld(port) = 0
    <3>1. PICK f, z : f = Held(port) /\ z = [d \in DataClients |-> 0]
      BY Zenon
    <3>2. \A d \in DataClients : f[d] = 0 /\ z[d] = 0 /\ f[d] = z[d] - z[d]
      BY <2>1, <3>1 DEF Held
    <3>3. SumOver(f, DataClients) = SumOver(z, DataClients) - SumOver(z, DataClients)
      BY <3>2, SumSplits, FramesAssumption
    <3>4. SumOver(z, DataClients) \in Int
      BY <3>2, SumTyped, FramesAssumption
    <3> QED BY <3>1, <3>3, <3>4 DEF SumHeld
  <2> QED BY <2>1, <2>2, <2>3, <2>4 DEF BufferInv, BufferCounts
<1>2. BufferInv /\ [TncNext]_tncVars => BufferInv'
  <2> SUFFICES ASSUME BufferInv, [TncNext]_tncVars PROVE BufferInv'
    OBVIOUS
  <2>1. CASE HostStep \/ TncClock \/ UNCHANGED tncVars
    BY <2>1 DEF HostStep, TncClock, tncVars, portVars, BufferInv, BufferShape, BufferCounts
  <2> QED BY <2>1, DataPortKeeps, WorkerKeeps DEF TncNext
<1>3. BufferInv => BufferIsExact
  BY UnfinishedIs DEF BufferInv
<1> QED BY <1>1, <1>2, <1>3, PTL DEF TncSpec

-----------------------------------------------------------------------------
(* Retaining elements.                                                     *)

RetainBody(q, keep, g, i) ==
  IF i = 0 THEN <<>> ELSE IF i \in keep THEN Append(g[i - 1], q[i]) ELSE g[i - 1]
IsRetain(q, keep, g) == g = [i \in 0 .. Len(q) |-> RetainBody(q, keep, g, i)]

(* Retain is the value of a function that some g is, if any g is.          *)
LEMMA RetainUnfolds ==
  ASSUME NEW q, NEW keep
  PROVE  Retain(q, keep) = (CHOOSE g : IsRetain(q, keep, g))[Len(q)]
  BY DEF Retain, IsRetain, RetainBody

(* Such a function exists.                                                 *)
LEMMA RetainExists ==
  ASSUME NEW S, NEW q \in Seq(S), NEW keep
  PROVE  \E g : IsRetain(q, keep, g)
<1> DEFINE Upto(n, g) == /\ g = [i \in 0 .. Len(q) |-> g[i]]
                         /\ \A i \in 0 .. Len(q) : i < n => g[i] = RetainBody(q, keep, g, i)
           G == {n \in Nat : \E g : Upto(n, g)}
<1>1. 0 \in G
  <2> DEFINE z == [i \in 0 .. Len(q) |-> <<>>]
  <2>1. Upto(0, z)
    OBVIOUS
  <2> HIDE DEF Upto, z
  <2> QED BY <2>1
<1>2. ASSUME NEW n \in Nat, n \in G PROVE n + 1 \in G
  <2>1. PICK g : Upto(n, g)
    BY <1>2
  <2> DEFINE h == [i \in 0 .. Len(q) |-> RetainBody(q, keep, g, i)]
  <2>2. ASSUME NEW i \in 0 .. Len(q), i < n + 1
        PROVE  h[i] = RetainBody(q, keep, h, i)
    <3>1. CASE i = 0
      BY <3>1 DEF RetainBody
    <3>2. CASE i # 0
      <4>1. i - 1 \in 0 .. Len(q) /\ i - 1 < n
        BY <2>2, <3>2
      <4>2. h[i - 1] = g[i - 1]
        BY <2>1, <4>1
      <4>3. h[i] = RetainBody(q, keep, g, i)
        OBVIOUS
      <4> HIDE DEF h
      <4> QED BY <3>2, <4>2, <4>3 DEF RetainBody
    <3> QED BY <3>1, <3>2
  <2>3. Upto(n + 1, h)
    BY <2>2
  <2> HIDE DEF Upto, h
  <2> QED BY <2>3
<1> HIDE DEF G
<1>3. Len(q) + 1 \in G
  BY <1>1, <1>2, Induction
<1>4. PICK g : Upto(Len(q) + 1, g)
  BY <1>3 DEF G
<1>5. \A i \in 0 .. Len(q) : g[i] = RetainBody(q, keep, g, i)
  BY <1>4
<1>6. IsRetain(q, keep, g)
  BY <1>4, <1>5 DEF IsRetain
<1> QED BY <1>6

(* What is retained are elements of the sequence, one for every place that *)
(* is kept.                                                                *)
LEMMA RetainIs ==
  ASSUME NEW S, NEW q \in Seq(S), NEW keep, keep \subseteq DOMAIN q
  PROVE  /\ Retain(q, keep) \in Seq(S)
         /\ IsFiniteSet(keep) /\ Len(Retain(q, keep)) = Cardinality(keep)
         /\ \A x \in DOMAIN Retain(q, keep) : \E j \in keep : Retain(q, keep)[x] = q[j]
         /\ Len(q) = 1 => Retain(q, keep) = IF keep = {} THEN <<>> ELSE q
<1>1. PICK g : IsRetain(q, keep, g) /\ Retain(q, keep) = g[Len(q)]
  BY RetainExists, RetainUnfolds
<1>2. \A i \in 0 .. Len(q) : g[i] = RetainBody(q, keep, g, i)
  BY <1>1 DEF IsRetain
<1> DEFINE Fine(n) == /\ g[n] \in Seq(S)
                      /\ IsFiniteSet(keep \cap (1 .. n)) /\ Len(g[n]) = Cardinality(keep \cap (1 .. n))
                      /\ \A x \in DOMAIN g[n] : \E j \in keep : g[n][x] = q[j]
           G == {n \in Nat : n <= Len(q) => Fine(n)}
<1>3. 0 \in G
  <2>1. g[0] = <<>>
    BY <1>2 DEF RetainBody
  <2>2. keep \cap (1 .. 0) = {} /\ IsFiniteSet({}) /\ Cardinality({}) = 0
    BY FS_EmptySet
  <2>3. Fine(0)
    BY <2>1, <2>2
  <2> HIDE DEF Fine
  <2> QED BY <2>3
<1>4. ASSUME NEW n \in Nat, n \in G PROVE n + 1 \in G
  <2> SUFFICES ASSUME n + 1 <= Len(q) PROVE Fine(n + 1)
    OBVIOUS
  <2>1. Fine(n)
    BY <1>4
  <2>2. g[n + 1] = IF n + 1 \in keep THEN Append(g[n], q[n + 1]) ELSE g[n]
    BY <1>2 DEF RetainBody
  <2>3. CASE n + 1 \notin keep
    <3>1. keep \cap (1 .. n + 1) = keep \cap (1 .. n)
      BY <2>3
    <3> QED BY Zenon, <2>1, <2>2, <2>3, <3>1
  <2>4. CASE n + 1 \in keep
    <3>1. keep \cap (1 .. n + 1) = (keep \cap (1 .. n)) \cup {n + 1} /\ n + 1 \notin keep \cap (1 .. n)
      BY <2>4
    <3>2. PICK K : K = keep \cap (1 .. n)
      BY Zenon
    <3>3. IsFiniteSet(K) /\ Cardinality(K) \in Nat
      BY <2>1, <3>2, FS_CardinalityType
    <3>4. IsFiniteSet(K \cup {n + 1}) /\ Cardinality(K \cup {n + 1}) = Cardinality(K) + 1
      BY Zenon, <3>1, <3>2, <3>3, FS_AddElement
    <3>5. PICK p \in Seq(S) : p = g[n]
      BY <2>1
    <3>6. q[n + 1] \in S
      OBVIOUS
    <3>7. /\ Append(p, q[n + 1]) \in Seq(S) /\ Len(Append(p, q[n + 1])) = Len(p) + 1
          /\ \A x \in DOMAIN Append(p, q[n + 1]) :
               Append(p, q[n + 1])[x] = q[n + 1] \/ (x \in DOMAIN p /\ Append(p, q[n + 1])[x] = p[x])
      BY <3>6
    <3>8. g[n + 1] = Append(p, q[n + 1])
      BY <2>2, <2>4, <3>5
    <3>9. Len(g[n + 1]) = Cardinality(keep \cap (1 .. n + 1))
      BY Zenon, <2>1, <3>1, <3>2, <3>4, <3>5, <3>7, <3>8
    <3>10. \A x \in DOMAIN g[n + 1] : \E j \in keep : g[n + 1][x] = q[j]
      BY <2>1, <2>4, <3>5, <3>7, <3>8
    <3> QED BY Zenon, <3>1, <3>2, <3>4, <3>7, <3>8, <3>9, <3>10
  <2> QED BY <2>3, <2>4
<1> HIDE DEF G, Fine
<1>5. Fine(Len(q))
  <2>1. Len(q) \in G
    BY <1>3, <1>4, Induction
  <2> QED BY <2>1 DEF G
<1>6. keep \cap (1 .. Len(q)) = keep
  OBVIOUS
<1>7. ASSUME Len(q) = 1 PROVE Retain(q, keep) = IF keep = {} THEN <<>> ELSE q
  <2>1. g[0] = <<>> /\ g[1] = IF 1 \in keep THEN Append(g[0], q[1]) ELSE g[0]
    BY <1>2, <1>7 DEF RetainBody
  <2>2. keep = {} \/ keep = {1}
    BY <1>7
  <2>3. Append(<<>>, q[1]) = q
    BY <1>7
  <2> QED BY <1>1, <1>7, <2>1, <2>2, <2>3
<1> QED BY Zenon, <1>1, <1>5, <1>6, <1>7 DEF Fine

-----------------------------------------------------------------------------
(* The reassembler.                                                        *)

(* A ReassemblySlot, and one that is kept because fragments are missing.   *)
Pieces == UNION {[1 .. n -> {None} \cup (Messages \X Nat)] : n \in Nat}
Slots == {c \in [total : Nat, fragments : Pieces, received : Nat, age : 0 .. SarTimeout] :
            DOMAIN c.fragments = 1 .. c.total /\ c.received \in 1 .. c.total}
Partial == {c \in Slots : c.received # c.total}

(* A slot's fragments.                                                     *)
LEMMA PiecesAre ==
  ASSUME NEW n \in Nat, NEW p \in Pieces, DOMAIN p = 1 .. n
  PROVE  /\ [1 .. n -> {None} \cup (Messages \X Nat)] \subseteq Pieces
         /\ p \in [1 .. n -> {None} \cup (Messages \X Nat)]
  BY DEF Pieces

(* A new candidate holds its one fragment.                                 *)
LEMMA NewIs ==
  ASSUME NEW m \in Messages, NEW i \in Fragments(m)
  PROVE  NewCandidate(m, i) \in Slots
<1> DEFINE n == FragmentTotal[m]
           p == [j \in 1 .. n |-> IF j = i THEN <<m, i>> ELSE None]
<1>1. n \in Nat /\ n # 0 /\ i \in 1 .. n /\ SarTimeout \in Nat
  BY SarAssumption DEF Fragments
<1>2. p \in [1 .. n -> {None} \cup (Messages \X Nat)]
  BY <1>1
<1>3. NewCandidate(m, i) = [total |-> n, fragments |-> p, received |-> 1, age |-> 0]
  BY DEF NewCandidate, Fragments
<1> HIDE DEF n, p
<1>4. p \in Pieces /\ DOMAIN p = 1 .. n
  BY Zenon, <1>1, <1>2 DEF Pieces
<1> QED BY <1>1, <1>3, <1>4 DEF Slots

(* A fragment put into a slot it fits leaves a slot.                       *)
LEMMA FillIs ==
  ASSUME NEW m \in Messages, NEW i \in Fragments(m), NEW c \in Partial, Consistent(c, m, i)
  PROVE  /\ Fill(c, m, i) \in Slots /\ Fill(c, m, i).total = c.total
         /\ Fill(c, m, i).fragments = [c.fragments EXCEPT ![i] = <<m, i>>]
         /\ Fill(c, m, i).received = IF c.fragments[i] = None THEN c.received + 1 ELSE c.received
<1>1. /\ c \in Slots /\ c.received # c.total /\ c.total \in Nat /\ c.received \in 1 .. c.total
      /\ c.fragments \in Pieces /\ DOMAIN c.fragments = 1 .. c.total /\ i \in 1 .. c.total
  BY DEF Partial, Slots, Consistent, Fragments
<1>2. PICK p \in [1 .. c.total -> {None} \cup (Messages \X Nat)] : p = c.fragments
  BY <1>1, PiecesAre
<1>3. [p EXCEPT ![i] = <<m, i>>] \in [1 .. c.total -> {None} \cup (Messages \X Nat)]
  BY <1>1, <1>2
<1>4. CASE c.fragments[i] = None
  <2> DEFINE f == [p EXCEPT ![i] = <<m, i>>]
             r == c.received + 1
  <2>1. Fill(c, m, i) = [[c EXCEPT !.fragments = f] EXCEPT !.received = r]
    BY <1>1, <1>2, <1>4 DEF Fill, Slots
  <2>2. f \in Pieces /\ DOMAIN f = 1 .. c.total /\ r \in 1 .. c.total /\ r \in Nat
    BY <1>1, <1>3 DEF Pieces
  <2>3. f = [c.fragments EXCEPT ![i] = <<m, i>>] /\ r = c.received + 1
    BY <1>2
  <2> HIDE DEF f, r
  <2> QED BY Zenon, <1>1, <1>4, <2>1, <2>2, <2>3 DEF Slots
<1>5. CASE c.fragments[i] # None
  <2>1. Fill(c, m, i) = c /\ p[i] = <<m, i>>
    BY <1>2, <1>5 DEF Fill, Consistent
  <2>2. [p EXCEPT ![i] = <<m, i>>] = p
    BY Zenon, <1>1, <1>2, <2>1
  <2> QED BY <1>1, <1>2, <1>5, <2>1, <2>2
<1> QED BY <1>4, <1>5

(* The candidates of a key once a fragment is placed: as many as before,   *)
(* or one more, and that only where the key has room.                      *)
LEMMA PlaceIs ==
  ASSUME NEW m \in Messages, NEW i \in Fragments(m), NEW cs \in Seq(Partial)
  PROVE  /\ Place(cs, m, i) \in Seq(Slots)
         /\ \/ Len(Place(cs, m, i)) = Len(cs)
            \/ /\ Len(Place(cs, m, i)) = Len(cs) + 1 /\ Len(cs) < MaxCandidates
               /\ ~ \E j \in DOMAIN cs : Consistent(cs[j], m, i)
<1>1. \A j \in DOMAIN cs : cs[j] \in Partial /\ cs[j] \in Slots
  BY DEF Partial
<1>2. CASE \E j \in DOMAIN cs : Consistent(cs[j], m, i)
  <2> DEFINE ps == [j \in 1 .. Len(cs) |-> IF Consistent(cs[j], m, i) THEN Fill(cs[j], m, i) ELSE cs[j]]
  <2>1. Place(cs, m, i) = ps
    BY SMTT(30), <1>2 DEF Place
  <2>2. \A j \in 1 .. Len(cs) : ps[j] \in Slots
    <3>1. ASSUME NEW j \in 1 .. Len(cs) PROVE ps[j] \in Slots
      <4>1. PICK c \in Partial : c = cs[j]
        BY SMTT(30), <1>1
      <4>2. Consistent(c, m, i) => Fill(c, m, i) \in Slots
        BY Zenon, FillIs
      <4> QED BY <1>1, <4>1, <4>2
    <3> QED BY <3>1
  <2>3. ps \in Seq(Slots) /\ Len(ps) = Len(cs)
    <3> HIDE DEF ps
    <3>1. DOMAIN ps = 1 .. Len(cs) /\ Len(cs) \in Nat /\ ps = [j \in 1 .. Len(cs) |-> ps[j]]
      BY DEF ps
    <3> QED BY <2>2, <3>1
  <2> QED BY <2>1, <2>3
<1>3. CASE ~ \E j \in DOMAIN cs : Consistent(cs[j], m, i)
  <2> DEFINE n == NewCandidate(m, i)
  <2>1. n \in Slots
    BY NewIs
  <2>2. Place(cs, m, i) = Append(IF Len(cs) >= MaxCandidates THEN Tail(cs) ELSE cs, n)
    BY <1>3 DEF Place
  <2> HIDE DEF n
  <2>3. cs \in Seq(Slots)
    BY <1>1
  <2>4. MaxCandidates \in Nat /\ MaxCandidates # 0
    BY SMTT(30), SarAssumption
  <2>5. CASE Len(cs) >= MaxCandidates
    <3>1. cs # <<>> /\ Tail(cs) \in Seq(Slots) /\ Len(Tail(cs)) = Len(cs) - 1
      BY <2>3, <2>4, <2>5
    <3>2. PICK p \in Seq(Slots) : p = Tail(cs)
      BY Zenon, <3>1
    <3>3. Append(p, n) \in Seq(Slots) /\ Len(Append(p, n)) = Len(p) + 1
      BY <2>1
    <3>4. Len(p) + 1 = Len(cs)
      BY <3>1, <3>2
    <3> QED BY Zenon, <2>2, <2>5, <3>2, <3>3, <3>4
  <2>6. CASE ~(Len(cs) >= MaxCandidates)
    <3>1. Append(cs, n) \in Seq(Slots) /\ Len(Append(cs, n)) = Len(cs) + 1 /\ Len(cs) < MaxCandidates
      BY <2>1, <2>3, <2>4, <2>6
    <3> QED BY <1>3, <2>2, <2>6, <3>1
  <2> QED BY <2>5, <2>6
<1> QED BY <1>2, <1>3

(* A key's candidates grow by one begun and shrink by one that makes room. *)
LEMMA PlaceGrows ==
  ASSUME NEW m \in Messages, NEW i \in Fragments(m), NEW cs \in Seq(Partial)
  PROVE  Len(Place(cs, m, i)) - Len(cs) = One(Begins(cs, m, i)) - One(Evicts(cs, m, i))
<1>1. Len(cs) \in Nat /\ MaxCandidates \in Nat \ {0}
  BY SarAssumption
<1>2. CASE ~Begins(cs, m, i)
  <2>1. One(Begins(cs, m, i)) = 0 /\ One(Evicts(cs, m, i)) = 0
    BY Zenon, <1>2 DEF One, Evicts
  <2>2. Len(Place(cs, m, i)) = Len(cs)
    BY Zenon, <1>2, PlaceIs DEF Begins
  <2> QED BY <1>1, <2>1, <2>2
<1>3. CASE Begins(cs, m, i)
  <2>1. PICK n : n = NewCandidate(m, i)
    OBVIOUS
  <2>2. Place(cs, m, i) = Append(IF Len(cs) >= MaxCandidates THEN Tail(cs) ELSE cs, n)
    BY Zenon, <1>3, <2>1 DEF Place, Begins
  <2>3. One(Begins(cs, m, i)) = 1
    BY Zenon, <1>3 DEF One
  <2>4. CASE Len(cs) >= MaxCandidates
    <3>1. One(Evicts(cs, m, i)) = 1
      BY Zenon, <1>3, <2>4 DEF One, Evicts
    <3>2. Len(cs) # 0
      BY <1>1, <2>4
    <3>3. Len(Append(Tail(cs), n)) = Len(cs)
      BY <3>2
    <3> QED BY <1>1, <2>2, <2>3, <2>4, <3>1, <3>3
  <2>5. CASE ~(Len(cs) >= MaxCandidates)
    <3>1. One(Evicts(cs, m, i)) = 0
      BY Zenon, <2>5 DEF One, Evicts
    <3>2. Len(Append(cs, n)) = Len(cs) + 1
      OBVIOUS
    <3> QED BY <1>1, <2>2, <2>3, <2>5, <3>1, <3>2
  <2> QED BY <2>4, <2>5
<1> QED BY <1>2, <1>3

(* The fragments of m in G, and a candidate that holds exactly those.      *)
Gathered(m, G) == [j \in Fragments(m) |-> IF j \in G THEN <<m, j>> ELSE None]
Holds(c, m, G) ==
  c.total = FragmentTotal[m] /\ c.received = Cardinality(G) /\ c.fragments = Gathered(m, G)

(* While a message's fragments arrive undisturbed and it is not returned,  *)
(* its key has one candidate, which holds exactly what has arrived.        *)
Assembling(q, s) ==
  s.msg # None /\ s.fresh /\ ~s.returned =>
    s.got \subseteq Fragments(s.msg) /\ Len(q) = 1 /\ Holds(q[1], s.msg, s.got)

Streams == [msg : Messages \cup {None}, got : SUBSET Nat, fresh : BOOLEAN, returned : BOOLEAN]

SumHeldSlots(f) == SumOver([k \in SarKeys |-> Len(f[k])], SarKeys)

SarInv ==
  /\ slots \in [SarKeys -> Seq(Partial)]
  /\ \A k \in SarKeys : Len(slots[k]) <= MaxCandidates
  /\ stream \in [SarKeys -> Streams]
  /\ total_candidates = SumHeldSlots(slots)
  /\ total_candidates <= MaxPending
  /\ \A k \in SarKeys : Assembling(slots[k], stream[k])

(* The number of keys is finite.                                           *)
LEMMA KeysAreFinite == IsFiniteSet(SarKeys)
<1>1. PICK f : f = [m \in Messages |-> SegmentKey[m]]
  BY Zenon
<1>2. f \in Surjection(Messages, SarKeys)
  BY <1>1 DEF SarKeys, Surjection
<1> QED BY <1>2, FS_Surjection, SarAssumption

(* TotalIsExact speaks of that sum.                                        *)
LEMMA TotalIs == (TotalIsExact <=> total_candidates = SumHeldSlots(slots))
<1>1. SumFunction([k \in SarKeys |-> Len(slots[k])]) = SumHeldSlots(slots)
  BY Zenon DEF SumFunction, SumFunctionOnSet, SumHeldSlots, SumOver
<1> QED BY <1>1 DEF TotalIsExact

(* Changing one key's candidates changes the number held by as much.       *)
LEMMA HeldSlotsChange ==
  ASSUME NEW f \in [SarKeys -> Seq(Partial)], NEW h \in [SarKeys -> Seq(Partial)],
         NEW e \in SarKeys, \A k \in SarKeys \ {e} : f[k] = h[k]
  PROVE  /\ SumHeldSlots(f) \in Nat /\ SumHeldSlots(h) \in Nat
         /\ SumHeldSlots(h) = SumHeldSlots(f) + (Len(h[e]) - Len(f[e]))
<1> DEFINE lf == [k \in SarKeys |-> Len(f[k])]
           lh == [k \in SarKeys |-> Len(h[k])]
<1>1. \A k \in SarKeys : lf[k] \in Nat /\ lh[k] \in Nat /\ lf[k] \in Int /\ lh[k] \in Int
  OBVIOUS
<1>2. \A k \in SarKeys \ {e} : lf[k] = lh[k]
  OBVIOUS
<1>3. lf[e] = Len(f[e]) /\ lh[e] = Len(h[e])
  OBVIOUS
<1>4. SumHeldSlots(f) = SumOver(lf, SarKeys) /\ SumHeldSlots(h) = SumOver(lh, SarKeys)
  BY DEF SumHeldSlots
<1> HIDE DEF lf, lh
<1>5. SumOver(lh, SarKeys) = SumOver(lf, SarKeys) + (lh[e] - lf[e])
  <2>1. lh[e] \in Int /\ \A k \in SarKeys : lf[k] \in Int
    BY <1>1
  <2> QED BY SMTT(30), <1>2, <2>1, KeysAreFinite, SumChanges
<1>6. SumOver(lf, SarKeys) \in Nat /\ SumOver(lh, SarKeys) \in Nat
  BY <1>1, KeysAreFinite, SumAtLeast
<1> QED BY <1>3, <1>4, <1>5, <1>6

(* The complete candidates leave, the others stay, and all are counted.    *)
LEMMA IngestCounts ==
  ASSUME SarInv, NEW m \in Messages, NEW i \in Fragments(m), Ingest(m, i)
  PROVE  /\ slots' \in [SarKeys -> Seq(Partial)]
         /\ \A k \in SarKeys : Len(slots'[k]) <= MaxCandidates
         /\ total_candidates' = SumHeldSlots(slots') /\ total_candidates' <= MaxPending
<1>1. PICK k \in SarKeys : k = SegmentKey[m]
  BY DEF SarKeys
<1>2. PICK cs \in Seq(Partial) : cs = slots[k]
  BY DEF SarInv
<1>3. PICK placed \in Seq(Slots) : placed = Place(cs, m, i)
  BY PlaceIs
<1>4. PICK done : done = {j \in DOMAIN placed : IsComplete(placed[j])}
  BY Zenon
<1>5. PICK rest : rest = Retain(placed, DOMAIN placed \ done)
  OBVIOUS
<1>6. /\ ~TooMany(cs, m, i)
      /\ slots' = [slots EXCEPT ![k] = rest]
      /\ total_candidates' = (total_candidates + (Len(placed) - Len(cs))) - Cardinality(done)
  <2>1. /\ ~TooMany(cs, m, i)
        /\ slots' = [slots EXCEPT ![k] = rest]
        /\ total_candidates' =
             (total_candidates - One(Evicts(cs, m, i)) + One(Begins(cs, m, i)))
               - Cardinality(done)
    BY Zenon, <1>1, <1>2, <1>3, <1>4, <1>5 DEF Ingest
  <2>2. Len(placed) - Len(cs) = One(Begins(cs, m, i)) - One(Evicts(cs, m, i))
    BY Zenon, <1>3, PlaceGrows
  <2>3. total_candidates \in Nat
    BY Zenon, HeldSlotsChange DEF SarInv
  <2>4. Cardinality(done) \in Nat
    <3>1. PICK n \in Nat : DOMAIN placed = 1 .. n
      OBVIOUS
    <3>2. done \subseteq 1 .. n
      BY Zenon, <1>4, <3>1
    <3>3. IsFiniteSet(1 .. n)
      BY FS_Interval
    <3> QED BY Zenon, <3>2, <3>3, FS_Subset, FS_CardinalityType
  <2>5. One(Begins(cs, m, i)) \in Nat /\ One(Evicts(cs, m, i)) \in Nat
    BY Zenon DEF One
  <2>6. PICK b \in Nat, e \in Nat, n \in Nat :
          b = One(Begins(cs, m, i)) /\ e = One(Evicts(cs, m, i)) /\ n = Cardinality(done)
    BY Zenon, <2>4, <2>5
  <2>7. /\ total_candidates' = (total_candidates - e + b) - n
        /\ Len(placed) - Len(cs) = b - e
    BY Zenon, <2>1, <2>2, <2>6
  <2>8. total_candidates' = (total_candidates + (Len(placed) - Len(cs))) - n
    <3>1. \A v \in Nat : (v - e + b) - n = (v + (b - e)) - n
      OBVIOUS
    <3> QED BY Zenon, <2>3, <2>7, <3>1
  <2> QED BY Zenon, <2>1, <2>6, <2>8
<1>7. /\ rest \in Seq(Slots) /\ IsFiniteSet(DOMAIN placed \ done)
      /\ Len(rest) = Cardinality(DOMAIN placed \ done)
      /\ \A x \in DOMAIN rest : \E j \in DOMAIN placed \ done : rest[x] = placed[j]
  <2>1. PICK keep \in SUBSET DOMAIN placed : keep = DOMAIN placed \ done
    BY Zenon
  <2>2. rest = Retain(placed, keep)
    BY <1>5, <2>1
  <2>3. keep \subseteq DOMAIN placed
    OBVIOUS
  <2>4. /\ Retain(placed, keep) \in Seq(Slots)
        /\ IsFiniteSet(keep) /\ Len(Retain(placed, keep)) = Cardinality(keep)
        /\ \A x \in DOMAIN Retain(placed, keep) : \E j \in keep : Retain(placed, keep)[x] = placed[j]
    BY <2>3, RetainIs
  <2> QED BY Zenon, <2>1, <2>2, <2>4
<1>8. rest \in Seq(Partial)
  <2>1. \A x \in DOMAIN rest : rest[x] \in Partial
    BY <1>4, <1>7 DEF Partial, IsComplete
  <2>2. \A r \in Seq(Slots) : (\A x \in DOMAIN r : r[x] \in Partial) => r \in Seq(Partial)
    OBVIOUS
  <2> QED BY Zenon, <1>7, <2>1, <2>2
<1>9. /\ Len(rest) = Len(placed) - Cardinality(done) /\ Cardinality(done) \in Nat
      /\ Len(rest) \in Nat
  <2>1. PICK n \in Nat : n = Len(placed) /\ DOMAIN placed = 1 .. n
    OBVIOUS
  <2>2. IsFiniteSet(1 .. n) /\ Cardinality(1 .. n) = n
    BY FS_Interval
  <2>3. IsFiniteSet(done) /\ Cardinality(done) \in Nat /\ (1 .. n) \cap done = done
    BY <1>4, <2>1, <2>2, FS_Subset, FS_CardinalityType
  <2>4. Cardinality((1 .. n) \ done) = Cardinality(1 .. n) - Cardinality((1 .. n) \cap done)
    BY Zenon, <2>2, FS_Difference
  <2>5. Cardinality((1 .. n) \ done) = n - Cardinality(done)
    BY Zenon, <2>2, <2>3, <2>4
  <2>6. Len(rest) = n - Cardinality(done)
    BY <1>7, <2>1, <2>5
  <2>7. Len(rest) \in Nat
    BY <1>7
  <2> QED BY <2>1, <2>3, <2>6, <2>7
<1>10. slots' \in [SarKeys -> Seq(Partial)] /\ slots'[k] = rest
       /\ \A q \in SarKeys \ {k} : slots[q] = slots'[q]
  BY <1>6, <1>8 DEF SarInv
<1>11. /\ SumHeldSlots(slots) \in Nat
       /\ SumHeldSlots(slots') = SumHeldSlots(slots) + (Len(rest) - Len(cs))
  <2>1. slots \in [SarKeys -> Seq(Partial)]
    BY DEF SarInv
  <2>2. PICK f \in [SarKeys -> Seq(Partial)], h \in [SarKeys -> Seq(Partial)] : f = slots /\ h = slots'
    BY <1>10, <2>1
  <2>3. SumHeldSlots(f) \in Nat /\ SumHeldSlots(h) = SumHeldSlots(f) + (Len(h[k]) - Len(f[k]))
    BY Zenon, <1>10, <2>2, HeldSlotsChange
  <2> QED BY <1>2, <1>10, <2>2, <2>3
<1>12. total_candidates = SumHeldSlots(slots) /\ total_candidates <= MaxPending
       /\ Len(cs) <= MaxCandidates
  BY <1>2 DEF SarInv
<1>13. Len(cs) \in Nat /\ Len(placed) \in Nat /\ MaxPending \in Nat /\ MaxCandidates \in Nat
  BY SarAssumption
<1>14. total_candidates' = SumHeldSlots(slots')
  BY <1>6, <1>9, <1>11, <1>12, <1>13
<1>15. \/ Len(placed) = Len(cs)
       \/ /\ Len(placed) = Len(cs) + 1 /\ Len(cs) < MaxCandidates
          /\ ~ \E j \in DOMAIN cs : Consistent(cs[j], m, i)
  BY <1>3, PlaceIs
<1>16. Len(placed) = Len(cs) + 1 => total_candidates < MaxPending
  BY <1>6, <1>11, <1>12, <1>13, <1>15 DEF TooMany
<1>17. total_candidates' <= MaxPending
  BY SMTT(30), <1>6, <1>9, <1>11, <1>12, <1>13, <1>15, <1>16
<1>18. Len(rest) <= MaxCandidates
  BY <1>9, <1>12, <1>13, <1>15
<1>19. \A q \in SarKeys : Len(slots'[q]) <= MaxCandidates
  BY Zenon, <1>10, <1>18 DEF SarInv
<1> QED BY <1>10, <1>14, <1>17, <1>19

(* Any set of a message's fragments is finite, and as large as the message *)
(* only when it is all of them.                                            *)
LEMMA AllOfThem ==
  ASSUME NEW m \in Messages, NEW G \in SUBSET Fragments(m)
  PROVE  /\ IsFiniteSet(G) /\ Cardinality(G) \in Nat
         /\ Cardinality(Fragments(m)) = FragmentTotal[m]
         /\ Cardinality(G) = FragmentTotal[m] => G = Fragments(m)
<1>1. PICK n \in Nat : n = FragmentTotal[m] /\ Fragments(m) = 1 .. n
  BY SarAssumption DEF Fragments
<1>2. IsFiniteSet(1 .. n) /\ Cardinality(1 .. n) = n
  BY FS_Interval
<1>3. IsFiniteSet(G) /\ (Cardinality(G) = Cardinality(1 .. n) => G = 1 .. n)
  BY <1>1, <1>2, FS_Subset
<1>4. Cardinality(G) \in Nat
  BY <1>3, FS_CardinalityType
<1> QED BY <1>1, <1>2, <1>3, <1>4

(* A candidate that holds fragments of one message only is complete when   *)
(* they are all there, and is then that message.                           *)
LEMMA CompleteIsWhole ==
  ASSUME NEW m \in Messages, NEW G \in SUBSET Fragments(m), NEW c, Holds(c, m, G)
  PROVE  /\ IsComplete(c) => c.fragments = Whole(m)
         /\ G = Fragments(m) => IsComplete(c)
<1>1. IsComplete(c) => G = Fragments(m)
  BY Zenon, AllOfThem DEF IsComplete, Holds
<1>2. Gathered(m, Fragments(m)) = Whole(m)
  BY DEF Gathered, Whole
<1>3. G = Fragments(m) => IsComplete(c)
  BY AllOfThem DEF IsComplete, Holds
<1> QED BY <1>1, <1>2, <1>3 DEF Holds

(* A first candidate holds the fragment it was begun with.                 *)
LEMMA BegunHolds ==
  ASSUME NEW m \in Messages, NEW i \in Fragments(m)
  PROVE  Holds(NewCandidate(m, i), m, {i})
<1>1. Cardinality({i}) = 1
  BY Zenon, FS_Singleton
<1>2. Gathered(m, {i}) = [j \in Fragments(m) |-> IF j = i THEN <<m, i>> ELSE None]
  BY DEF Gathered
<1> QED BY <1>1, <1>2 DEF Holds, NewCandidate

(* A candidate of the message's own fragments takes the next one, counting *)
(* it once however often it comes.                                         *)
LEMMA FilledHolds ==
  ASSUME NEW m \in Messages, NEW i \in Fragments(m), NEW G \in SUBSET Fragments(m),
         NEW c \in Partial, Holds(c, m, G)
  PROVE  Consistent(c, m, i) /\ Holds(Fill(c, m, i), m, G \cup {i})
<1>1. c.fragments[i] = IF i \in G THEN <<m, i>> ELSE None
  BY DEF Holds, Gathered
<1>2. Consistent(c, m, i)
  BY <1>1 DEF Consistent, Holds
<1>3. <<m, i>> # None
  <2>1. i \in Nat
    BY SarAssumption DEF Fragments
  <2> QED BY <2>1, SarAssumption
<1>4. CASE i \in G
  <2>1. G \cup {i} = G /\ Fill(c, m, i) = c
    BY Zenon, <1>1, <1>3, <1>4 DEF Fill
  <2> QED BY <1>2, <2>1
<1>5. CASE i \notin G
  <2>1. Fill(c, m, i) = [c EXCEPT !.fragments[i] = <<m, i>>, !.received = @ + 1]
    BY <1>1, <1>5 DEF Fill
  <2>2. PICK p : p = [c.fragments EXCEPT ![i] = <<m, i>>]
    BY Zenon
  <2>3. /\ Fill(c, m, i).total = c.total /\ Fill(c, m, i).fragments = p
        /\ Fill(c, m, i).received = c.received + 1
    BY <2>1, <2>2 DEF Partial, Slots
  <2>4. p = Gathered(m, G \cup {i})
    BY Zenon, <2>2 DEF Holds, Gathered
  <2>5. Cardinality(G \cup {i}) = Cardinality(G) + 1
    BY Zenon, <1>5, AllOfThem, FS_AddElement
  <2> QED BY <1>2, <2>3, <2>4, <2>5 DEF Holds
<1> QED BY <1>4, <1>5

(* A lone candidate that is whole is returned; any other stays.            *)
LEMMA LoneCandidate ==
  ASSUME NEW m \in Messages, NEW G \in SUBSET Fragments(m), NEW c \in Slots, Holds(c, m, G),
         NEW done, done = {j \in DOMAIN <<c>> : IsComplete(<<c>>[j])}
  PROVE  \/ Whole(m) \in {<<c>>[j].fragments : j \in done}
         \/ Retain(<<c>>, DOMAIN <<c>> \ done) = <<c>>
<1>1. PICK q \in Seq(Slots) : q = <<c>>
  <2>1. <<c>> \in Seq(Slots)
    OBVIOUS
  <2> QED BY Zenon, <2>1
<1>2. Len(q) = 1 /\ DOMAIN q = {1} /\ q[1] = c
  BY <1>1
<1>3. CASE IsComplete(c)
  BY Zenon, <1>1, <1>2, <1>3, CompleteIsWhole
<1>4. CASE ~IsComplete(c)
  <2>1. done = {}
    BY <1>1, <1>2, <1>4
  <2>2. PICK keep \in SUBSET DOMAIN q : keep = DOMAIN q \ done
    BY Zenon
  <2>3. keep \subseteq DOMAIN q /\ keep # {}
    BY <1>2, <2>1, <2>2
  <2>4. Retain(q, keep) = q
    BY <1>2, <2>3, RetainIs
  <2> QED BY <1>1, <2>2, <2>4
<1> QED BY <1>3, <1>4

(* The only candidate of a key.                                            *)
LEMMA OnlyIs ==
  ASSUME NEW cs \in Seq(Partial), Len(cs) = 1
  PROVE  cs[1] \in Partial /\ DOMAIN cs = 1 .. 1
  OBVIOUS

(* A fragment that belongs in the only candidate goes there.               *)
LEMMA PlaceFills ==
  ASSUME NEW cs \in Seq(Partial), Len(cs) = 1, NEW m, NEW i, Consistent(cs[1], m, i)
  PROVE  cs[1] \in Partial /\ Place(cs, m, i) = <<Fill(cs[1], m, i)>>
<1>1. cs[1] \in Partial /\ DOMAIN cs = 1 .. 1 /\ 1 \in 1 .. 1
  BY OnlyIs
<1>2. \E j \in DOMAIN cs : Consistent(cs[j], m, i)
  BY Zenon, <1>1
<1>3. Place(cs, m, i)
        = [j \in DOMAIN cs |-> IF Consistent(cs[j], m, i) THEN Fill(cs[j], m, i) ELSE cs[j]]
  BY Zenon, <1>2 DEF Place
<1> QED BY <1>1, <1>3

(* The fragment of an undisturbed message goes into its candidate, or      *)
(* begins it; whoever else shares the key has disturbed it.                *)
LEMMA IngestAssembles ==
  ASSUME SarInv, NEW m \in Messages, NEW i \in Fragments(m), Ingest(m, i)
  PROVE  /\ stream' \in [SarKeys -> Streams]
         /\ \A k \in SarKeys : Assembling(slots'[k], stream'[k])
<1>1. PICK k \in SarKeys : k = SegmentKey[m]
  BY DEF SarKeys
<1>2. PICK cs \in Seq(Partial) : cs = slots[k]
  BY DEF SarInv
<1>3. PICK placed \in Seq(Slots) : placed = Place(cs, m, i)
  BY PlaceIs
<1>4. PICK done : done = {j \in DOMAIN placed : IsComplete(placed[j])}
  BY Zenon
<1>5. PICK rest : rest = Retain(placed, DOMAIN placed \ done)
  OBVIOUS
<1>6. PICK s \in Streams : s = stream[k]
  BY DEF SarInv
<1>7. PICK t : t = IF s.msg = m THEN s ELSE [msg |-> m, got |-> {}, fresh |-> cs = <<>>, returned |-> FALSE]
  BY Zenon
<1>8. PICK u : u = [t EXCEPT !.got = @ \union {i},
                             !.returned = @ \/ Whole(m) \in {placed[j].fragments : j \in done}]
  BY Zenon
<1>9. slots' = [slots EXCEPT ![k] = rest] /\ stream' = [stream EXCEPT ![k] = u]
  BY Zenon, <1>1, <1>2, <1>3, <1>4, <1>5, <1>6, <1>7, <1>8 DEF Ingest, Observe
<1>10. t \in Streams /\ t.msg = m /\ i \in Nat
  BY SMTT(30), <1>6, <1>7, SarAssumption DEF Streams, Fragments
<1>11. /\ u \in Streams /\ u.msg = m /\ u.got = t.got \cup {i} /\ u.fresh = t.fresh
       /\ u.returned = (t.returned \/ Whole(m) \in {placed[j].fragments : j \in done})
  <2>1. PICK b \in BOOLEAN : b = (t.returned \/ Whole(m) \in {placed[j].fragments : j \in done})
    BY Zenon, <1>10 DEF Streams
  <2>2. u = [t EXCEPT !.got = t.got \cup {i}, !.returned = b]
    BY <1>8, <1>10, <2>1 DEF Streams
  <2>3. u = [msg |-> m, got |-> t.got \cup {i}, fresh |-> t.fresh, returned |-> b]
    BY Zenon, <1>10, <2>2 DEF Streams
  <2> QED BY <1>10, <2>1, <2>3 DEF Streams
<1>12. Assembling(rest, u)
  <2>1. SUFFICES ASSUME t.fresh, ~t.returned, Whole(m) \notin {placed[j].fragments : j \in done}
                 PROVE  u.got \subseteq Fragments(m) /\ Len(rest) = 1 /\ Holds(rest[1], m, u.got)
    BY Zenon, <1>11 DEF Assembling
  <2>2. \E c \in Slots : placed = <<c>> /\ u.got \subseteq Fragments(m) /\ Holds(c, m, u.got)
    <3>1. CASE s.msg = m
      <4>1. t = s /\ s.fresh /\ ~s.returned /\ m # None
        BY <1>7, <2>1, <3>1, SarAssumption
      <4>2. Assembling(cs, s)
        BY SMTT(30), <1>2, <1>6 DEF SarInv
      <4>3. s.got \subseteq Fragments(m) /\ Len(cs) = 1 /\ Holds(cs[1], m, s.got)
        BY Zenon, <3>1, <4>1, <4>2 DEF Assembling
      <4>4. PICK c \in Partial : c = cs[1]
        <5>1. Len(cs) = 1 => cs[1] \in Partial
          BY Zenon, OnlyIs
        <5> QED BY Zenon, <4>3, <5>1
      <4>5. Consistent(c, m, i) /\ Holds(Fill(c, m, i), m, s.got \cup {i})
        BY Zenon, <4>3, <4>4, FilledHolds
      <4>6. Len(cs) = 1 /\ Consistent(cs[1], m, i)
        BY Zenon, <4>3, <4>4, <4>5
      <4>7. placed = <<Fill(c, m, i)>>
        BY Zenon, <1>3, <4>4, <4>6, PlaceFills
      <4>8. Fill(c, m, i) \in Slots
        BY ZenonT(30), <4>5, FillIs
      <4> QED BY Zenon, <1>11, <4>1, <4>3, <4>5, <4>7, <4>8
    <3>2. CASE s.msg # m
      <4>1. t.got = {} /\ cs = <<>>
        BY Zenon, <1>7, <2>1, <3>2
      <4>2. Place(cs, m, i) = <<NewCandidate(m, i)>>
        BY <4>1, SarAssumption DEF Place
      <4>3. NewCandidate(m, i) \in Slots /\ Holds(NewCandidate(m, i), m, {i})
        BY NewIs, BegunHolds
      <4> QED BY <1>3, <1>11, <4>1, <4>2, <4>3
    <3> QED BY <3>1, <3>2
  <2>3. PICK c \in Slots : placed = <<c>> /\ u.got \subseteq Fragments(m) /\ Holds(c, m, u.got)
    BY Zenon, <2>2
  <2>4. rest = <<c>>
    <3>1. PICK G \in SUBSET Fragments(m) : G = u.got
      BY SMTT(30), <2>3
    <3>2. done = {j \in DOMAIN <<c>> : IsComplete(<<c>>[j])}
      BY SMTT(30), <1>4, <2>3
    <3>3. \/ Whole(m) \in {<<c>>[j].fragments : j \in done}
          \/ Retain(<<c>>, DOMAIN <<c>> \ done) = <<c>>
      BY Zenon, <2>3, <3>1, <3>2, LoneCandidate
    <3> QED BY Zenon, <1>5, <2>1, <2>3, <3>3
  <2> QED BY <2>3, <2>4
<1>13. stream' \in [SarKeys -> Streams]
  BY <1>9, <1>11 DEF SarInv
<1>14. \A q \in SarKeys : Assembling(slots'[q], stream'[q])
  BY <1>9, <1>12 DEF SarInv
<1> QED BY <1>13, <1>14

(* A refused fragment leaves the candidates; its message is disturbed.     *)
LEMMA RefusedKeeps ==
  ASSUME SarInv, NEW m \in Messages, NEW i \in Fragments(m), IngestRefused(m, i)
  PROVE  SarInv'
<1>1. PICK k \in SarKeys : k = SegmentKey[m]
  BY DEF SarKeys
<1>2. slots' = slots /\ total_candidates' = total_candidates /\ stream' = [stream EXCEPT ![k] = NoStream]
  BY SMTT(30), <1>1 DEF IngestRefused
<1>3. NoStream \in Streams /\ Assembling(slots[k], NoStream)
  BY Zenon DEF NoStream, Streams, Assembling
<1> QED BY <1>2, <1>3 DEF SarInv

(* An expiry takes off the total what it takes off the keys, and disturbs  *)
(* the messages it takes a candidate from.                                 *)
LEMMA ExpireKeeps ==
  ASSUME SarInv, SarExpire
  PROVE  SarInv'
<1> DEFINE old == [k \in SarKeys |-> Len(slots[k])]
           new == [k \in SarKeys |-> Len(slots'[k])]
           gone == [k \in SarKeys |-> Len(slots[k]) - Len(slots'[k])]
<1>1. \A k \in SarKeys : /\ slots'[k] \in Seq(Partial) /\ Len(slots'[k]) \in Nat
                         /\ Len(slots'[k]) <= Len(slots[k]) /\ Len(slots[k]) \in Nat
  <2>1. SUFFICES ASSUME NEW k \in SarKeys
                 PROVE  /\ slots'[k] \in Seq(Partial) /\ Len(slots'[k]) \in Nat
                        /\ Len(slots'[k]) <= Len(slots[k]) /\ Len(slots[k]) \in Nat
    OBVIOUS
  <2>2. PICK q \in Seq(Partial) : q = slots[k]
    BY DEF SarInv
  <2>3. PICK keep \in SUBSET DOMAIN q : keep = {j \in DOMAIN q : InTime(q[j])}
    BY Zenon
  <2>4. slots'[k] = Retain(q, keep)
    BY <2>2, <2>3 DEF SarExpire
  <2>5. keep \subseteq DOMAIN q
    OBVIOUS
  <2>6. Retain(q, keep) \in Seq(Partial) /\ IsFiniteSet(keep) /\ Len(Retain(q, keep)) = Cardinality(keep)
    BY <2>5, RetainIs
  <2>7. PICK n \in Nat : n = Len(q) /\ DOMAIN q = 1 .. n
    OBVIOUS
  <2>8. Cardinality(keep) <= n /\ Cardinality(keep) \in Nat
    <3>1. IsFiniteSet(1 .. n) /\ Cardinality(1 .. n) = n
      BY FS_Interval
    <3>2. Cardinality(keep) <= Cardinality(1 .. n)
      BY <2>5, <2>7, <3>1, FS_Subset
    <3>3. Cardinality(keep) \in Nat
      BY SMTT(30), <2>6, FS_CardinalityType
    <3> QED BY <3>1, <3>2, <3>3
  <2> QED BY <2>2, <2>4, <2>6, <2>7, <2>8
<1>2. slots' \in [SarKeys -> Seq(Partial)]
  BY Zenon, <1>1 DEF SarExpire
<1>3. \A k \in SarKeys : Len(slots'[k]) <= MaxCandidates
  BY <1>1, SarAssumption DEF SarInv
<1>4. \A k \in SarKeys : old[k] \in Nat /\ new[k] \in Nat /\ gone[k] = old[k] - new[k]
  BY <1>1
<1>5. SumHeldSlots(slots) = SumOver(old, SarKeys) /\ SumHeldSlots(slots') = SumOver(new, SarKeys)
  BY Zenon DEF SumHeldSlots
<1>6. total_candidates' = total_candidates - SumOver(gone, SarKeys)
  <2>1. SumFunction(gone) = SumOver(gone, SarKeys)
    BY Zenon DEF SumFunction, SumFunctionOnSet, SumOver
  <2> QED BY <2>1 DEF SarExpire
<1>7. \A k \in SarKeys : new[k] <= old[k]
  BY SMTT(30), <1>1
<1> HIDE DEF old, new, gone
<1>8. SumOver(gone, SarKeys) = SumOver(old, SarKeys) - SumOver(new, SarKeys)
  <2>1. \A k \in SarKeys : old[k] \in Int /\ new[k] \in Int /\ gone[k] = old[k] - new[k]
    BY SMTT(30), <1>4
  <2> QED BY SMTT(30), <2>1, KeysAreFinite, SumSplits
<1>9. SumOver(old, SarKeys) \in Nat /\ SumOver(new, SarKeys) \in Nat /\ SumOver(gone, SarKeys) \in Nat
  <2>1. \A k \in SarKeys : gone[k] \in Nat
    BY <1>4, <1>7
  <2> QED BY <1>4, <2>1, KeysAreFinite, SumAtLeast
<1>10. total_candidates = SumHeldSlots(slots) /\ total_candidates <= MaxPending /\ MaxPending \in Nat
  BY SarAssumption DEF SarInv
<1>11. total_candidates' = SumHeldSlots(slots') /\ total_candidates' <= MaxPending
  BY SMTT(30), <1>5, <1>6, <1>8, <1>9, <1>10
<1>12. stream' = [k \in SarKeys |-> IF slots'[k] = slots[k] THEN stream[k] ELSE NoStream]
  BY Zenon DEF SarExpire
<1>13. NoStream \in Streams /\ \A q : Assembling(q, NoStream)
  BY DEF NoStream, Streams, Assembling
<1>14. stream' \in [SarKeys -> Streams]
  BY SMTT(30), <1>12, <1>13 DEF SarInv
<1>15. \A k \in SarKeys : Assembling(slots'[k], stream'[k])
  BY <1>12, <1>13 DEF SarInv
<1> QED BY Zenon, <1>2, <1>3, <1>11, <1>14, <1>15 DEF SarInv

(* Time only ages the candidates.                                          *)
LEMMA TickKeeps ==
  ASSUME SarInv, SarTick
  PROVE  SarInv'
<1>1. ASSUME NEW k \in SarKeys
      PROVE  /\ slots'[k] \in Seq(Partial) /\ Len(slots'[k]) = Len(slots[k])
             /\ Assembling(slots'[k], stream[k])
  <2>1. PICK q \in Seq(Partial) : q = slots[k]
    BY DEF SarInv
  <2>2. PICK r : r = [j \in 1 .. Len(q) |-> [q[j] EXCEPT !.age = IF @ < SarTimeout THEN @ + 1 ELSE @]]
    BY Zenon
  <2>3. slots'[k] = r
    BY <2>1, <2>2 DEF SarTick
  <2>4. ASSUME NEW j \in 1 .. Len(q)
        PROVE  /\ r[j] \in Partial /\ r[j].total = q[j].total
               /\ r[j].fragments = q[j].fragments /\ r[j].received = q[j].received
    <3>1. PICK c \in Partial : c = q[j]
      OBVIOUS
    <3>2. PICK a : a = IF c.age < SarTimeout THEN c.age + 1 ELSE c.age
      OBVIOUS
    <3>3. a \in 0 .. SarTimeout
      <4>1. c.age \in 0 .. SarTimeout
        BY DEF Partial, Slots
      <4>2. SarTimeout \in Nat
        BY SarAssumption
      <4> QED BY <3>2, <4>1, <4>2
    <3>4. r[j] = [c EXCEPT !.age = a]
      BY <2>2, <3>1, <3>2 DEF Partial, Slots
    <3>5. r[j] = [total |-> c.total, fragments |-> c.fragments, received |-> c.received, age |-> a]
      BY Zenon, <3>4 DEF Partial, Slots
    <3> QED BY SMTT(30), <3>1, <3>3, <3>5 DEF Partial, Slots
  <2>5. Len(q) \in Nat
    OBVIOUS
  <2>6. r \in Seq(Partial) /\ Len(r) = Len(q)
    BY <2>2, <2>4, <2>5
  <2>7. Assembling(q, stream[k])
    BY <2>1 DEF SarInv
  <2>8. ASSUME NEW m, NEW G, Len(q) = 1, Holds(q[1], m, G)
        PROVE  Holds(r[1], m, G)
    <3>1. 1 \in 1 .. Len(q)
      BY <2>8
    <3>2. /\ r[1].total = q[1].total /\ r[1].fragments = q[1].fragments
          /\ r[1].received = q[1].received
      BY Zenon, <2>4, <3>1
    <3> QED BY Zenon, <2>8, <3>2 DEF Holds
  <2>9. Assembling(r, stream[k])
    BY Zenon, <2>6, <2>7, <2>8 DEF Assembling
  <2> QED BY <2>1, <2>3, <2>6, <2>9
<1>2. slots' \in [SarKeys -> Seq(Partial)] /\ total_candidates' = total_candidates /\ stream' = stream
  BY <1>1 DEF SarTick
<1>3. SumHeldSlots(slots') = SumHeldSlots(slots)
  <2>1. [k \in SarKeys |-> Len(slots'[k])] = [k \in SarKeys |-> Len(slots[k])]
    BY <1>1
  <2> QED BY <2>1 DEF SumHeldSlots
<1> QED BY Zenon, <1>1, <1>2, <1>3 DEF SarInv

(* The invariant is inductive, and says what the runs check.               *)
LEMMA SarStep ==
  ASSUME SarInv, [SarNext]_sarVars
  PROVE  SarInv'
<1>1. ASSUME NEW m \in Messages, NEW i \in Fragments(m), Ingest(m, i) PROVE SarInv'
  BY <1>1, IngestCounts, IngestAssembles DEF SarInv
<1>2. ASSUME NEW m \in Messages, NEW i \in Fragments(m), IngestRefused(m, i) PROVE SarInv'
  BY <1>2, RefusedKeeps
<1>3. CASE SarExpire
  BY <1>3, ExpireKeeps
<1>4. CASE SarTick
  BY <1>4, TickKeeps
<1>5. CASE UNCHANGED sarVars
  BY <1>5 DEF SarInv, sarVars
<1> QED BY Zenon, <1>1, <1>2, <1>3, <1>4, <1>5 DEF SarNext

(* A new reassembler satisfies it.                                         *)
LEMMA SarBegins ==
  ASSUME SarInit
  PROVE  SarInv
<1> DEFINE zero == [k \in SarKeys |-> Len(slots[k])]
<1>1. slots \in [SarKeys -> Seq(Partial)] /\ \A k \in SarKeys : Len(slots[k]) = 0
  BY DEF SarInit
<1>2. \A k \in SarKeys : zero[k] = 0
  BY <1>1
<1>3. SumHeldSlots(slots) = SumOver(zero, SarKeys)
  BY DEF SumHeldSlots
<1> HIDE DEF zero
<1>4. SumOver(zero, SarKeys) = 0
  <2>1. PICK d : d = [k \in SarKeys |-> 0]
    BY Zenon
  <2>2. \A k \in SarKeys : zero[k] \in Int /\ d[k] \in Int /\ d[k] = zero[k] - zero[k]
    BY <1>2, <2>1
  <2>3. SumOver(d, SarKeys) = SumOver(zero, SarKeys) - SumOver(zero, SarKeys)
    BY <2>2, KeysAreFinite, SumSplits
  <2>4. SumOver(d, SarKeys) = SumOver(zero, SarKeys)
    BY <1>2, <2>1, KeysAreFinite, SumSame
  <2>5. SumOver(zero, SarKeys) \in Nat
    BY SMTT(30), <1>2, KeysAreFinite, SumAtLeast
  <2> QED BY <2>3, <2>4, <2>5
<1>5. stream \in [SarKeys -> Streams] /\ \A k \in SarKeys : Assembling(slots[k], stream[k])
  BY DEF SarInit, NoStream, Streams, Assembling
<1>6. total_candidates = 0
  BY DEF SarInit
<1> QED BY <1>1, <1>3, <1>4, <1>5, <1>6, SarAssumption DEF SarInv

(* What the invariant says of the slots, the total and the messages.       *)
LEMMA SarInvSays ==
  ASSUME SarInv
  PROVE  SarTypeOK /\ TotalIsExact /\ UndisturbedIsReturned
<1>1. TotalIsExact
  BY Zenon, TotalIs DEF SarInv
<1>2. SarTypeOK
  <2>1. total_candidates \in 0 .. MaxPending
    <3>1. \A k \in SarKeys : [q \in SarKeys |-> Len(slots[q])][k] \in Nat
      BY DEF SarInv
    <3>2. SumHeldSlots(slots) \in Nat
      BY Zenon, <3>1, KeysAreFinite, SumAtLeast DEF SumHeldSlots
    <3> QED BY <3>2, SarAssumption DEF SarInv
  <2>2. ASSUME NEW k \in SarKeys, NEW j \in DOMAIN slots[k]
        PROVE  LET c == slots[k][j]
               IN  /\ c.age \in 0..SarTimeout /\ c.received \in 1..(c.total - 1)
                   /\ DOMAIN c.fragments = 1..c.total
    <3>1. PICK q \in Seq(Partial) : q = slots[k]
      BY DEF SarInv
    <3>2. PICK c \in Partial : c = slots[k][j]
      BY <3>1
    <3>3. /\ c.total \in Nat /\ c.received \in 1 .. c.total /\ c.received # c.total
          /\ c.age \in 0 .. SarTimeout /\ DOMAIN c.fragments = 1 .. c.total
      BY DEF Partial, Slots
    <3>4. c.received \in 1 .. (c.total - 1)
      BY <3>3
    <3> QED BY <3>2, <3>3, <3>4
  <2>3. \A k \in SarKeys : Len(slots[k]) <= MaxCandidates /\ stream[k].msg \in Messages \cup {None}
    BY SMTT(30) DEF SarInv, Streams
  <2> QED BY <2>1, <2>2, <2>3 DEF SarTypeOK
<1>3. UndisturbedIsReturned
  <2>1. SUFFICES ASSUME NEW k \in SarKeys, NEW s \in Streams, s = stream[k],
                        s.msg # None, s.fresh, s.got = Fragments(s.msg), ~s.returned
                 PROVE  FALSE
    BY DEF UndisturbedIsReturned, SarInv
  <2>2. PICK m \in Messages : m = s.msg
    BY <2>1 DEF Streams
  <2>3. PICK q \in Seq(Partial) : q = slots[k]
    BY DEF SarInv
  <2>4. Assembling(q, s)
    BY Zenon, <2>1, <2>3 DEF SarInv
  <2>5. Len(q) = 1 /\ Holds(q[1], m, Fragments(m))
    BY <2>1, <2>2, <2>4 DEF Assembling
  <2>6. Len(q) = 1 => q[1] \in Partial
    OBVIOUS
  <2>7. IsComplete(q[1])
    BY <2>5, CompleteIsWhole
  <2> QED BY SMTT(30), <2>5, <2>6, <2>7 DEF IsComplete, Partial
<1> QED BY <1>1, <1>2, <1>3

(* The running total of SarReassembler::ingest and expire is exact however *)
(* many messages share a key, so the cap neither refuses a message it has  *)
(* room for nor lets more in, and the subtraction of usize never wraps.    *)
THEOREM TotalNeverDrifts == SarSpec => [](SarTypeOK /\ TotalIsExact)
<1>1. SarInit => SarInv
  BY SarBegins
<1>2. SarInv /\ [SarNext]_sarVars => SarInv'
  BY SarStep
<1>3. SarInv => SarTypeOK /\ TotalIsExact
  BY SarInvSays
<1> QED BY <1>1, <1>2, <1>3, PTL DEF SarSpec

(* A message whose fragments arrive in any order, with duplicates, at a    *)
(* key that was empty and that no other message touches, is returned whole *)
(* as soon as its last fragment has come.                                  *)
THEOREM UndisturbedComesWhole == SarSpec => []UndisturbedIsReturned
<1>1. SarInit => SarInv
  BY SarBegins
<1>2. SarInv /\ [SarNext]_sarVars => SarInv'
  BY SarStep
<1>3. SarInv => UndisturbedIsReturned
  BY SarInvSays
<1> QED BY <1>1, <1>2, <1>3, PTL DEF SarSpec
=============================================================================
