---------------------------- MODULE UEMapsProofs -----------------------------
(***************************************************************************)
(* What the operators on maps do to the keys, the values and the type of a *)
(* map; and what the other proofs need of sums over the keys of a map.     *)
(* The induction those take is over a set of numbers or of subsets, given  *)
(* as a set and not as a predicate: the library's induction theorems have  *)
(* an operator for a parameter, which the provers cannot instantiate.      *)
(***************************************************************************)
EXTENDS UEMaps, Integers, FiniteSets, FiniteSetTheorems, WellFoundedInduction,
        NaturalsInduction, TLAPS

(***************************************************************************)
(* The empty map is a map of any type.                                     *)
(***************************************************************************)
LEMMA EmptyMapType ==
  ASSUME NEW K, NEW V
  PROVE  IsMap(EmptyMap, K, V) /\ DOMAIN EmptyMap = {}
  BY DEF IsMap, EmptyMap

(***************************************************************************)
(* m[k] = v adds the key k at most, changes no other value, and keeps the  *)
(* type of the map.                                                        *)
(***************************************************************************)
LEMMA PutDomain ==
  ASSUME NEW m, NEW k, NEW v
  PROVE  /\ DOMAIN Put(m, k, v) = DOMAIN m \cup {k}
         /\ Put(m, k, v)[k] = v
         /\ \A x \in DOMAIN m : x # k => Put(m, k, v)[x] = m[x]
  BY DEF Put

LEMMA PutType ==
  ASSUME NEW K, NEW V, NEW m, IsMap(m, K, V), NEW k \in K, NEW v \in V
  PROVE  IsMap(Put(m, k, v), K, V)
  BY DEF IsMap, Put

(***************************************************************************)
(* Writing all of n over m.                                                *)
(***************************************************************************)
LEMMA PutAllDomain ==
  ASSUME NEW m, NEW n
  PROVE  /\ DOMAIN PutAll(m, n) = DOMAIN m \cup DOMAIN n
         /\ \A x \in DOMAIN n : PutAll(m, n)[x] = n[x]
         /\ \A x \in DOMAIN m \ DOMAIN n : PutAll(m, n)[x] = m[x]
  BY DEF PutAll

LEMMA PutAllType ==
  ASSUME NEW K, NEW V, NEW m, NEW n, IsMap(m, K, V), IsMap(n, K, V)
  PROVE  IsMap(PutAll(m, n), K, V)
  BY DEF IsMap, PutAll

(***************************************************************************)
(* Erasing keys, present or not.                                           *)
(***************************************************************************)
LEMMA WithoutDomain ==
  ASSUME NEW m, NEW ks
  PROVE  /\ DOMAIN Without(m, ks) = DOMAIN m \ ks
         /\ \A x \in DOMAIN m \ ks : Without(m, ks)[x] = m[x]
  BY DEF Without, Restrict

LEMMA WithoutType ==
  ASSUME NEW K, NEW V, NEW m, NEW ks, IsMap(m, K, V)
  PROVE  IsMap(Without(m, ks), K, V)
  BY DEF IsMap, Without, Restrict

-----------------------------------------------------------------------------
(* Induction and sums.                                                     *)

(***************************************************************************)
(* A set of numbers that is not empty has a least element.                 *)
(***************************************************************************)
LEMMA LeastNat ==
  ASSUME NEW T, T \subseteq Nat, T # {}
  PROVE  \E n \in T : \A m \in T : n <= m
<1> DEFINE R == OpToRel(<, Nat)
<1>1. IsWellFoundedOn(R, Nat)
  BY NatLessThanWellFounded
<1>2. PICK n \in T : \A m \in T : ~(<<m, n>> \in R)
  BY <1>1, WFMin
<1>3. \A m \in T : ~(m < n)
  BY <1>2 DEF OpToRel
<1> HIDE DEF R
<1>4. n \in Nat /\ \A m \in T : m \in Nat
  OBVIOUS
<1>5. \A m \in T : n <= m
  BY <1>3, <1>4
<1> QED BY <1>5

(***************************************************************************)
(* Induction on the numbers, for a set of them.                            *)
(***************************************************************************)
LEMMA NatClosed ==
  ASSUME NEW F, 0 \in F, \A n \in Nat : n \in F => n + 1 \in F
  PROVE  Nat \subseteq F
<1> SUFFICES ASSUME ~(Nat \subseteq F) PROVE FALSE
  OBVIOUS
<1>1. PICK n \in Nat \ F : \A m \in Nat \ F : n <= m
  BY LeastNat
<1>2. n - 1 \in Nat /\ n - 1 \in F /\ (n - 1) + 1 = n
  BY <1>1
<1> QED BY <1>1, <1>2

(***************************************************************************)
(* Induction on the size of subsets: a family that has the empty set, and  *)
(* a set whenever it has all that lack one element of it.                  *)
(***************************************************************************)
LEMMA SubsetInduction ==
  ASSUME NEW S, IsFiniteSet(S), NEW F, {} \in F,
         \A T \in SUBSET S : T # {} /\ (\A x \in T : T \ {x} \in F) => T \in F
  PROVE  SUBSET S \subseteq F
<1> DEFINE Sizes == {n \in Nat : \A T \in SUBSET S : Cardinality(T) = n => T \in F}
<1>1. \A T \in SUBSET S : IsFiniteSet(T) /\ Cardinality(T) \in Nat
  BY FS_Subset, FS_CardinalityType
<1>2. 0 \in Sizes
  BY <1>1, FS_EmptySet
<1>3. ASSUME NEW n \in Nat, n \in Sizes PROVE n + 1 \in Sizes
  <2> SUFFICES ASSUME NEW T \in SUBSET S, Cardinality(T) = n + 1 PROVE T \in F
    BY <1>3
  <2> HIDE DEF Sizes
  <2>0. IsFiniteSet(T) /\ n + 1 # 0 /\ (n + 1) - 1 = n
    BY <1>1
  <2>1. T # {}
    BY <2>0, FS_EmptySet
  <2>2. ASSUME NEW x \in T PROVE T \ {x} \in F
    <3>1. Cardinality(T \ {x}) = Cardinality(T) - 1
      BY <2>0, FS_RemoveElement
    <3>2. Cardinality(T \ {x}) = n
      BY <2>0, <3>1
    <3> QED BY <1>3, <3>2 DEF Sizes
  <2> QED BY <2>1, <2>2
<1> HIDE DEF Sizes
<1>4. Nat \subseteq Sizes
  BY <1>2, <1>3, NatClosed
<1>5. ASSUME NEW T \in SUBSET S PROVE T \in F
  <2>1. Cardinality(T) \in Sizes
    BY <1>1, <1>4
  <2> QED BY <2>1 DEF Sizes
<1> QED BY <1>5

\* The first element FoldFunctionOnSet takes from s, and the table it fills: the
\* sum of f over every subset of S.
AnyOf(s) == CHOOSE x \in s : TRUE
Sums(g, f, S) ==
  g = [s \in SUBSET S |-> IF s = {} THEN 0 ELSE f[AnyOf(s)] + g[s \ {AnyOf(s)}]]

(***************************************************************************)
(* A sum is the entry of the whole set in the table of its partial sums.   *)
(***************************************************************************)
LEMMA SumDef ==
  ASSUME NEW f, NEW S
  PROVE SumFunctionOnSet(f, S) = (CHOOSE g : Sums(g, f, S))[S]
BY DEF SumFunctionOnSet, FoldFunctionOnSet, MapThenFoldSet, Sums, AnyOf

(***************************************************************************)
(* CHOOSE takes an element of a set that has one.                          *)
(***************************************************************************)
LEMMA AnyOfIn == ASSUME NEW s, s # {} PROVE AnyOf(s) \in s
BY DEF AnyOf

(***************************************************************************)
(* The partial sums exist: by induction on the size of the sets summed.    *)
(***************************************************************************)
LEMMA SumsExist ==
  ASSUME NEW S, IsFiniteSet(S), NEW f, \A i \in S : f[i] \in Int
  PROVE  \E g \in [SUBSET S -> Int] : Sums(g, f, S)
<1> DEFINE Upto(n) == {s \in SUBSET S : Cardinality(s) <= n}
           Step(g, s) == IF s = {} THEN 0 ELSE f[AnyOf(s)] + g[s \ {AnyOf(s)}]
           Sizes == {n \in Nat : \E g \in [Upto(n) -> Int] : \A s \in Upto(n) : g[s] = Step(g, s)}
<1>1. \A s \in SUBSET S : IsFiniteSet(s) /\ Cardinality(s) \in Nat /\ Cardinality(s) <= Cardinality(S)
  BY FS_Subset, FS_CardinalityType
<1>2. 0 \in Sizes
  <2>1. Upto(0) = {{}}
    BY <1>1, FS_EmptySet
  <2> DEFINE g == [s \in Upto(0) |-> 0]
  <2>2. g \in [Upto(0) -> Int] /\ \A s \in Upto(0) : g[s] = Step(g, s)
    BY <2>1
  <2> QED BY <2>2
<1>3. ASSUME NEW n \in Nat, n \in Sizes PROVE n + 1 \in Sizes
  <2>1. PICK g \in [Upto(n) -> Int] : \A s \in Upto(n) : g[s] = Step(g, s)
    BY <1>3
  <2> DEFINE h == [s \in Upto(n + 1) |-> Step(g, s)]
  <2>2. ASSUME NEW s \in Upto(n + 1), s # {}
        PROVE  AnyOf(s) \in S /\ s \ {AnyOf(s)} \in Upto(n)
    <3>1. AnyOf(s) \in s /\ Cardinality(s \ {AnyOf(s)}) = Cardinality(s) - 1
      BY <1>1, <2>2, AnyOfIn, FS_RemoveElement
    <3> QED BY <1>1, <3>1
  <2>3. h \in [Upto(n + 1) -> Int]
    BY <2>2
  <2>4. \A s \in Upto(n) : s \in Upto(n + 1) /\ h[s] = g[s]
    BY <1>1, <2>1
  <2>5. \A s \in Upto(n + 1) : h[s] = Step(h, s)
    BY <2>2, <2>4
  <2> HIDE DEF h, Step, Upto
  <2>6. \E q \in [Upto(n + 1) -> Int] : \A s \in Upto(n + 1) : q[s] = Step(q, s)
    BY <2>3, <2>5
  <2> QED BY <2>6
<1>4. Cardinality(S) \in Sizes
  <2> HIDE DEF Sizes
  <2>1. Nat \subseteq Sizes
    BY <1>2, <1>3, NatClosed
  <2> QED BY <1>1, <2>1
<1>5. Upto(Cardinality(S)) = SUBSET S
  BY <1>1
<1>6. PICK g \in [SUBSET S -> Int] : \A s \in SUBSET S : g[s] = Step(g, s)
  BY <1>4, <1>5
<1>7. Sums(g, f, S)
  BY <1>6 DEF Sums
<1> QED BY <1>7

(***************************************************************************)
(* Two tables of partial sums agree wherever both have an entry.           *)
(***************************************************************************)
LEMMA SumsAgree ==
  ASSUME NEW T, IsFiniteSet(T), NEW S \in SUBSET T, NEW f, NEW g, NEW h,
         Sums(g, f, T), Sums(h, f, S)
  PROVE  \A s \in SUBSET S : g[s] = h[s]
<1> DEFINE F == {s \in SUBSET S : g[s] = h[s]}
<1>1. IsFiniteSet(S)
  BY FS_Subset
<1>2. {} \in F
  BY DEF Sums
<1>3. ASSUME NEW s \in SUBSET S, s # {}, \A x \in s : s \ {x} \in F PROVE s \in F
  <2>1. AnyOf(s) \in s
    BY <1>3, AnyOfIn
  <2>2. g[s \ {AnyOf(s)}] = h[s \ {AnyOf(s)}]
    BY <1>3, <2>1
  <2> QED BY <1>3, <2>2 DEF Sums
<1> HIDE DEF F
<1>4. SUBSET S \subseteq F
  BY <1>1, <1>2, <1>3, SubsetInduction
<1> QED BY <1>4 DEF F

(***************************************************************************)
(* Sums of integers are integers.                                          *)
(***************************************************************************)
LEMMA SumsType ==
  ASSUME NEW S, IsFiniteSet(S), NEW f, \A i \in S : f[i] \in Int, NEW g, Sums(g, f, S)
  PROVE  g \in [SUBSET S -> Int]
<1>1. PICK h \in [SUBSET S -> Int] : Sums(h, f, S)
  BY SumsExist
<1>2. S \in SUBSET S
  OBVIOUS
<1>3. \A s \in SUBSET S : g[s] = h[s]
  BY <1>1, <1>2, SumsAgree
<1>4. g = [s \in SUBSET S |-> g[s]]
  BY DEF Sums
<1> QED BY <1>1, <1>3, <1>4

(***************************************************************************)
(* The order of summation does not matter: any element may be taken first. *)
(***************************************************************************)
LEMMA SumsRemove ==
  ASSUME NEW S, IsFiniteSet(S), NEW f, \A i \in S : f[i] \in Int,
         NEW g, Sums(g, f, S), NEW x \in S
  PROVE  g[S] = f[x] + g[S \ {x}]
<1> DEFINE F == {s \in SUBSET S : \A z \in s : g[s] = f[z] + g[s \ {z}]}
<1>0. g \in [SUBSET S -> Int]
  BY SumsType
<1>1. ASSUME NEW s \in SUBSET S, s # {}, \A z \in s : s \ {z} \in F PROVE s \in F
  <2> SUFFICES ASSUME NEW w \in s PROVE g[s] = f[w] + g[s \ {w}]
    OBVIOUS
  <2> DEFINE y == AnyOf(s)
  <2>1. y \in s /\ g[s] = f[y] + g[s \ {y}]
    BY <1>1, AnyOfIn DEF Sums
  <2>2. CASE w = y
    BY <2>1, <2>2
  <2>3. CASE w # y
    <3> HIDE DEF y
    <3>1. g[s \ {y}] = f[w] + g[(s \ {y}) \ {w}]
      BY <1>1, <2>1, <2>3
    <3>2. g[s \ {w}] = f[y] + g[(s \ {w}) \ {y}]
      BY <1>1, <2>1, <2>3
    <3>3. (s \ {w}) \ {y} = (s \ {y}) \ {w} /\ (s \ {w}) \ {y} \in SUBSET S
      OBVIOUS
    <3>4. f[w] \in Int /\ f[y] \in Int /\ g[(s \ {y}) \ {w}] \in Int
      BY <1>0, <2>1, <3>3
    <3>5. g[(s \ {w}) \ {y}] = g[(s \ {y}) \ {w}]
      BY <3>3
    <3> QED BY <2>1, <3>1, <3>2, <3>4, <3>5
  <2> QED BY <2>2, <2>3
<1>2. {} \in F
  OBVIOUS
<1> HIDE DEF F
<1>3. SUBSET S \subseteq F
  BY <1>1, <1>2, SubsetInduction
<1>4. S \in F
  BY <1>3
<1> QED BY <1>4 DEF F

(***************************************************************************)
(* A sum over a finite set is zero for none, an integer, and the value at  *)
(* any element plus the sum over the others.                               *)
(***************************************************************************)
LEMMA SumFacts ==
  ASSUME NEW S, IsFiniteSet(S), NEW f, \A i \in S : f[i] \in Int
  PROVE  /\ SumFunctionOnSet(f, {}) = 0
         /\ SumFunctionOnSet(f, S) \in Int
         /\ \A x \in S : SumFunctionOnSet(f, S) = f[x] + SumFunctionOnSet(f, S \ {x})
<1> DEFINE G(T) == CHOOSE g : Sums(g, f, T)
<1>1. ASSUME NEW T \in SUBSET S
      PROVE  Sums(G(T), f, T) /\ G(T) \in [SUBSET T -> Int]
  <2>1. IsFiniteSet(T) /\ \A i \in T : f[i] \in Int
    BY FS_Subset
  <2>2. \E g : Sums(g, f, T)
    BY <2>1, SumsExist
  <2>3. Sums(G(T), f, T)
    BY <2>2
  <2> QED BY <2>1, <2>3, SumsType
<1>2. \A T \in SUBSET S : SumFunctionOnSet(f, T) = G(T)[T]
  BY SumDef
<1> HIDE DEF G
<1>3. SumFunctionOnSet(f, {}) = 0
  BY <1>1, <1>2 DEF Sums
<1>4. SumFunctionOnSet(f, S) \in Int
  <2>1. S \in SUBSET S
    OBVIOUS
  <2>2. G(S) \in [SUBSET S -> Int]
    BY <1>1, <2>1
  <2>3. G(S)[S] \in Int
    BY <2>1, <2>2
  <2> QED BY <1>2, <2>1, <2>3
<1>5. ASSUME NEW x \in S PROVE SumFunctionOnSet(f, S) = f[x] + SumFunctionOnSet(f, S \ {x})
  <2>1. G(S)[S] = f[x] + G(S)[S \ {x}]
    <3>1. S \in SUBSET S /\ Sums(G(S), f, S)
      BY <1>1
    <3> QED BY <3>1, SumsRemove
  <2>2. G(S)[S \ {x}] = G(S \ {x})[S \ {x}]
    <3>1. S \ {x} \in SUBSET S /\ Sums(G(S), f, S) /\ Sums(G(S \ {x}), f, S \ {x})
      BY <1>1
    <3> QED BY <3>1, SumsAgree
  <2> QED BY <1>2, <2>1, <2>2
<1> QED BY <1>3, <1>4, <1>5

(***************************************************************************)
(* A sum grows by the number of the elements that are counted once more.   *)
(***************************************************************************)
LEMMA SumGrows ==
  ASSUME NEW T, IsFiniteSet(T), NEW S \in SUBSET T, NEW C \in SUBSET T, NEW f, NEW h,
         \A i \in S : f[i] \in Int,
         \A i \in T : h[i] = (IF i \in S THEN f[i] ELSE 0) + (IF i \in C THEN 1 ELSE 0)
  PROVE  SumFunctionOnSet(h, T) = SumFunctionOnSet(f, S) + Cardinality(C)
<1> DEFINE F == {U \in SUBSET T : SumFunctionOnSet(h, U) =
                    SumFunctionOnSet(f, U \cap S) + Cardinality(U \cap C)}
<1>1. \A i \in T : h[i] \in Int
  OBVIOUS
<1>2. {} \in F
  <2>1. SumFunctionOnSet(h, {}) = 0 /\ SumFunctionOnSet(f, {}) = 0
    BY FS_EmptySet, SumFacts
  <2>2. {} \cap S = {} /\ {} \cap C = {} /\ Cardinality({}) = 0
    BY FS_EmptySet
  <2> QED BY <2>1, <2>2
<1>3. ASSUME NEW U \in SUBSET T, U # {}, \A x \in U : U \ {x} \in F PROVE U \in F
  <2>1. PICK x \in U : TRUE
    BY <1>3
  <2> DEFINE V == U \ {x}
  <2>2. SumFunctionOnSet(h, V) = SumFunctionOnSet(f, V \cap S) + Cardinality(V \cap C)
    BY <1>3, <2>1
  <2>3. IsFiniteSet(U) /\ IsFiniteSet(V) /\ IsFiniteSet(U \cap S) /\ IsFiniteSet(V \cap S)
        /\ IsFiniteSet(U \cap C) /\ IsFiniteSet(V \cap C)
    BY FS_Subset
  <2>4. SumFunctionOnSet(h, U) = h[x] + SumFunctionOnSet(h, V)
    <3>1. \A i \in U : h[i] \in Int
      BY <1>1
    <3> QED BY <2>3, <3>1, SumFacts
  <2>5. SumFunctionOnSet(f, V \cap S) \in Int /\ Cardinality(V \cap C) \in Int
    <3>1. \A i \in V \cap S : f[i] \in Int
      OBVIOUS
    <3> QED BY <2>3, <3>1, SumFacts, FS_CardinalityType
  <2>6. SumFunctionOnSet(f, U \cap S) =
          (IF x \in S THEN f[x] ELSE 0) + SumFunctionOnSet(f, V \cap S)
    <3>1. CASE x \in S
      <4>1. (U \cap S) \ {x} = V \cap S /\ x \in U \cap S /\ \A i \in U \cap S : f[i] \in Int
        BY <3>1
      <4>2. SumFunctionOnSet(f, U \cap S) = f[x] + SumFunctionOnSet(f, (U \cap S) \ {x})
        BY <2>3, <4>1, SumFacts
      <4> QED BY <3>1, <4>1, <4>2
    <3>2. CASE x \notin S
      <4>1. U \cap S = V \cap S
        BY <3>2
      <4>2. SumFunctionOnSet(f, U \cap S) = SumFunctionOnSet(f, V \cap S)
        BY <4>1
      <4> QED BY <2>5, <3>2, <4>2
    <3> QED BY <3>1, <3>2
  <2>7. Cardinality(U \cap C) = (IF x \in C THEN 1 ELSE 0) + Cardinality(V \cap C)
    <3>1. CASE x \in C
      <4>1. (U \cap C) \ {x} = V \cap C /\ x \in U \cap C
        BY <3>1
      <4>2. Cardinality((U \cap C) \ {x}) = Cardinality(U \cap C) - 1
            /\ Cardinality(U \cap C) \in Nat
        BY <2>3, <4>1, FS_RemoveElement, FS_CardinalityType
      <4>3. Cardinality((U \cap C) \ {x}) = Cardinality(V \cap C)
        BY <4>1
      <4> QED BY <3>1, <4>2, <4>3
    <3>2. CASE x \notin C
      <4>1. U \cap C = V \cap C
        BY <3>2
      <4>2. Cardinality(U \cap C) = Cardinality(V \cap C)
        BY <4>1
      <4> QED BY <2>5, <3>2, <4>2
    <3> QED BY <3>1, <3>2
  <2>8. h[x] = (IF x \in S THEN f[x] ELSE 0) + (IF x \in C THEN 1 ELSE 0)
        /\ (x \in S => f[x] \in Int)
    BY <2>1
  <2> HIDE DEF V
  <2>9. SumFunctionOnSet(h, U) =
           SumFunctionOnSet(f, U \cap S) + Cardinality(U \cap C)
    BY <2>2, <2>4, <2>5, <2>6, <2>7, <2>8
  <2> QED BY <2>9
<1> HIDE DEF F
<1>4. SUBSET T \subseteq F
  BY <1>2, <1>3, SubsetInduction
<1>5. T \cap S = S /\ T \cap C = C /\ T \in F
  BY <1>4
<1> QED BY <1>5 DEF F
=============================================================================
