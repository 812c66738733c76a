---------------------------------- MODULE Sums ----------------------------------
(***************************************************************************)
(* Facts about least and greatest elements and about sums over finite sets.*)
(*                                                                         *)
(* A sum is a fold, which is a recursive function on the subsets of a set. *)
(* Induction over these is stated for a set of good subsets.               *)
(***************************************************************************)
EXTENDS Integers, Functions, FiniteSetsExt, FiniteSetTheorems, WellFoundedInduction, TLAPS

(* Least elements and induction.                                           *)

Earlier == {p \in Nat \X Nat : p[1] < p[2]}

\* A set of naturals that is not empty has a least element.
LEMMA Least == ASSUME NEW S, S \subseteq Nat, S # {} PROVE \E b \in S : \A c \in S : b <= c
<1>1. IsWellFoundedOn(Earlier, Nat)
  BY NatLessThanWellFounded DEF OpToRel, Earlier
<1>2. PICK b \in S : \A c \in S : <<c, b>> \notin Earlier
  BY <1>1, WFMin
<1>3. ASSUME NEW c \in S PROVE b <= c
  <2>1. <<c, b>> \notin Earlier /\ c \in Nat /\ b \in Nat
    BY <1>2
  <2>2. ~(c < b)
    BY <2>1 DEF Earlier
  <2> QED
    BY <2>1, <2>2
<1> QED
  BY <1>3

\* Of some finite sets, one is the smallest.
LEMMA Smallest == ASSUME NEW Sets, Sets # {}, \A T \in Sets : IsFiniteSet(T)
                  PROVE  \E T \in Sets : \A U \in Sets : Cardinality(T) <= Cardinality(U)
<1> DEFINE sizes == {Cardinality(T) : T \in Sets}
<1>1. sizes \subseteq Nat /\ sizes # {}
  BY FS_CardinalityType
<1>2. PICK n \in sizes : \A m \in sizes : n <= m
  <2> HIDE DEF sizes
  <2> QED
    BY <1>1, Least
<1> QED
  BY <1>2

\* Induction over the subsets of a finite set: if a subset is good whenever each with one
\* element less is, then all of them are.
LEMMA SubsetDescent ==
    ASSUME NEW S, IsFiniteSet(S), NEW Good,
           \A T \in SUBSET S : (\A x \in T : T \ {x} \in Good) => T \in Good
    PROVE  \A T \in SUBSET S : T \in Good
<1> DEFINE Bad == {T \in SUBSET S : T \notin Good}
<1> SUFFICES ASSUME Bad # {} PROVE FALSE
  OBVIOUS
<1>1. \A T \in SUBSET S : IsFiniteSet(T) /\ Cardinality(T) \in Nat
  BY FS_Subset, FS_CardinalityType
<1>2. PICK T \in Bad : \A U \in Bad : Cardinality(T) <= Cardinality(U)
  BY <1>1, Smallest
<1>3. ASSUME NEW x \in T PROVE T \ {x} \in Good
  <2>1. Cardinality(T \ {x}) = Cardinality(T) - 1 /\ T \ {x} \in SUBSET S
    BY <1>1, <1>3, FS_RemoveElement
  <2>2. T \ {x} \notin Bad
    BY <1>1, <1>2, <2>1
  <2> QED
    BY <2>1, <2>2
<1> QED
  BY <1>3

\* The same, upwards: what is good of the empty set, and stays good when an element is
\* added, is good of the whole set.
LEMMA SubsetInduction ==
    ASSUME NEW S, IsFiniteSet(S), NEW Good, {} \in Good,
           \A T \in SUBSET S : \A x \in S \ T : T \in Good => T \union {x} \in Good
    PROVE  S \in Good
<1>1. ASSUME NEW T \in SUBSET S, \A x \in T : T \ {x} \in Good PROVE T \in Good
  <2>1. CASE T = {}
    BY <2>1
  <2>2. CASE T # {}
    <3>1. PICK x \in T : TRUE
      BY <2>2
    <3>2. T \ {x} \in SUBSET S /\ x \in S \ (T \ {x}) /\ T = (T \ {x}) \union {x}
      BY <3>1
    <3> QED
      BY <1>1, <3>1, <3>2
  <2> QED
    BY <2>1, <2>2
<1> QED
  BY <1>1, SubsetDescent

\* A minimum exists where there is a lower bound.
LEMMA HasMin == ASSUME NEW S, S \subseteq Int, S # {}, NEW low \in Int, \A s \in S : low <= s
                PROVE  Min(S) \in S /\ \A s \in S : Min(S) <= s
<1> DEFINE up == {n \in Nat : n + low \in S}
<1>1. up # {}
  <2>1. PICK s \in S : TRUE
    OBVIOUS
  <2>2. s - low \in Nat /\ (s - low) + low = s
    BY <2>1
  <2> QED
    BY <2>1, <2>2
<1>2. PICK b \in up : \A c \in up : b <= c
  BY <1>1, Least
<1>3. ASSUME NEW s \in S PROVE b + low <= s
  <2>1. s \in Int /\ low <= s
    OBVIOUS
  <2>2. s - low \in Nat /\ (s - low) + low = s
    BY <2>1
  <2>3. b <= s - low /\ b \in Nat
    BY <1>2, <2>2
  <2> QED
    BY <2>1, <2>3
<1>4. b + low \in S /\ \A s \in S : b + low <= s
  BY <1>2, <1>3
<1> QED
  BY <1>4 DEF Min

\* A maximum exists where there is an upper bound.
LEMMA HasMax == ASSUME NEW S, S \subseteq Int, S # {}, NEW high \in Int, \A s \in S : s <= high
                PROVE  Max(S) \in S /\ \A s \in S : s <= Max(S)
<1> DEFINE down == {n \in Nat : high - n \in S}
<1>1. down # {}
  <2>1. PICK s \in S : TRUE
    OBVIOUS
  <2>2. high - s \in Nat /\ high - (high - s) = s
    BY <2>1
  <2> QED
    BY <2>1, <2>2
<1>2. PICK b \in down : \A c \in down : b <= c
  BY <1>1, Least
<1>3. ASSUME NEW s \in S PROVE high - b >= s
  <2>1. s \in Int /\ s <= high
    OBVIOUS
  <2>2. high - s \in Nat /\ high - (high - s) = s
    BY <2>1
  <2>3. b <= high - s /\ b \in Nat
    BY <1>2, <2>2
  <2> QED
    BY <2>1, <2>3
<1>4. high - b \in S /\ \A s \in S : high - b >= s
  BY <1>2, <1>3
<1>5. Max(S) \in S /\ \A s \in S : Max(S) >= s
  BY <1>4 DEF Max
<1>6. ASSUME NEW s \in S PROVE s <= Max(S)
  BY <1>5
<1> QED
  BY <1>5, <1>6

\* It does in a finite set.
LEMMA FiniteMax == ASSUME NEW S, IsFiniteSet(S), S \subseteq Int, S # {}
                   PROVE  Max(S) \in S /\ \A s \in S : s <= Max(S)
<1> DEFINE Good == {T \in SUBSET S : T = {} \/ \E m \in T : \A t \in T : t <= m}
<1>1. {} \in Good
  OBVIOUS
<1>2. ASSUME NEW T \in SUBSET S, NEW x \in S \ T, T \in Good PROVE T \union {x} \in Good
  <2>1. CASE T = {}
    BY <2>1
  <2>2. CASE T # {}
    <3>1. PICK m \in T : \A t \in T : t <= m
      BY <1>2, <2>2
    <3>2. CASE x <= m
      <4>1. \A t \in T \union {x} : t <= m
        BY <3>1, <3>2
      <4> QED
        BY <4>1
    <3>3. CASE ~(x <= m)
      <4>1. \A t \in T \union {x} : t <= x
        BY <3>1, <3>3
      <4> QED
        BY <4>1
    <3> QED
      BY <3>2, <3>3
  <2> QED
    BY <2>1, <2>2
<1>3. S \in Good
  <2> HIDE DEF Good
  <2> QED
    BY <1>1, <1>2, SubsetInduction
<1>4. PICK m \in S : \A s \in S : s <= m
  BY <1>3
<1> QED
  BY <1>4, HasMax

-----------------------------------------------------------------------------
(* What a sum is.                                                          *)

Pick(S) == CHOOSE x \in S : TRUE

\* The equation of the recursive function that sums f over the subsets of S.
Sums(h, f, S) == h = [T \in SUBSET S |-> IF T = {} THEN 0 ELSE f[Pick(T)] + h[T \ {Pick(T)}]]

\* A sum is a value of a function that satisfies the equation, if there is one.
LEMMA SumDef == ASSUME NEW f, NEW S PROVE SumFunctionOnSet(f, S) = (CHOOSE h : Sums(h, f, S))[S]
  BY DEF SumFunctionOnSet, FoldFunctionOnSet, MapThenFoldSet, Sums, Pick

\* What the equation says of one set.
LEMMA SumsAt == ASSUME NEW f, NEW S, NEW h, Sums(h, f, S), NEW T \in SUBSET S
                PROVE  /\ T = {} => h[T] = 0
                       /\ T # {} => Pick(T) \in T /\ h[T] = f[Pick(T)] + h[T \ {Pick(T)}]
<1>1. h[T] = IF T = {} THEN 0 ELSE f[Pick(T)] + h[T \ {Pick(T)}]
  BY DEF Sums
<1>2. T # {} => Pick(T) \in T
  BY DEF Pick
<1> QED
  BY <1>1, <1>2

\* Whatever sets they are for, two such functions agree on a finite set that both know.
LEMMA SumsAgree == ASSUME NEW f, NEW S1, NEW S2, NEW h1, NEW h2, Sums(h1, f, S1), Sums(h2, f, S2),
                          NEW T, T \subseteq S1, T \subseteq S2, IsFiniteSet(T)
                   PROVE  h1[T] = h2[T]
<1> SUFFICES ASSUME h1[T] # h2[T] PROVE FALSE
  OBVIOUS
<1> DEFINE Bad == {U \in SUBSET T : h1[U] # h2[U]}
<1>1. \A U \in SUBSET T : IsFiniteSet(U)
  BY FS_Subset
<1>2. PICK U \in Bad : \A V \in Bad : Cardinality(U) <= Cardinality(V)
  BY <1>1, Smallest
<1>3. U \in SUBSET S1 /\ U \in SUBSET S2
  OBVIOUS
<1>4. U # {} /\ Pick(U) \in U
  BY <1>2, <1>3, SumsAt
<1> DEFINE V == U \ {Pick(U)}
<1>5. h1[U] = f[Pick(U)] + h1[V] /\ h2[U] = f[Pick(U)] + h2[V]
  BY <1>3, <1>4, SumsAt
<1>6. V \in Bad
  BY <1>2, <1>5
<1>7. Cardinality(V) = Cardinality(U) - 1 /\ Cardinality(U) \in Nat
  BY <1>1, <1>4, FS_RemoveElement, FS_CardinalityType
<1> HIDE DEF V, Bad
<1> QED
  BY <1>2, <1>6, <1>7

\* Where there is such a function for every subset, there is one for the set.
LEMMA SumsExtend == ASSUME NEW f, NEW S, IsFiniteSet(S),
                           \A T \in SUBSET S : T # S => \E h : Sums(h, f, T)
                    PROVE  \E h : Sums(h, f, S)
<1> DEFINE total(T) == SumFunctionOnSet(f, T)
           h == [T \in SUBSET S |-> IF T = {} THEN 0 ELSE f[Pick(T)] + total(T \ {Pick(T)})]
<1>1. ASSUME NEW T \in SUBSET S, T # S PROVE h[T] = total(T)
  <2>1. PICK k : Sums(k, f, T) /\ total(T) = k[T]
    BY <1>1, SumDef
  <2>2. CASE T = {}
    BY <2>1, <2>2, SumsAt
  <2>3. CASE T # {}
    <3> DEFINE V == T \ {Pick(T)}
    <3>1. Pick(T) \in T /\ k[T] = f[Pick(T)] + k[V]
      BY <2>1, <2>3, SumsAt
    <3>2. V \in SUBSET S /\ V # S /\ V \subseteq T /\ IsFiniteSet(V)
      BY <3>1, FS_Subset
    <3>3. PICK j : Sums(j, f, V) /\ total(V) = j[V]
      BY <3>2, SumDef
    <3>4. k[V] = j[V]
      BY <2>1, <3>2, <3>3, SumsAgree
    <3>5. h[T] = f[Pick(T)] + total(V)
      BY <2>3
    <3> QED
      BY <2>1, <3>1, <3>3, <3>4, <3>5
  <2> QED
    BY <2>2, <2>3
<1>2. ASSUME NEW T \in SUBSET S, T # {} PROVE h[T \ {Pick(T)}] = total(T \ {Pick(T)})
  <2>1. Pick(T) \in T
    BY <1>2, SumsAt DEF Pick
  <2> QED
    BY <1>1, <2>1
<1>3. h = [T \in SUBSET S |-> IF T = {} THEN 0 ELSE f[Pick(T)] + h[T \ {Pick(T)}]]
  <2>1. \A T \in SUBSET S : h[T] = IF T = {} THEN 0 ELSE f[Pick(T)] + h[T \ {Pick(T)}]
    BY <1>2
  <2> QED
    BY <2>1
<1>4. Sums(h, f, S)
  BY <1>3 DEF Sums
<1> QED
  BY <1>4

\* Hence there always is one, by induction.
LEMMA SumsExists == ASSUME NEW f, NEW S, IsFiniteSet(S) PROVE \E h : Sums(h, f, S)
<1> SUFFICES ASSUME ~ \E h : Sums(h, f, S) PROVE FALSE
  OBVIOUS
<1> DEFINE Bad == {T \in SUBSET S : ~ \E h : Sums(h, f, T)}
<1>1. \A T \in SUBSET S : IsFiniteSet(T)
  BY FS_Subset
<1>2. PICK T \in Bad : \A U \in Bad : Cardinality(T) <= Cardinality(U)
  BY <1>1, Smallest
<1>3. ASSUME NEW U \in SUBSET T, U # T PROVE \E h : Sums(h, f, U)
  <2>1. Cardinality(U) <= Cardinality(T) /\ Cardinality(U) # Cardinality(T)
    BY <1>1, <1>3, FS_Subset
  <2>2. Cardinality(U) \in Nat /\ Cardinality(T) \in Nat
    BY <1>1, <1>3, FS_CardinalityType
  <2>3. U \notin Bad
    BY <1>2, <2>1, <2>2
  <2> QED
    BY <2>3
<1> QED
  BY <1>1, <1>2, <1>3, SumsExtend

\* The sum over the empty set, and over a set with its chosen element taken out.
LEMMA SumUnfolds == ASSUME NEW f, NEW S, IsFiniteSet(S)
                    PROVE  /\ S = {} => SumFunctionOnSet(f, S) = 0
                           /\ S # {} => /\ Pick(S) \in S
                                        /\ SumFunctionOnSet(f, S) =
                                              f[Pick(S)] + SumFunctionOnSet(f, S \ {Pick(S)})
<1>1. PICK h : Sums(h, f, S) /\ SumFunctionOnSet(f, S) = h[S]
  BY SumsExists, SumDef
<1>2. S = {} => SumFunctionOnSet(f, S) = 0
  BY <1>1, SumsAt
<1>3. ASSUME S # {}
      PROVE  Pick(S) \in S /\ SumFunctionOnSet(f, S) = f[Pick(S)] + SumFunctionOnSet(f, S \ {Pick(S)})
  <2> DEFINE V == S \ {Pick(S)}
  <2>1. Pick(S) \in S /\ h[S] = f[Pick(S)] + h[V]
    BY <1>1, <1>3, SumsAt
  <2>2. IsFiniteSet(V) /\ V \subseteq S
    BY FS_Subset
  <2>3. PICK k : Sums(k, f, V) /\ SumFunctionOnSet(f, V) = k[V]
    BY <2>2, SumsExists, SumDef
  <2>4. h[V] = k[V]
    BY <1>1, <2>2, <2>3, SumsAgree
  <2> QED
    BY <1>1, <2>1, <2>3, <2>4
<1> QED
  BY <1>2, <1>3

-----------------------------------------------------------------------------
(* Sums of integers.                                                       *)

\* Sums of integers are integers.
LEMMA SumInt == ASSUME NEW S, IsFiniteSet(S), NEW f, \A x \in S : f[x] \in Int
                PROVE  \A T \in SUBSET S : SumFunctionOnSet(f, T) \in Int
<1> DEFINE Good == {T \in SUBSET S : SumFunctionOnSet(f, T) \in Int}
<1>1. ASSUME NEW T \in SUBSET S, \A x \in T : T \ {x} \in Good PROVE T \in Good
  <2>1. IsFiniteSet(T)
    BY FS_Subset
  <2>2. CASE T = {}
    <3>1. SumFunctionOnSet(f, T) = 0
      BY <2>1, <2>2, SumUnfolds
    <3> QED
      BY <3>1
  <2>3. CASE T # {}
    <3>1. Pick(T) \in T /\ SumFunctionOnSet(f, T) = f[Pick(T)] + SumFunctionOnSet(f, T \ {Pick(T)})
      BY <2>1, <2>3, SumUnfolds
    <3>2. f[Pick(T)] \in Int /\ SumFunctionOnSet(f, T \ {Pick(T)}) \in Int
      BY <1>1, <3>1
    <3> QED
      BY <3>1, <3>2
  <2> QED
    BY <2>2, <2>3
<1> HIDE DEF Good
<1>2. \A T \in SUBSET S : T \in Good
  BY <1>1, SubsetDescent
<1> QED
  BY <1>2 DEF Good

\* The order does not matter: any element can be the one that is taken out.
LEMMA SumTakesOut == ASSUME NEW S, IsFiniteSet(S), NEW f, \A x \in S : f[x] \in Int
                     PROVE  \A T \in SUBSET S : \A x \in T :
                               SumFunctionOnSet(f, T) = f[x] + SumFunctionOnSet(f, T \ {x})
<1> DEFINE total(T) == SumFunctionOnSet(f, T)
           Good == {T \in SUBSET S : \A x \in T : total(T) = f[x] + total(T \ {x})}
<1>1. ASSUME NEW T \in SUBSET S, \A x \in T : T \ {x} \in Good, NEW x \in T
      PROVE  total(T) = f[x] + total(T \ {x})
  <2> DEFINE c == Pick(T)
  <2>1. c \in T /\ total(T) = f[c] + total(T \ {c})
    BY FS_Subset, SumUnfolds
  <2>2. CASE x = c
    BY <2>1, <2>2
  <2>3. CASE x # c
    <3> DEFINE rest == T \ {c, x}
    <3>1. /\ T \ {c} \in Good /\ x \in T \ {c} /\ (T \ {c}) \ {x} = rest
          /\ T \ {x} \in Good /\ c \in T \ {x} /\ (T \ {x}) \ {c} = rest
      BY <1>1, <2>1, <2>3
    <3>2. total(T \ {c}) = f[x] + total(rest) /\ total(T \ {x}) = f[c] + total(rest)
      BY <3>1
    <3>3. rest \in SUBSET S /\ c \in S /\ x \in S
      BY <2>1
    <3>4. f[x] \in Int /\ f[c] \in Int /\ total(rest) \in Int
      BY <3>3, SumInt
    <3>5. \A k, m, n \in Int : k + (m + n) = m + (k + n)
      OBVIOUS
    <3> HIDE DEF c, rest
    <3> QED
      BY <2>1, <3>2, <3>4, <3>5
  <2> QED
    BY <2>2, <2>3
<1>2. \A T \in SUBSET S : (\A x \in T : T \ {x} \in Good) => T \in Good
  BY <1>1
<1> HIDE DEF Good
<1>3. \A T \in SUBSET S : T \in Good
  BY <1>2, SubsetDescent
<1> QED
  BY <1>3 DEF Good

\* The two cases of an induction: nothing, and one more element.
LEMMA SumEmpty == ASSUME NEW f PROVE SumFunctionOnSet(f, {}) = 0
  BY FS_EmptySet, SumUnfolds

\* The sum over a set with one more element.
LEMMA SumAdds == ASSUME NEW S, IsFiniteSet(S), NEW f, \A x \in S : f[x] \in Int
                 PROVE  \A T \in SUBSET S : \A x \in S \ T :
                           /\ SumFunctionOnSet(f, T) \in Int
                           /\ SumFunctionOnSet(f, T \union {x}) = f[x] + SumFunctionOnSet(f, T)
<1> SUFFICES ASSUME NEW T \in SUBSET S, NEW x \in S \ T
             PROVE  /\ SumFunctionOnSet(f, T) \in Int
                    /\ SumFunctionOnSet(f, T \union {x}) = f[x] + SumFunctionOnSet(f, T)
  OBVIOUS
<1>1. T \union {x} \in SUBSET S /\ x \in T \union {x} /\ (T \union {x}) \ {x} = T
  OBVIOUS
<1>2. SumFunctionOnSet(f, T \union {x}) = f[x] + SumFunctionOnSet(f, (T \union {x}) \ {x})
  BY <1>1, SumTakesOut
<1> QED
  BY <1>1, <1>2, SumInt

\* A sum depends on the values at the elements only, and grows with them.
LEMMA SumMonotone == ASSUME NEW S, IsFiniteSet(S), NEW f, NEW g,
                            \A x \in S : f[x] \in Int /\ g[x] \in Int /\ f[x] <= g[x]
                     PROVE  SumFunctionOnSet(f, S) <= SumFunctionOnSet(g, S)
<1> DEFINE Good == {T \in SUBSET S : SumFunctionOnSet(f, T) <= SumFunctionOnSet(g, T)}
<1>1. {} \in Good
  BY SumEmpty
<1>2. ASSUME NEW T \in SUBSET S, NEW x \in S \ T, T \in Good PROVE T \union {x} \in Good
  <2>1. /\ SumFunctionOnSet(f, T) \in Int /\ SumFunctionOnSet(g, T) \in Int
        /\ SumFunctionOnSet(f, T \union {x}) = f[x] + SumFunctionOnSet(f, T)
        /\ SumFunctionOnSet(g, T \union {x}) = g[x] + SumFunctionOnSet(g, T)
    BY SumAdds
  <2>2. SumFunctionOnSet(f, T) <= SumFunctionOnSet(g, T)
    BY <1>2
  <2>3. f[x] \in Int /\ g[x] \in Int /\ f[x] <= g[x]
    OBVIOUS
  <2>4. SumFunctionOnSet(f, T \union {x}) <= SumFunctionOnSet(g, T \union {x})
    BY <2>1, <2>2, <2>3
  <2> QED
    BY <2>4
<1> HIDE DEF Good
<1>3. S \in Good
  BY <1>1, <1>2, SubsetInduction
<1> QED
  BY <1>3 DEF Good

\* Equal values have equal sums.
LEMMA SumEqual == ASSUME NEW S, IsFiniteSet(S), NEW f, NEW g,
                         \A x \in S : f[x] \in Int /\ f[x] = g[x]
                  PROVE  SumFunctionOnSet(f, S) = SumFunctionOnSet(g, S)
<1>1. SumFunctionOnSet(f, S) \in Int /\ SumFunctionOnSet(g, S) \in Int
  BY SumInt
<1>2. SumFunctionOnSet(f, S) <= SumFunctionOnSet(g, S) /\ SumFunctionOnSet(g, S) <= SumFunctionOnSet(f, S)
  BY SumMonotone
<1> QED
  BY <1>1, <1>2

\* The sum of one value, as often as there are elements.
LEMMA SumConstant == ASSUME NEW S, IsFiniteSet(S), NEW f, NEW c \in Int, \A x \in S : f[x] = c
                     PROVE  SumFunctionOnSet(f, S) = c * Cardinality(S)
<1> DEFINE Good == {T \in SUBSET S : SumFunctionOnSet(f, T) = c * Cardinality(T)}
<1>1. {} \in Good
  BY SumEmpty, FS_EmptySet
<1>2. ASSUME NEW T \in SUBSET S, NEW x \in S \ T, T \in Good PROVE T \union {x} \in Good
  <2>1. SumFunctionOnSet(f, T \union {x}) = c + SumFunctionOnSet(f, T)
    BY SumAdds
  <2>2. Cardinality(T \union {x}) = Cardinality(T) + 1 /\ Cardinality(T) \in Nat
    BY FS_Subset, FS_AddElement, FS_CardinalityType
  <2>3. SumFunctionOnSet(f, T) = c * Cardinality(T)
    BY <1>2
  <2>4. \A n \in Nat : c + c * n = c * (n + 1)
    OBVIOUS
  <2> QED
    BY <2>1, <2>2, <2>3, <2>4
<1> HIDE DEF Good
<1>3. S \in Good
  BY <1>1, <1>2, SubsetInduction
<1> QED
  BY <1>3 DEF Good

\* Sums of natural numbers are natural numbers.
LEMMA SumNat == ASSUME NEW S, IsFiniteSet(S), NEW f, \A x \in S : f[x] \in Nat
                PROVE  SumFunctionOnSet(f, S) \in Nat
<1> DEFINE zero == [x \in S |-> 0]
<1>1. SumFunctionOnSet(zero, S) = 0 * Cardinality(S)
  BY SumConstant
<1>2. SumFunctionOnSet(zero, S) <= SumFunctionOnSet(f, S)
  BY SumMonotone
<1>3. SumFunctionOnSet(f, S) \in Int /\ Cardinality(S) \in Nat
  BY SumInt, FS_CardinalityType
<1> HIDE DEF zero
<1> QED
  BY <1>1, <1>2, <1>3

\* The sum of a multiple.
LEMMA SumScaled == ASSUME NEW S, IsFiniteSet(S), NEW f, NEW g, NEW c \in Int,
                          \A x \in S : f[x] \in Int /\ g[x] = c * f[x]
                   PROVE  SumFunctionOnSet(g, S) = c * SumFunctionOnSet(f, S)
<1> DEFINE Good == {T \in SUBSET S : SumFunctionOnSet(g, T) = c * SumFunctionOnSet(f, T)}
<1>0. (\A x \in S : f[x] \in Int) /\ (\A x \in S : g[x] \in Int)
  <2>1. \A n \in Int : c * n \in Int
    OBVIOUS
  <2> QED
    BY <2>1
<1>1. {} \in Good
  BY SumEmpty
<1>2. ASSUME NEW T \in SUBSET S, NEW x \in S \ T, T \in Good PROVE T \union {x} \in Good
  <2>1. /\ SumFunctionOnSet(f, T) \in Int
        /\ SumFunctionOnSet(f, T \union {x}) = f[x] + SumFunctionOnSet(f, T)
        /\ SumFunctionOnSet(g, T \union {x}) = g[x] + SumFunctionOnSet(g, T)
    BY <1>0, SumAdds
  <2>2. SumFunctionOnSet(g, T) = c * SumFunctionOnSet(f, T) /\ f[x] \in Int /\ g[x] = c * f[x]
    BY <1>2
  <2>3. \A m, n \in Int : c * m + c * n = c * (m + n)
    OBVIOUS
  <2> QED
    BY <2>1, <2>2, <2>3
<1> HIDE DEF Good
<1>3. S \in Good
  BY <1>1, <1>2, SubsetInduction
<1> QED
  BY <1>3 DEF Good

\* The sum of sums.
LEMMA SumPlus == ASSUME NEW S, IsFiniteSet(S), NEW f, NEW g, NEW h,
                        \A x \in S : f[x] \in Int /\ g[x] \in Int /\ h[x] = f[x] + g[x]
                 PROVE  SumFunctionOnSet(h, S) = SumFunctionOnSet(f, S) + SumFunctionOnSet(g, S)
<1> DEFINE total(T) == SumFunctionOnSet(f, T) + SumFunctionOnSet(g, T)
           Good == {T \in SUBSET S : SumFunctionOnSet(h, T) = total(T)}
<1>0. (\A x \in S : f[x] \in Int) /\ (\A x \in S : g[x] \in Int) /\ (\A x \in S : h[x] \in Int)
  OBVIOUS
<1>1. {} \in Good
  BY SumEmpty
<1>2. ASSUME NEW T \in SUBSET S, NEW x \in S \ T, T \in Good PROVE T \union {x} \in Good
  <2>1. /\ SumFunctionOnSet(f, T) \in Int /\ SumFunctionOnSet(g, T) \in Int
        /\ SumFunctionOnSet(f, T \union {x}) = f[x] + SumFunctionOnSet(f, T)
        /\ SumFunctionOnSet(g, T \union {x}) = g[x] + SumFunctionOnSet(g, T)
        /\ SumFunctionOnSet(h, T \union {x}) = h[x] + SumFunctionOnSet(h, T)
    BY <1>0, SumAdds
  <2>2. SumFunctionOnSet(h, T) = total(T) /\ f[x] \in Int /\ g[x] \in Int /\ h[x] = f[x] + g[x]
    BY <1>2
  <2>3. SumFunctionOnSet(h, T \union {x}) = total(T \union {x})
    BY <2>1, <2>2
  <2> QED
    BY <2>3
<1> HIDE DEF Good
<1>3. S \in Good
  BY <1>1, <1>2, SubsetInduction
<1> QED
  BY <1>3 DEF Good

\* The sum over two sets that have nothing in common.
LEMMA SumUnion == ASSUME NEW S, NEW T, IsFiniteSet(S), IsFiniteSet(T), S \intersect T = {},
                         NEW f, \A x \in S \union T : f[x] \in Int
                  PROVE  SumFunctionOnSet(f, S \union T) = SumFunctionOnSet(f, S) + SumFunctionOnSet(f, T)
<1> DEFINE total(U) == SumFunctionOnSet(f, S) + SumFunctionOnSet(f, U)
           Good == {U \in SUBSET T : SumFunctionOnSet(f, S \union U) = total(U)}
<1>1. IsFiniteSet(S \union T) /\ SumFunctionOnSet(f, S) \in Int
  BY FS_Union, SumInt
<1>2. {} \in Good
  <2>1. S \union {} = S
    OBVIOUS
  <2> QED
    BY <1>1, <2>1, SumEmpty
<1>3. ASSUME NEW U \in SUBSET T, NEW x \in T \ U, U \in Good PROVE U \union {x} \in Good
  <2>1. SumFunctionOnSet(f, U) \in Int /\ SumFunctionOnSet(f, U \union {x}) = f[x] + SumFunctionOnSet(f, U)
    BY SumAdds
  <2>2. /\ S \union U \in SUBSET (S \union T) /\ x \in (S \union T) \ (S \union U)
        /\ S \union (U \union {x}) = (S \union U) \union {x}
    OBVIOUS
  <2>3. SumFunctionOnSet(f, (S \union U) \union {x}) = f[x] + SumFunctionOnSet(f, S \union U)
    BY <1>1, <2>2, SumAdds
  <2>4. SumFunctionOnSet(f, S \union U) = total(U) /\ f[x] \in Int
    BY <1>3
  <2>5. SumFunctionOnSet(f, S \union (U \union {x})) = f[x] + total(U)
    BY <2>2, <2>3, <2>4
  <2>6. f[x] + total(U) = total(U \union {x})
    BY <1>1, <2>1, <2>4
  <2> QED
    BY <2>5, <2>6
<1> HIDE DEF Good
<1>4. T \in Good
  BY <1>2, <1>3, SubsetInduction
<1> QED
  BY <1>4 DEF Good

\* The sum over other names for the elements.
LEMMA SumImage ==
    ASSUME NEW S, IsFiniteSet(S), NEW p, \A x, y \in S : p[x] = p[y] => x = y,
           NEW f, NEW g, \A x \in S : g[x] \in Int /\ f[p[x]] = g[x]
    PROVE  IsFiniteSet({p[x] : x \in S}) /\ SumFunctionOnSet(f, {p[x] : x \in S}) = SumFunctionOnSet(g, S)
<1> DEFINE image(T) == {p[x] : x \in T}
           Good == {T \in SUBSET S : /\ IsFiniteSet(image(T))
                                     /\ SumFunctionOnSet(f, image(T)) = SumFunctionOnSet(g, T)}
<1>1. {} \in Good
  <2>1. image({}) = {}
    OBVIOUS
  <2> QED
    BY <2>1, FS_EmptySet, SumEmpty
<1>2. ASSUME NEW T \in SUBSET S, NEW x \in S \ T, T \in Good PROVE T \union {x} \in Good
  <2> DEFINE I == image(T)
             J == image(T \union {x})
  <2>1. J = I \union {p[x]} /\ p[x] \notin I
    OBVIOUS
  <2>2. IsFiniteSet(I) /\ IsFiniteSet(J)
    BY <1>2, <2>1, FS_AddElement
  <2>3. \A y \in J : f[y] \in Int
    OBVIOUS
  <2> HIDE DEF I, J
  <2>4. SumFunctionOnSet(f, J) = f[p[x]] + SumFunctionOnSet(f, I)
    <3>1. I \in SUBSET J /\ p[x] \in J \ I
      BY <2>1
    <3> QED
      BY <2>1, <2>2, <2>3, <3>1, SumAdds
  <2>5. SumFunctionOnSet(g, T \union {x}) = g[x] + SumFunctionOnSet(g, T)
    BY SumAdds
  <2>6. SumFunctionOnSet(f, I) = SumFunctionOnSet(g, T)
    BY <1>2 DEF I
  <2>7. SumFunctionOnSet(f, J) = SumFunctionOnSet(g, T \union {x})
    BY <2>4, <2>5, <2>6
  <2> QED
    BY <2>2, <2>7 DEF J
<1> HIDE DEF Good
<1>3. S \in Good
  BY <1>1, <1>2, SubsetInduction
<1> QED
  BY <1>3 DEF Good

\* A function that is changed at one element.
LEMMA SumChanges ==
    ASSUME NEW B, IsFiniteSet(B), NEW f, NEW g, NEW b \in B,
           \A x \in B : f[x] \in Int, \A x \in B : g[x] \in Int, \A x \in B \ {b} : g[x] = f[x]
    PROVE  SumFunctionOnSet(g, B) = SumFunctionOnSet(f, B) + (g[b] - f[b])
<1> DEFINE C == B \ {b}
<1>1. IsFiniteSet(C) /\ C \in SUBSET B
  BY FS_RemoveElement
<1>2. SumFunctionOnSet(f, B) = f[b] + SumFunctionOnSet(f, C)
  BY SumTakesOut
<1>3. SumFunctionOnSet(g, B) = g[b] + SumFunctionOnSet(g, C)
  BY SumTakesOut
<1>4. SumFunctionOnSet(f, C) \in Int
  BY <1>1, SumInt
<1>5. SumFunctionOnSet(g, C) = SumFunctionOnSet(f, C)
  BY <1>1, SumEqual
<1> HIDE DEF C
<1> QED
  BY <1>2, <1>3, <1>4, <1>5

\* A sum can be taken group by group.
LEMMA SumGroups ==
    ASSUME NEW S, IsFiniteSet(S), NEW B, IsFiniteSet(B), NEW f, NEW p, NEW c, NEW groups,
           \A x \in S : f[x] \in Int, \A x \in S : p[x] \in B,
           \A b \in B : \A x : x \in groups[b] <=> x \in S /\ p[x] = b,
           \A b \in B : c[b] = SumFunctionOnSet(f, groups[b])
    PROVE  SumFunctionOnSet(c, B) = SumFunctionOnSet(f, S)
<1> DEFINE group(T, b) == {x \in T : p[x] = b}
           totals(T) == [b \in B |-> SumFunctionOnSet(f, group(T, b))]
           Good == {T \in SUBSET S : SumFunctionOnSet(totals(T), B) = SumFunctionOnSet(f, T)}
<1>0. ASSUME NEW T \in SUBSET S, NEW b \in B PROVE totals(T)[b] \in Int
  <2>1. group(T, b) \in SUBSET S
    OBVIOUS
  <2> QED
    BY <2>1, SumInt
<1>1. {} \in Good
  <2>1. \A b \in B : group({}, b) = {}
    OBVIOUS
  <2>2. \A b \in B : totals({})[b] = 0
    BY <2>1, SumEmpty
  <2>3. SumFunctionOnSet(totals({}), B) = 0 * Cardinality(B) /\ Cardinality(B) \in Nat
    BY <2>2, SumConstant, FS_CardinalityType
  <2> QED
    BY <2>3, SumEmpty
<1>2. ASSUME NEW T \in SUBSET S, NEW x \in S \ T, T \in Good PROVE T \union {x} \in Good
  <2> DEFINE U == T \union {x}
             old == totals(T)
             new == totals(U)
  <2>1. \A b \in B \ {p[x]} : group(U, b) = group(T, b)
    OBVIOUS
  <2>2. group(U, p[x]) = group(T, p[x]) \union {x} /\ group(T, p[x]) \in SUBSET S /\ x \in S \ group(T, p[x])
    OBVIOUS
  <2>3. SumFunctionOnSet(f, group(U, p[x])) = f[x] + SumFunctionOnSet(f, group(T, p[x]))
    BY <2>2, SumAdds
  <2>4. \A b \in B : old[b] \in Int
    BY <1>0
  <2>5. p[x] \in B /\ f[x] \in Int
    OBVIOUS
  <2>6. new[p[x]] = old[p[x]] + f[x]
    <3>1. new[p[x]] = SumFunctionOnSet(f, group(U, p[x])) /\ old[p[x]] = SumFunctionOnSet(f, group(T, p[x]))
      BY <2>5
    <3>2. old[p[x]] \in Int
      BY <2>4, <2>5
    <3> HIDE DEF old, new
    <3> QED
      BY <2>3, <2>5, <3>1, <3>2
  <2>7. \A b \in B \ {p[x]} : new[b] = old[b]
    BY <2>1
  <2>8. SumFunctionOnSet(f, U) = f[x] + SumFunctionOnSet(f, T) /\ SumFunctionOnSet(f, T) \in Int
    BY SumAdds
  <2>9. SumFunctionOnSet(old, B) = SumFunctionOnSet(f, T)
    BY <1>2
  <2> HIDE DEF old, new, U
  <2>10. SumFunctionOnSet(new, B) = SumFunctionOnSet(old, B) + f[x]
    <3>1. \A b \in B : new[b] \in Int
      BY <2>4, <2>5, <2>6, <2>7
    <3>2. SumFunctionOnSet(new, B) = SumFunctionOnSet(old, B) + (new[p[x]] - old[p[x]])
      BY <2>4, <2>5, <2>7, <3>1, SumChanges
    <3>3. new[p[x]] - old[p[x]] = f[x]
      BY <2>4, <2>5, <2>6
    <3> QED
      BY <3>2, <3>3
  <2>11. SumFunctionOnSet(new, B) = SumFunctionOnSet(f, U)
    BY <2>5, <2>8, <2>9, <2>10
  <2> QED
    BY <2>11 DEF new, U
<1>3. S \in Good
  <2> HIDE DEF Good
  <2> QED
    BY <1>1, <1>2, SubsetInduction
<1>4. SumFunctionOnSet(totals(S), B) = SumFunctionOnSet(f, S)
  BY <1>3
<1>5. \A b \in B : totals(S)[b] \in Int /\ totals(S)[b] = c[b]
  <2>1. \A b \in B : group(S, b) = groups[b]
    OBVIOUS
  <2> QED
    BY <1>0, <2>1
<1>6. SumFunctionOnSet(totals(S), B) = SumFunctionOnSet(c, B)
  BY <1>5, SumEqual
<1> QED
  BY <1>4, <1>6

\* So can a set be counted.
LEMMA CountGroups ==
    ASSUME NEW S, IsFiniteSet(S), NEW B, IsFiniteSet(B), NEW p, NEW c, NEW groups,
           \A x \in S : p[x] \in B,
           \A b \in B : \A x : x \in groups[b] <=> x \in S /\ p[x] = b,
           \A b \in B : c[b] = Cardinality(groups[b])
    PROVE  SumFunctionOnSet(c, B) = Cardinality(S)
<1> DEFINE one == [x \in S |-> 1]
<1>1. ASSUME NEW T \in SUBSET S PROVE SumFunctionOnSet(one, T) = Cardinality(T)
  <2>1. IsFiniteSet(T) /\ Cardinality(T) \in Nat
    BY FS_Subset, FS_CardinalityType
  <2>2. SumFunctionOnSet(one, T) = 1 * Cardinality(T)
    BY <2>1, SumConstant
  <2> QED
    BY <2>1, <2>2
<1>2. \A x \in S : one[x] \in Int
  OBVIOUS
<1> HIDE DEF one
<1>3. \A b \in B : c[b] = SumFunctionOnSet(one, groups[b])
  <2>1. \A b \in B : groups[b] \in SUBSET S
    OBVIOUS
  <2> QED
    BY <1>1, <2>1
<1>4. SumFunctionOnSet(c, B) = SumFunctionOnSet(one, S)
  BY <1>2, <1>3, SumGroups
<1> QED
  BY <1>1, <1>4
=============================================================================
