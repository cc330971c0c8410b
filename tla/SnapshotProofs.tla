--------------------------- MODULE SnapshotProofs ---------------------------
(***************************************************************************)
(* What the modules about the snapshot rest on: sums over finite sets, the *)
(* decimals, lists made from sets of indices, and the maps parsing.go      *)
(* builds from the files.                                                  *)
(***************************************************************************)
EXTENDS Snapshot, FiniteSetTheorems, WellFoundedInduction, SequenceTheorems, TLAPS

-----------------------------------------------------------------------------
(* Sums over finite sets, as the models write them (SumFunction and        *)
(* SumFunctionOnSet of Functions), and the two inductions they rest on.    *)
(*                                                                         *)
(* An induction hypothesis is a set here, not an operator: the induction   *)
(* theorems of the library take an operator, which the provers cannot      *)
(* instantiate, but the minimal elements they are proved from are those of *)
(* a set.                                                                  *)

\* A file is a function on 1 to its length.
LEMMA FileDomain ==
  ASSUME NEW file, file \in Seq(Range(file))
  PROVE  /\ DOMAIN file = 1..Len(file)
         /\ Len(file) \in Nat
         /\ IsFiniteSet(DOMAIN file)
         /\ DOMAIN file \subseteq Nat
<1>1. DOMAIN file = 1..Len(file) /\ Len(file) \in Nat
  OBVIOUS
<1>2. IsFiniteSet(1..Len(file))
  BY <1>1, FS_Interval
<1> QED
  BY <1>1, <1>2

-----------------------------------------------------------------------------
(* Induction.                                                              *)

\* A family of subsets of a finite set has a minimal member.
LEMMA MinimalSubset ==
  ASSUME NEW S, IsFiniteSet(S), NEW Bad, Bad \subseteq SUBSET S, Bad # {}
  PROVE  \E T \in Bad : \A U \in SUBSET T : U # T => U \notin Bad
<1>1. PICK T \in Bad : \A U \in Bad : <<U, T>> \notin StrictSubsetOrdering(S)
  <2>1. IsWellFoundedOn(StrictSubsetOrdering(S), FiniteSubsetsOf(S))
    BY FS_StrictSubsetOrderingWellFounded
  <2>2. Bad \subseteq FiniteSubsetsOf(S)
    BY FS_Subset DEF FiniteSubsetsOf
  <2> QED
    BY <2>1, <2>2, WFMin
<1> SUFFICES ASSUME NEW U \in SUBSET T, U # T, U \in Bad PROVE FALSE
  BY <1>1
<1>2. <<U, T>> \in StrictSubsetOrdering(S)
  BY <1>1 DEF StrictSubsetOrdering
<1> QED
  BY <1>1, <1>2

\* A family of subsets of a finite set that holds the empty set, and with each
\* of its members those with one element more, holds the set.
LEMMA SetInduction ==
  ASSUME NEW S, IsFiniteSet(S), NEW G,
         {} \in G,
         \A T \in SUBSET S : T \in G => \A x \in S \ T : T \cup {x} \in G
  PROVE  S \in G
<1> DEFINE Bad == (SUBSET S) \ G
<1> SUFFICES ASSUME Bad # {} PROVE FALSE
  OBVIOUS
<1>1. PICK T \in Bad : \A U \in SUBSET T : U # T => U \notin Bad
  <2>1. Bad \subseteq SUBSET S
    OBVIOUS
  <2> HIDE DEF Bad
  <2> QED
    BY <2>1, MinimalSubset
<1>2. PICK x \in T : TRUE
  BY <1>1
<1>3. T \ {x} \in SUBSET S /\ T \ {x} \in G /\ x \in S \ (T \ {x})
  BY <1>1, <1>2
<1>4. (T \ {x}) \cup {x} = T
  BY <1>2
<1> QED
  BY <1>1, <1>3, <1>4

\* A set of numbers that holds 0 and the successors of its members.
LEMMA NumberInduction ==
  ASSUME NEW G, 0 \in G, \A n \in Nat : n \in G => n + 1 \in G
  PROVE  Nat \subseteq G
<1> DEFINE Bad == Nat \ G
<1>1. SUFFICES ASSUME Bad # {} PROVE FALSE
  OBVIOUS
<1> DEFINE Less == OpToRel(<, Nat)
<1>2. \A m, n \in Nat : m < n => <<m, n>> \in Less
  BY DEF OpToRel
<1>3. IsWellFoundedOn(Less, Nat)
  BY NatLessThanWellFounded
<1>4. Bad \subseteq Nat
  OBVIOUS
<1> HIDE DEF Bad, Less
<1>5. PICK n \in Bad : \A m \in Bad : <<m, n>> \notin Less
  BY <1>1, <1>3, <1>4, WFMin
<1>6. n \in Nat
  BY <1>4
<1>7. n = 0 \/ (n - 1 \in Nat /\ <<n - 1, n>> \in Less)
  BY <1>2, <1>6
<1>8. n = 0 \/ (n - 1 \in Nat /\ n - 1 \notin Bad)
  BY <1>5, <1>7
<1> QED
  BY <1>6, <1>8 DEF Bad

-----------------------------------------------------------------------------
(* The recursive function that SumFunctionOnSet is, and its equation.      *)

Pick(s) == CHOOSE x \in s : TRUE

IsPartialSum(sum, f, S) ==
  sum = [s \in SUBSET S |-> IF s = {} THEN 0 ELSE f[Pick(s)] + sum[s \ {Pick(s)}]]

PartialSum(f, S) == CHOOSE sum : IsPartialSum(sum, f, S)

LEMMA SumIsPartialSum ==
  ASSUME NEW f, NEW S
  PROVE  SumFunctionOnSet(f, S) = PartialSum(f, S)[S]
BY DEF SumFunctionOnSet, FoldFunctionOnSet, MapThenFoldSet, PartialSum,
       IsPartialSum, Pick

LEMMA PickIn ==
  ASSUME NEW s, s # {}
  PROVE  Pick(s) \in s
BY DEF Pick

\* Two of them agree wherever both are defined.
LEMMA PartialSumUnique ==
  ASSUME NEW f, NEW S, IsFiniteSet(S), NEW R, NEW g, NEW h,
         S \in SUBSET R, IsPartialSum(g, f, S), IsPartialSum(h, f, R)
  PROVE  \A s \in SUBSET S : g[s] = h[s]
<1> DEFINE Bad == {s \in SUBSET S : g[s] # h[s]}
<1> SUFFICES ASSUME Bad # {} PROVE FALSE
  OBVIOUS
<1>1. PICK T \in Bad : \A U \in SUBSET T : U # T => U \notin Bad
  <2>1. Bad \subseteq SUBSET S
    OBVIOUS
  <2> HIDE DEF Bad
  <2> QED
    BY <2>1, MinimalSubset
<1>2. T # {}
  <2>1. g[{}] = 0 /\ h[{}] = 0
    BY DEF IsPartialSum
  <2> QED
    BY <1>1, <2>1
<1>3. Pick(T) \in T
  BY <1>2, PickIn
<1>4. T \ {Pick(T)} \in SUBSET T /\ T \ {Pick(T)} # T
  BY <1>3
<1>5. g[T \ {Pick(T)}] = h[T \ {Pick(T)}]
  BY <1>1, <1>4
<1>6. g[T] = f[Pick(T)] + g[T \ {Pick(T)}]
  BY <1>1, <1>2 DEF IsPartialSum
<1>7. h[T] = f[Pick(T)] + h[T \ {Pick(T)}]
  BY <1>1, <1>2 DEF IsPartialSum
<1> QED
  BY <1>1, <1>5, <1>6, <1>7

\* There is one for every finite set.
LEMMA PartialSumExists ==
  ASSUME NEW f, NEW S, IsFiniteSet(S)
  PROVE  IsPartialSum(PartialSum(f, S), f, S)
<1> DEFINE Has(s) == \E sum : IsPartialSum(sum, f, s)
           Bad == {s \in SUBSET S : ~Has(s)}
<1> SUFFICES ASSUME Bad # {} PROVE FALSE
  <2>1. Has(S) => IsPartialSum(PartialSum(f, S), f, S)
    BY DEF PartialSum
  <2>2. S \in SUBSET S
    OBVIOUS
  <2> QED
    BY <2>1, <2>2
<1>1. PICK T \in Bad : \A U \in SUBSET T : U # T => U \notin Bad
  <2>1. Bad \subseteq SUBSET S
    OBVIOUS
  <2> HIDE DEF Bad
  <2> QED
    BY <2>1, MinimalSubset
<1> DEFINE value(s) == PartialSum(f, s)[s]
           sum == [s \in SUBSET T |->
                     IF s = {} THEN 0
                     ELSE f[Pick(s)] + value(s \ {Pick(s)})]
<1>2. ASSUME NEW s \in SUBSET T, s # T
      PROVE  IsFiniteSet(s) /\ IsPartialSum(PartialSum(f, s), f, s)
  <2>1. s \in SUBSET S /\ Has(s)
    BY <1>1, <1>2
  <2> QED
    BY <2>1, FS_Subset DEF PartialSum
<1>3. ASSUME NEW s \in SUBSET T, s # T
      PROVE  sum[s] = value(s)
  <2>1. CASE s = {}
    BY <1>2, <1>3, <2>1 DEF IsPartialSum
  <2>2. CASE s # {}
    <3> DEFINE r == s \ {Pick(s)}
    <3>1. Pick(s) \in s /\ r \in SUBSET s /\ r \in SUBSET T /\ r # T
      BY <1>3, <2>2, PickIn
    <3> HIDE DEF r
    <3>2. PartialSum(f, r)[r] = PartialSum(f, s)[r]
      BY <1>2, <1>3, <3>1, PartialSumUnique
    <3>3. PartialSum(f, s)[s] = f[Pick(s)] + PartialSum(f, s)[r]
      BY <1>2, <1>3, <2>2 DEF IsPartialSum, r
    <3> QED
      BY <2>2, <3>2, <3>3 DEF r
  <2> QED
    BY <2>1, <2>2
<1>4. ASSUME NEW s \in SUBSET T, s # {}
      PROVE  value(s \ {Pick(s)}) = sum[s \ {Pick(s)}]
  <2>1. Pick(s) \in s
    BY <1>4, PickIn
  <2>2. s \ {Pick(s)} \in SUBSET T /\ s \ {Pick(s)} # T
    BY <2>1
  <2> HIDE DEF sum, value
  <2> QED
    BY <1>3, <2>2
<1>5. IsPartialSum(sum, f, T)
  <2> HIDE DEF value
  <2>1. \A s \in SUBSET T : s # {} => f[Pick(s)] + value(s \ {Pick(s)})
                                       = f[Pick(s)] + sum[s \ {Pick(s)}]
    BY <1>4
  <2> QED
    BY <2>1 DEF IsPartialSum
<1> HIDE DEF sum
<1>6. Has(T)
  BY <1>5
<1> QED
  BY <1>1, <1>6

LEMMA PartialSumAgree ==
  ASSUME NEW f, NEW S, NEW T, T \in SUBSET S, IsFiniteSet(T),
         IsPartialSum(PartialSum(f, T), f, T), IsPartialSum(PartialSum(f, S), f, S)
  PROVE  PartialSum(f, T)[T] = PartialSum(f, S)[T]
BY PartialSumUnique

LEMMA SumEquation ==
  ASSUME NEW f, NEW S, IsFiniteSet(S)
  PROVE  SumFunctionOnSet(f, S)
           = IF S = {} THEN 0
             ELSE f[Pick(S)] + SumFunctionOnSet(f, S \ {Pick(S)})
<1>1. IsPartialSum(PartialSum(f, S), f, S) /\ SumFunctionOnSet(f, S) = PartialSum(f, S)[S]
  BY PartialSumExists, SumIsPartialSum
<1>2. CASE S = {}
  BY <1>1, <1>2 DEF IsPartialSum
<1>3. CASE S # {}
  <2> DEFINE R == S \ {Pick(S)}
  <2>1. R \in SUBSET S /\ IsFiniteSet(R)
    BY FS_Subset
  <2>2. SumFunctionOnSet(f, S) = f[Pick(S)] + PartialSum(f, S)[R]
    BY <1>1, <1>3 DEF IsPartialSum
  <2> HIDE DEF R
  <2>3. SumFunctionOnSet(f, R) = PartialSum(f, S)[R]
    <3>1. SumFunctionOnSet(f, R) = PartialSum(f, R)[R] /\ R \in SUBSET R
      BY SumIsPartialSum
    <3>2. IsPartialSum(PartialSum(f, R), f, R)
      BY <2>1, PartialSumExists
    <3>3. PartialSum(f, R)[R] = PartialSum(f, S)[R]
      BY <1>1, <2>1, <3>2, PartialSumAgree
    <3> QED
      BY <3>1, <3>3
  <2> QED
    BY <1>3, <2>2, <2>3 DEF R
<1> QED
  BY <1>2, <1>3

-----------------------------------------------------------------------------
(* Facts about sums.                                                       *)

LEMMA SumEmpty ==
  ASSUME NEW f
  PROVE  SumFunctionOnSet(f, {}) = 0
BY SumEquation, FS_EmptySet

LEMMA SumInt ==
  ASSUME NEW S, IsFiniteSet(S), NEW f, \A x \in S : f[x] \in Int
  PROVE  SumFunctionOnSet(f, S) \in Int
<1> DEFINE Bad == {s \in SUBSET S : SumFunctionOnSet(f, s) \notin Int}
<1> SUFFICES ASSUME Bad # {} PROVE FALSE
  OBVIOUS
<1>1. PICK T \in Bad : \A U \in SUBSET T : U # T => U \notin Bad
  <2>1. Bad \subseteq SUBSET S
    OBVIOUS
  <2> HIDE DEF Bad
  <2> QED
    BY <2>1, MinimalSubset
<1>2. T # {}
  <2>1. SumFunctionOnSet(f, {}) = 0 /\ SumFunctionOnSet(f, T) \notin Int
    BY <1>1, SumEmpty
  <2> QED
    BY <2>1
<1>3. Pick(T) \in T /\ T \ {Pick(T)} # T /\ T \ {Pick(T)} \in SUBSET T
  BY <1>2, PickIn
<1>4. SumFunctionOnSet(f, T \ {Pick(T)}) \in Int /\ f[Pick(T)] \in Int
  BY <1>1, <1>3
<1>5. SumFunctionOnSet(f, T) = f[Pick(T)] + SumFunctionOnSet(f, T \ {Pick(T)})
  BY <1>1, <1>2, SumEquation, FS_Subset
<1> QED
  BY <1>1, <1>4, <1>5

\* Any element may be taken out of a sum.
LEMMA SumRemove ==
  ASSUME NEW S, IsFiniteSet(S), NEW f, \A x \in S : f[x] \in Int, NEW y \in S
  PROVE  SumFunctionOnSet(f, S) = f[y] + SumFunctionOnSet(f, S \ {y})
<1> DEFINE Splits(s) == \A x \in s :
             SumFunctionOnSet(f, s) = f[x] + SumFunctionOnSet(f, s \ {x})
           Bad == {s \in SUBSET S : ~Splits(s)}
<1> SUFFICES ASSUME Bad # {} PROVE FALSE
  OBVIOUS
<1>1. PICK T \in Bad : \A U \in SUBSET T : U # T => U \notin Bad
  <2>1. Bad \subseteq SUBSET S
    OBVIOUS
  <2> HIDE DEF Bad
  <2> QED
    BY <2>1, MinimalSubset
<1>2. PICK x \in T : SumFunctionOnSet(f, T) # f[x] + SumFunctionOnSet(f, T \ {x})
  BY <1>1
<1> DEFINE p == Pick(T)
<1>3. T \in SUBSET S /\ p \in T /\ x \in T /\ IsFiniteSet(T)
  BY <1>1, <1>2, PickIn, FS_Subset
<1>4. SumFunctionOnSet(f, T) = f[p] + SumFunctionOnSet(f, T \ {p})
  BY <1>3, SumEquation
<1>5. x # p
  BY <1>2, <1>4
<1> HIDE DEF p
<1>6. Splits(T \ {p}) /\ Splits(T \ {x})
  <2>1. T \ {p} # T /\ T \ {x} # T /\ T \ {p} \in SUBSET T /\ T \ {x} \in SUBSET T
    BY <1>3
  <2> QED
    BY <1>1, <2>1
<1> DEFINE R == T \ {p, x}
<1>7. (T \ {p}) \ {x} = R /\ (T \ {x}) \ {p} = R /\ R \in SUBSET S
  BY <1>3
<1>8. SumFunctionOnSet(f, T \ {p}) = f[x] + SumFunctionOnSet(f, R)
  BY <1>3, <1>5, <1>6, <1>7
<1>9. SumFunctionOnSet(f, T \ {x}) = f[p] + SumFunctionOnSet(f, R)
  BY <1>3, <1>5, <1>6, <1>7
<1>10. f[x] \in Int /\ f[p] \in Int /\ SumFunctionOnSet(f, R) \in Int
  BY <1>3, <1>7, SumInt, FS_Subset
<1> QED
  BY <1>2, <1>4, <1>8, <1>9, <1>10

LEMMA SumAdd ==
  ASSUME NEW S, IsFiniteSet(S), NEW f, NEW y, y \notin S,
         \A x \in S \cup {y} : f[x] \in Int
  PROVE  SumFunctionOnSet(f, S \cup {y}) = f[y] + SumFunctionOnSet(f, S)
<1>1. IsFiniteSet(S \cup {y}) /\ (S \cup {y}) \ {y} = S
  BY FS_AddElement
<1> QED
  BY <1>1, SumRemove

LEMMA SumPlus ==
  ASSUME NEW S, IsFiniteSet(S), NEW f, NEW g, NEW h,
         \A x \in S : f[x] \in Int /\ g[x] \in Int /\ h[x] = f[x] + g[x]
  PROVE  SumFunctionOnSet(h, S) = SumFunctionOnSet(f, S) + SumFunctionOnSet(g, S)
<1> DEFINE G == {s \in SUBSET S :
                   SumFunctionOnSet(h, s) = SumFunctionOnSet(f, s) + SumFunctionOnSet(g, s)}
<1>1. {} \in G
  BY SumEmpty
<1>2. ASSUME NEW T \in SUBSET S, T \in G, NEW x \in S \ T
      PROVE  T \cup {x} \in G
  <2>1. IsFiniteSet(T) /\ T \cup {x} \in SUBSET S
    BY FS_Subset
  <2>2. \A y \in T \cup {x} : f[y] \in Int /\ g[y] \in Int /\ h[y] \in Int
    BY <2>1
  <2>3. /\ SumFunctionOnSet(f, T \cup {x}) = f[x] + SumFunctionOnSet(f, T)
        /\ SumFunctionOnSet(g, T \cup {x}) = g[x] + SumFunctionOnSet(g, T)
        /\ SumFunctionOnSet(h, T \cup {x}) = h[x] + SumFunctionOnSet(h, T)
    BY <2>1, <2>2, SumAdd
  <2>4. SumFunctionOnSet(f, T) \in Int /\ SumFunctionOnSet(g, T) \in Int
    BY <2>1, <2>2, SumInt
  <2> QED
    BY <1>2, <2>1, <2>2, <2>3, <2>4
<1> HIDE DEF G
<1>3. S \in G
  BY <1>1, <1>2, SetInduction
<1> QED
  BY <1>3 DEF G

LEMMA SumMonotone ==
  ASSUME NEW S, IsFiniteSet(S), NEW f, NEW g,
         \A x \in S : f[x] \in Int /\ g[x] \in Int /\ f[x] <= g[x]
  PROVE  SumFunctionOnSet(f, S) <= SumFunctionOnSet(g, S)
<1> DEFINE G == {s \in SUBSET S : SumFunctionOnSet(f, s) <= SumFunctionOnSet(g, s)}
<1>1. {} \in G
  BY SumEmpty
<1>2. ASSUME NEW T \in SUBSET S, T \in G, NEW x \in S \ T
      PROVE  T \cup {x} \in G
  <2>1. IsFiniteSet(T) /\ T \cup {x} \in SUBSET S
    BY FS_Subset
  <2>2. \A y \in T \cup {x} : f[y] \in Int /\ g[y] \in Int
    BY <2>1
  <2>3. /\ SumFunctionOnSet(f, T \cup {x}) = f[x] + SumFunctionOnSet(f, T)
        /\ SumFunctionOnSet(g, T \cup {x}) = g[x] + SumFunctionOnSet(g, T)
    BY <2>1, <2>2, SumAdd
  <2>4. SumFunctionOnSet(f, T) \in Int /\ SumFunctionOnSet(g, T) \in Int
    BY <2>1, <2>2, SumInt
  <2> QED
    BY <1>2, <2>1, <2>2, <2>3, <2>4
<1> HIDE DEF G
<1>3. S \in G
  BY <1>1, <1>2, SetInduction
<1> QED
  BY <1>3 DEF G

LEMMA SumConstant ==
  ASSUME NEW S, IsFiniteSet(S), NEW f, NEW c \in Int, \A x \in S : f[x] = c
  PROVE  SumFunctionOnSet(f, S) = c * Cardinality(S)
<1> DEFINE G == {s \in SUBSET S : SumFunctionOnSet(f, s) = c * Cardinality(s)}
<1>1. {} \in G
  BY SumEmpty, FS_EmptySet
<1>2. ASSUME NEW T \in SUBSET S, T \in G, NEW x \in S \ T
      PROVE  T \cup {x} \in G
  <2>1. IsFiniteSet(T) /\ T \cup {x} \in SUBSET S
    BY FS_Subset
  <2>2. SumFunctionOnSet(f, T \cup {x}) = c + SumFunctionOnSet(f, T)
    <3>1. \A y \in T \cup {x} : f[y] \in Int
      BY <2>1
    <3>2. SumFunctionOnSet(f, T \cup {x}) = f[x] + SumFunctionOnSet(f, T)
      BY <2>1, <3>1, SumAdd
    <3> QED
      BY <3>2
  <2>3. Cardinality(T) \in Nat /\ Cardinality(T \cup {x}) = Cardinality(T) + 1
    BY <2>1, FS_CardinalityType, FS_AddElement
  <2>4. c * (Cardinality(T) + 1) = c + c * Cardinality(T)
    BY <2>3
  <2> QED
    BY <1>2, <2>1, <2>2, <2>3, <2>4
<1> HIDE DEF G
<1>3. S \in G
  BY <1>1, <1>2, SetInduction
<1> QED
  BY <1>3 DEF G

LEMMA SumScale ==
  ASSUME NEW S, IsFiniteSet(S), NEW f, NEW g, NEW c \in Int,
         \A x \in S : f[x] \in Int /\ g[x] = c * f[x]
  PROVE  SumFunctionOnSet(g, S) = c * SumFunctionOnSet(f, S)
<1> DEFINE G == {s \in SUBSET S : SumFunctionOnSet(g, s) = c * SumFunctionOnSet(f, s)}
<1>1. {} \in G
  BY SumEmpty
<1>2. ASSUME NEW T \in SUBSET S, T \in G, NEW x \in S \ T
      PROVE  T \cup {x} \in G
  <2>1. IsFiniteSet(T) /\ T \cup {x} \in SUBSET S
    BY FS_Subset
  <2>2. \A y \in T \cup {x} : f[y] \in Int /\ g[y] \in Int
    BY <2>1
  <2>3. /\ SumFunctionOnSet(f, T \cup {x}) = f[x] + SumFunctionOnSet(f, T)
        /\ SumFunctionOnSet(g, T \cup {x}) = c * f[x] + SumFunctionOnSet(g, T)
    BY <2>1, <2>2, SumAdd
  <2>4. SumFunctionOnSet(f, T) \in Int /\ f[x] \in Int
    BY <2>1, <2>2, SumInt
  <2>5. c * (f[x] + SumFunctionOnSet(f, T)) = c * f[x] + c * SumFunctionOnSet(f, T)
    BY <2>4
  <2> QED
    BY <1>2, <2>1, <2>3, <2>5
<1> HIDE DEF G
<1>3. S \in G
  BY <1>1, <1>2, SetInduction
<1> QED
  BY <1>3 DEF G

-----------------------------------------------------------------------------
(* What follows from these facts without another induction.                *)

LEMMA SumSame ==
  ASSUME NEW S, IsFiniteSet(S), NEW f, NEW g,
         \A x \in S : f[x] \in Int /\ g[x] = f[x]
  PROVE  SumFunctionOnSet(g, S) = SumFunctionOnSet(f, S)
<1>1. /\ SumFunctionOnSet(g, S) <= SumFunctionOnSet(f, S)
      /\ SumFunctionOnSet(f, S) <= SumFunctionOnSet(g, S)
  BY SumMonotone
<1>2. SumFunctionOnSet(g, S) \in Int /\ SumFunctionOnSet(f, S) \in Int
  BY SumInt
<1> QED
  BY <1>1, <1>2

LEMMA SumZero ==
  ASSUME NEW S, IsFiniteSet(S), NEW f, \A x \in S : f[x] = 0
  PROVE  SumFunctionOnSet(f, S) = 0
<1>1. SumFunctionOnSet(f, S) = 0 * Cardinality(S)
  BY SumConstant
<1>2. Cardinality(S) \in Nat
  BY FS_CardinalityType
<1> QED
  BY <1>1, <1>2

LEMMA SumNat ==
  ASSUME NEW S, IsFiniteSet(S), NEW f, \A x \in S : f[x] \in Nat
  PROVE  SumFunctionOnSet(f, S) \in Nat
<1> DEFINE z == [x \in S |-> 0]
<1>1. SumFunctionOnSet(z, S) = 0 /\ SumFunctionOnSet(f, S) \in Int
  BY SumZero, SumInt
<1>2. \A x \in S : z[x] \in Int /\ f[x] \in Int /\ z[x] <= f[x]
  OBVIOUS
<1> HIDE DEF z
<1>3. SumFunctionOnSet(z, S) <= SumFunctionOnSet(f, S)
  BY <1>2, SumMonotone
<1> QED
  BY <1>1, <1>3

\* A term of a sum of naturals is at most the sum.
LEMMA SumTerm ==
  ASSUME NEW S, IsFiniteSet(S), NEW f, \A x \in S : f[x] \in Nat, NEW y \in S
  PROVE  f[y] <= SumFunctionOnSet(f, S)
<1>1. SumFunctionOnSet(f, S) = f[y] + SumFunctionOnSet(f, S \ {y})
  BY SumRemove
<1>2. SumFunctionOnSet(f, S \ {y}) \in Nat
  BY SumNat, FS_RemoveElement
<1> QED
  BY <1>1, <1>2

\* A sum over a set is the sum over a part of it and over the rest.
LEMMA SumSplit ==
  ASSUME NEW S, IsFiniteSet(S), NEW U \in SUBSET S, NEW f, \A x \in S : f[x] \in Int
  PROVE  SumFunctionOnSet(f, S) = SumFunctionOnSet(f, U) + SumFunctionOnSet(f, S \ U)
<1> DEFINE R == S \ U
           G == {t \in SUBSET R : SumFunctionOnSet(f, U \cup t)
                                    = SumFunctionOnSet(f, U) + SumFunctionOnSet(f, t)}
<1>1. IsFiniteSet(U) /\ IsFiniteSet(R) /\ SumFunctionOnSet(f, U) \in Int
  BY FS_Subset, SumInt
<1>2. {} \in G
  BY <1>1, SumEmpty
<1>3. ASSUME NEW T \in SUBSET R, T \in G, NEW x \in R \ T
      PROVE  T \cup {x} \in G
  <2>1. IsFiniteSet(T) /\ IsFiniteSet(U \cup T) /\ x \notin U \cup T
    BY <1>1, FS_Subset
  <2>2. SumFunctionOnSet(f, T \cup {x}) = f[x] + SumFunctionOnSet(f, T)
    BY <2>1, SumAdd
  <2>3. SumFunctionOnSet(f, (U \cup T) \cup {x}) = f[x] + SumFunctionOnSet(f, U \cup T)
    BY <2>1, SumAdd
  <2>4. SumFunctionOnSet(f, T) \in Int /\ f[x] \in Int
    BY <2>1, SumInt
  <2>5. U \cup (T \cup {x}) = (U \cup T) \cup {x}
    OBVIOUS
  <2>6. SumFunctionOnSet(f, U \cup T) = SumFunctionOnSet(f, U) + SumFunctionOnSet(f, T)
    BY <1>3
  <2>7. SumFunctionOnSet(f, U \cup (T \cup {x}))
          = SumFunctionOnSet(f, U) + SumFunctionOnSet(f, T \cup {x})
    <3>1. SumFunctionOnSet(f, U \cup (T \cup {x})) = f[x] + SumFunctionOnSet(f, U \cup T)
      BY <2>3, <2>5
    <3>2. ASSUME NEW a \in Int, NEW b \in Int, NEW c \in Int
          PROVE  a + (b + c) = b + (a + c)
      OBVIOUS
    <3> QED
      BY <1>1, <2>2, <2>4, <2>6, <3>1, <3>2
  <2> QED
    BY <1>3, <2>7
<1> HIDE DEF G
<1>4. R \in G
  BY <1>1, <1>2, <1>3, SetInduction
<1> QED
  BY <1>4 DEF G

\* A part of a sum of naturals is at most the sum.
LEMMA SumSubset ==
  ASSUME NEW S, IsFiniteSet(S), NEW U \in SUBSET S, NEW f, \A x \in S : f[x] \in Nat
  PROVE  SumFunctionOnSet(f, U) <= SumFunctionOnSet(f, S)
<1>1. SumFunctionOnSet(f, S) = SumFunctionOnSet(f, U) + SumFunctionOnSet(f, S \ U)
  BY SumSplit
<1>2. SumFunctionOnSet(f, U) \in Nat /\ SumFunctionOnSet(f, S \ U) \in Nat
  BY SumNat, FS_Subset
<1> QED
  BY <1>1, <1>2

\* One term changes.
LEMMA SumUpdate ==
  ASSUME NEW S, IsFiniteSet(S), NEW f, NEW g, NEW y \in S,
         \A x \in S : f[x] \in Int /\ g[x] \in Int,
         \A x \in S \ {y} : g[x] = f[x]
  PROVE  SumFunctionOnSet(g, S) = SumFunctionOnSet(f, S) - f[y] + g[y]
<1>1. /\ SumFunctionOnSet(f, S) = f[y] + SumFunctionOnSet(f, S \ {y})
      /\ SumFunctionOnSet(g, S) = g[y] + SumFunctionOnSet(g, S \ {y})
  BY SumRemove
<1>2. IsFiniteSet(S \ {y})
  BY FS_RemoveElement
<1>3. SumFunctionOnSet(g, S \ {y}) = SumFunctionOnSet(f, S \ {y})
  BY <1>2, SumSame
<1>4. SumFunctionOnSet(f, S \ {y}) \in Int
  BY <1>2, SumInt
<1> QED
  BY <1>1, <1>3, <1>4

\* One term is raised by d, the others stay.
LEMMA SumRaise ==
  ASSUME NEW S, IsFiniteSet(S), NEW f, NEW g, NEW y \in S, NEW d \in Int,
         \A x \in S : f[x] \in Int,
         \A x \in S \ {y} : g[x] = f[x], g[y] = f[y] + d
  PROVE  SumFunctionOnSet(g, S) = SumFunctionOnSet(f, S) + d
<1>1. \A x \in S : f[x] \in Int /\ g[x] \in Int
  OBVIOUS
<1>2. SumFunctionOnSet(g, S) = SumFunctionOnSet(f, S) - f[y] + g[y]
  BY <1>1, SumUpdate
<1>3. SumFunctionOnSet(f, S) \in Int
  BY SumInt
<1> QED
  BY <1>1, <1>2, <1>3

\* If the terms are at most c, the sum is at most c for each of them.
LEMMA SumBound ==
  ASSUME NEW S, IsFiniteSet(S), NEW f, NEW c \in Int,
         \A x \in S : f[x] \in Int /\ f[x] <= c
  PROVE  SumFunctionOnSet(f, S) <= c * Cardinality(S)
<1> DEFINE k == [x \in S |-> c]
<1>1. \A x \in S : k[x] = c
  OBVIOUS
<1> HIDE DEF k
<1>2. SumFunctionOnSet(k, S) = c * Cardinality(S)
  BY <1>1, SumConstant
<1>3. SumFunctionOnSet(f, S) <= SumFunctionOnSet(k, S)
  BY <1>1, SumMonotone
<1> QED
  BY <1>2, <1>3

-----------------------------------------------------------------------------
(* The sum of all values of a function.                                    *)

LEMMA SumFunctionType ==
  ASSUME NEW S, IsFiniteSet(S), NEW f \in [S -> Nat]
  PROVE  SumFunction(f) \in Nat
<1>1. SumFunction(f) = SumFunctionOnSet(f, S)
  BY DEF SumFunction
<1> QED
  BY <1>1, SumNat

\* One value of a function changes by d.
LEMMA SumFunctionChange ==
  ASSUME NEW f, NEW g, IsFiniteSet(DOMAIN f), \A x \in DOMAIN f : f[x] \in Int,
         NEW y \in DOMAIN f, NEW d \in Int,
         DOMAIN g = DOMAIN f, g[y] = f[y] + d, \A x \in DOMAIN f \ {y} : g[x] = f[x]
  PROVE  SumFunction(g) = SumFunction(f) + d
<1>1. \A x \in DOMAIN f : f[x] \in Int /\ g[x] \in Int
  OBVIOUS
<1>2. SumFunctionOnSet(g, DOMAIN f) = SumFunctionOnSet(f, DOMAIN f) - f[y] + g[y]
  BY <1>1, SumUpdate
<1>3. SumFunctionOnSet(f, DOMAIN f) \in Int /\ f[y] \in Int
  BY SumInt
<1>4. SumFunctionOnSet(g, DOMAIN f) = SumFunctionOnSet(f, DOMAIN f) + d
  BY <1>2, <1>3
<1> QED
  BY <1>4 DEF SumFunction

\* k[x] is the group of x, h[v] is f on the group v and 0 elsewhere, and g[v]
\* is the sum over the group v.
Groups(f, S, k, h, g, V) ==
  /\ \A x \in S : f[x] \in Int /\ k[x] \in V
  /\ \A x \in S : h[k[x]][x] = f[x]
  /\ \A v \in V : \A x \in S : k[x] # v => h[v][x] = 0
  /\ \A v \in V : g[v] = SumFunctionOnSet(h[v], S)

\* The members of S may be summed group by group.
LEMMA SumGroups ==
  ASSUME NEW S, IsFiniteSet(S), NEW V, IsFiniteSet(V), NEW f, NEW k, NEW h, NEW g,
         Groups(f, S, k, h, g, V)
  PROVE  SumFunctionOnSet(g, V) = SumFunctionOnSet(f, S)
<1>0. /\ \A x \in S : f[x] \in Int /\ k[x] \in V
      /\ \A x \in S : h[k[x]][x] = f[x]
      /\ \A v \in V : \A x \in S : k[x] # v => h[v][x] = 0
      /\ \A v \in V : g[v] = SumFunctionOnSet(h[v], S)
  BY DEF Groups
<1> DEFINE upTo(T) == [v \in V |-> SumFunctionOnSet(h[v], T)]
           G == {T \in SUBSET S : SumFunctionOnSet(upTo(T), V) = SumFunctionOnSet(f, T)}
<1>1. {} \in G
  <2>1. \A v \in V : upTo({})[v] = 0
    BY SumEmpty
  <2>2. SumFunctionOnSet(upTo({}), V) = 0
    <3> HIDE DEF upTo
    <3> QED
      BY <2>1, SumZero
  <2> QED
    BY <2>2, SumEmpty
<1>2. ASSUME NEW T \in SUBSET S, T \in G, NEW x \in S \ T
      PROVE  T \cup {x} \in G
  <2> DEFINE more == T \cup {x}
             old == upTo(T)
             new == upTo(more)
  <2>1. IsFiniteSet(T) /\ x \notin T /\ k[x] \in V /\ f[x] \in Int
    BY <1>0, <1>2, FS_Subset
  <2>2. \A v \in V : \A y \in more : h[v][y] \in Int
    BY <1>0, <1>2
  <2>3. \A v \in V : /\ new[v] = h[v][x] + old[v]
                     /\ old[v] \in Int
    <3> TAKE v \in V
    <3>1. SumFunctionOnSet(h[v], more) = h[v][x] + SumFunctionOnSet(h[v], T)
      BY <2>1, <2>2, SumAdd
    <3>2. SumFunctionOnSet(h[v], T) \in Int
      BY <2>1, <2>2, SumInt
    <3> QED
      BY <3>1, <3>2
  <2>4. SumFunctionOnSet(f, more) = f[x] + SumFunctionOnSet(f, T)
    <3>1. \A y \in T \cup {x} : f[y] \in Int
      BY <1>0, <1>2
    <3> QED
      BY <2>1, <3>1, SumAdd
  <2>5. SumFunctionOnSet(new, V) = SumFunctionOnSet(old, V) + f[x]
    <3>1. h[k[x]][x] = f[x] /\ \A v \in V : k[x] # v => h[v][x] = 0
      BY <1>0, <1>2
    <3> HIDE DEF new, old, more, upTo, G
    <3> PICK c \in V, d \in Int : c = k[x] /\ d = f[x]
      BY <2>1
    <3>2. /\ \A v \in V : old[v] \in Int
          /\ \A v \in V \ {c} : new[v] = old[v]
          /\ new[c] = old[c] + d
      BY <2>1, <2>3, <3>1
    <3>3. SumFunctionOnSet(new, V) = SumFunctionOnSet(old, V) + d
      BY <3>2, SumRaise
    <3> QED
      BY <3>3
  <2>6. SumFunctionOnSet(old, V) = SumFunctionOnSet(f, T)
    BY <1>2
  <2>7. SumFunctionOnSet(f, T) \in Int
    <3>1. \A y \in T : f[y] \in Int
      BY <1>0, <1>2
    <3> QED
      BY <2>1, <3>1, SumInt
  <2>8. SumFunctionOnSet(new, V) = SumFunctionOnSet(f, more)
    <3> HIDE DEF new, old, more
    <3> QED
      BY <2>1, <2>4, <2>5, <2>6, <2>7
  <2> QED
    BY <2>8
<1>3. S \in G
  <2> HIDE DEF G
  <2> QED
    BY <1>1, <1>2, SetInduction
<1>4. SumFunctionOnSet(upTo(S), V) = SumFunctionOnSet(f, S)
  BY <1>3
<1>5. \A v \in V : upTo(S)[v] \in Int /\ g[v] = upTo(S)[v]
  <2> TAKE v \in V
  <2>1. \A x \in S : h[v][x] \in Int
    BY <1>0
  <2> QED
    BY <1>0, <2>1, SumInt
<1>6. SumFunctionOnSet(g, V) = SumFunctionOnSet(upTo(S), V)
  <2> HIDE DEF upTo
  <2> QED
    BY <1>5, SumSame
<1> QED
  BY <1>4, <1>6

\* The image of a finite set is finite.
LEMMA ImageFinite ==
  ASSUME NEW S, IsFiniteSet(S), NEW k
  PROVE  IsFiniteSet({k[x] : x \in S})
<1> DEFINE T == {k[x] : x \in S}
           onto == [x \in S |-> k[x]]
<1>1. onto \in Surjection(S, T)
  BY DEF Surjection
<1> QED
  BY <1>1, FS_Surjection

\* A sum over the image of S by k, which tells the members of S apart, is a sum
\* over S.
LEMMA SumImage ==
  ASSUME NEW S, IsFiniteSet(S), NEW k, NEW f, NEW g,
         \A x, y \in S : k[x] = k[y] => x = y,
         \A x \in S : g[x] \in Int /\ g[x] = f[k[x]]
  PROVE  SumFunctionOnSet(f, {k[x] : x \in S}) = SumFunctionOnSet(g, S)
<1> DEFINE image(T) == {k[x] : x \in T}
           G == {T \in SUBSET S : SumFunctionOnSet(f, image(T)) = SumFunctionOnSet(g, T)}
<1>1. {} \in G
  <2>1. image({}) = {}
    OBVIOUS
  <2> QED
    BY <2>1, SumEmpty
<1>2. ASSUME NEW T \in SUBSET S, T \in G, NEW x \in S \ T
      PROVE  T \cup {x} \in G
  <2>1. IsFiniteSet(T) /\ x \notin T
    BY <1>2, FS_Subset
  <2>2. image(T \cup {x}) = image(T) \cup {k[x]} /\ k[x] \notin image(T)
    BY <1>2
  <2>3. IsFiniteSet(image(T))
    BY <2>1, ImageFinite
  <2>4. \A y \in image(T) \cup {k[x]} : f[y] \in Int
    BY <1>2
  <2>5. SumFunctionOnSet(f, image(T) \cup {k[x]}) = f[k[x]] + SumFunctionOnSet(f, image(T))
    <3> HIDE DEF image
    <3> QED
      BY <2>2, <2>3, <2>4, SumAdd
  <2>6. SumFunctionOnSet(g, T \cup {x}) = g[x] + SumFunctionOnSet(g, T)
    <3>1. \A y \in T \cup {x} : g[y] \in Int
      BY <1>2
    <3> QED
      BY <2>1, <3>1, SumAdd
  <2> QED
    BY <1>2, <2>2, <2>5, <2>6
<1>3. S \in G
  <2> HIDE DEF G
  <2> QED
    BY <1>1, <1>2, SetInduction
<1> QED
  BY <1>3

\* A sum over S of what is f on U and 0 elsewhere.
LEMMA SumPart ==
  ASSUME NEW S, IsFiniteSet(S), NEW U \in SUBSET S, NEW f, NEW g,
         \A x \in U : f[x] \in Int /\ g[x] = f[x],
         \A x \in S \ U : g[x] = 0
  PROVE  SumFunctionOnSet(g, S) = SumFunctionOnSet(f, U)
<1>1. \A x \in S : g[x] \in Int
  OBVIOUS
<1>2. SumFunctionOnSet(g, S) = SumFunctionOnSet(g, U) + SumFunctionOnSet(g, S \ U)
  BY <1>1, SumSplit
<1>3. IsFiniteSet(U) /\ IsFiniteSet(S \ U)
  BY FS_Subset
<1>4. SumFunctionOnSet(g, U) = SumFunctionOnSet(f, U)
  BY <1>3, SumSame
<1>5. SumFunctionOnSet(g, S \ U) = 0
  BY <1>3, SumZero
<1>6. SumFunctionOnSet(f, U) \in Int
  BY <1>3, SumInt
<1> QED
  BY <1>2, <1>4, <1>5, <1>6

\* The same, each group being given by its members.
Grouped(f, S, k, at, g, V) ==
  /\ \A x \in S : f[x] \in Int /\ k[x] \in V
  /\ \A v \in V : \A x : x \in at[v] <=> x \in S /\ k[x] = v
  /\ \A v \in V : g[v] = SumFunctionOnSet(f, at[v])

LEMMA SumByGroup ==
  ASSUME NEW S, IsFiniteSet(S), NEW V, IsFiniteSet(V), NEW f, NEW k, NEW g, NEW at,
         Grouped(f, S, k, at, g, V)
  PROVE  /\ \A v \in V : g[v] \in Int
         /\ SumFunctionOnSet(g, V) = SumFunctionOnSet(f, S)
<1> USE DEF Grouped
<1> DEFINE h == [v \in V |-> [x \in S |-> IF k[x] = v THEN f[x] ELSE 0]]
<1>1. \A x \in S : h[k[x]][x] = f[x]
  OBVIOUS
<1>2. \A v \in V : \A x \in S : k[x] # v => h[v][x] = 0
  OBVIOUS
<1>3. ASSUME NEW v \in V
      PROVE  g[v] \in Int /\ g[v] = SumFunctionOnSet(h[v], S)
  <2> DEFINE U == at[v]
             hv == h[v]
  <2>1. U \in SUBSET S /\ IsFiniteSet(U)
    BY FS_Subset
  <2>2. \A x \in U : f[x] \in Int /\ hv[x] = f[x]
    OBVIOUS
  <2>3. \A x \in S \ U : hv[x] = 0
    OBVIOUS
  <2>4. g[v] = SumFunctionOnSet(f, U)
    OBVIOUS
  <2> HIDE DEF U, hv
  <2>5. SumFunctionOnSet(hv, S) = SumFunctionOnSet(f, U)
    BY <2>1, <2>2, <2>3, SumPart
  <2>6. SumFunctionOnSet(f, U) \in Int
    BY <2>1, <2>2, SumInt
  <2> QED
    BY <2>4, <2>5, <2>6 DEF hv
<1> HIDE DEF h
<1>4. Groups(f, S, k, h, g, V)
  BY <1>1, <1>2, <1>3 DEF Groups
<1> QED
  BY <1>3, <1>4, SumGroups

\* A linear inequality between the terms holds of the sums.
LEMMA SumLinear ==
  ASSUME NEW S, IsFiniteSet(S), NEW f, NEW g, NEW h,
         NEW a \in Int, NEW b \in Int, NEW c \in Int,
         \A x \in S : f[x] \in Int /\ g[x] \in Int /\ h[x] \in Int,
         \A x \in S : a * f[x] <= b * g[x] + c * h[x]
  PROVE  a * SumFunctionOnSet(f, S)
           <= b * SumFunctionOnSet(g, S) + c * SumFunctionOnSet(h, S)
<1> DEFINE af == [x \in S |-> a * f[x]]
           bg == [x \in S |-> b * g[x]]
           ch == [x \in S |-> c * h[x]]
           both == [x \in S |-> bg[x] + ch[x]]
<1>1. \A x \in S : /\ f[x] \in Int /\ af[x] = a * f[x]
                   /\ g[x] \in Int /\ bg[x] = b * g[x]
                   /\ h[x] \in Int /\ ch[x] = c * h[x]
  OBVIOUS
<1>2. \A x \in S : af[x] \in Int /\ bg[x] \in Int /\ ch[x] \in Int
  BY <1>1
<1>3. \A x \in S : both[x] = bg[x] + ch[x]
  OBVIOUS
<1>4. \A x \in S : both[x] \in Int /\ af[x] <= both[x]
  BY <1>2
<1> HIDE DEF af, bg, ch, both
<1>5. /\ SumFunctionOnSet(af, S) = a * SumFunctionOnSet(f, S)
      /\ SumFunctionOnSet(bg, S) = b * SumFunctionOnSet(g, S)
      /\ SumFunctionOnSet(ch, S) = c * SumFunctionOnSet(h, S)
  <2>1. SumFunctionOnSet(af, S) = a * SumFunctionOnSet(f, S)
    BY <1>1, SumScale
  <2>2. SumFunctionOnSet(bg, S) = b * SumFunctionOnSet(g, S)
    BY <1>1, SumScale
  <2>3. SumFunctionOnSet(ch, S) = c * SumFunctionOnSet(h, S)
    BY <1>1, SumScale
  <2> QED
    BY <2>1, <2>2, <2>3
<1>6. SumFunctionOnSet(both, S) = SumFunctionOnSet(bg, S) + SumFunctionOnSet(ch, S)
  BY <1>2, <1>3, SumPlus
<1>7. SumFunctionOnSet(af, S) <= SumFunctionOnSet(both, S)
  BY <1>2, <1>4, SumMonotone
<1> QED
  BY <1>5, <1>6, <1>7

-----------------------------------------------------------------------------
(* What the decimal operations return, for every number of units in 1:     *)
(* they stay in the naturals, and they round by half a unit at most.       *)

LEMMA DivMod ==
  ASSUME NEW d \in Nat
  PROVE  /\ d \div One \in Nat
         /\ d % One \in 0..(One - 1)
         /\ d = One * (d \div One) + (d % One)
BY OneAssumption

\* Rounding half to even moves by half of One at most, up or down.
LEMMA RoundHalfEvenType ==
  ASSUME NEW quo \in Nat, NEW rem \in 0..(One - 1)
  PROVE  /\ RoundHalfEven(quo, rem) \in Nat
         /\ RoundHalfEven(quo, rem) \in {quo, quo + 1}
BY OneAssumption DEF RoundHalfEven

LEMMA RoundHalfEvenError ==
  ASSUME NEW quo \in Nat, NEW rem \in 0..(One - 1)
  PROVE  LET d == One * quo + rem
             e == 2 * (One * RoundHalfEven(quo, rem) - d)
         IN  -One <= e /\ e <= One
<1>1. CASE 2 * rem > One \/ (2 * rem = One /\ quo % 2 = 1)
  <2>1. RoundHalfEven(quo, rem) = quo + 1
    BY <1>1 DEF RoundHalfEven
  <2>2. One * (quo + 1) = One * quo + One
    BY OneAssumption
  <2>3. 2 * rem >= One
    BY <1>1, OneAssumption
  <2> QED
    BY <2>1, <2>2, <2>3, OneAssumption
<1>2. CASE ~(2 * rem > One \/ (2 * rem = One /\ quo % 2 = 1))
  <2>1. RoundHalfEven(quo, rem) = quo
    BY <1>2 DEF RoundHalfEven
  <2>2. 2 * rem <= One
    BY <1>2, OneAssumption
  <2> QED
    BY <2>1, <2>2, OneAssumption
<1> QED
  BY <1>1, <1>2

\* Dropping the digits of d returns d / One to half a unit.
LEMMA ChopRoundNat ==
  ASSUME NEW d \in Nat
  PROVE  /\ ChopRound(d) \in Nat
         /\ -One <= 2 * (One * ChopRound(d) - d)
         /\ 2 * (One * ChopRound(d) - d) <= One
<1> DEFINE q == d \div One
           r == d % One
<1>1. q \in Nat /\ r \in 0..(One - 1) /\ d = One * q + r
  BY DivMod
<1>2. ChopRound(d) = RoundHalfEven(q, r)
  BY DEF ChopRound
<1> HIDE DEF q, r
<1>3. RoundHalfEven(q, r) \in Nat
  BY <1>1, RoundHalfEvenType
<1>4. -One <= 2 * (One * RoundHalfEven(q, r) - d)
      /\ 2 * (One * RoundHalfEven(q, r) - d) <= One
  BY <1>1, RoundHalfEvenError
<1> QED
  BY <1>2, <1>3, <1>4

LEMMA MulNat ==
  ASSUME NEW a \in Nat, NEW b \in Nat
  PROVE  Mul(a, b) \in Nat
<1>1. a * b \in Nat
  OBVIOUS
<1> QED
  BY <1>1, ChopRoundNat DEF Mul

LEMMA QuoNat ==
  ASSUME NEW a \in Nat, NEW b \in Nat \ {0}
  PROVE  Quo(a, b) \in Nat
<1> DEFINE rest == (a % b) * One
           quo == (a \div b) * One + (rest \div b)
           rem == ((rest % b) * One) \div b
<1>1. a % b \in 0..(b - 1) /\ a \div b \in Nat
  OBVIOUS
<1>2. rest \in Nat
  BY <1>1, OneAssumption
<1> HIDE DEF rest
<1>3. rest \div b \in Nat /\ rest % b \in 0..(b - 1)
  BY <1>2
<1>4. quo \in Nat
  BY <1>1, <1>3, OneAssumption
<1>5. rem \in Int
  <2>1. (rest % b) * One \in Nat
    BY <1>3, OneAssumption
  <2> QED
    BY <2>1
<1>6. Quo(a, b) = RoundHalfEven(quo, rem)
  BY DEF Quo, rest
<1> HIDE DEF quo, rem
<1> QED
  BY <1>4, <1>5, <1>6 DEF RoundHalfEven

\* A quotient is the exact one to a unit.
LEMMA QuoError ==
  ASSUME NEW a \in Nat, NEW b \in Nat \ {0}
  PROVE  /\ Quo(a, b) \in Nat
         /\ -b <= b * Quo(a, b) - a * One
         /\ b * Quo(a, b) - a * One <= b
<1> DEFINE rest == (a % b) * One
           whole == (a \div b) * One
           quo == whole + (rest \div b)
           rem == ((rest % b) * One) \div b
<1> PICK one \in Nat : one = One
  BY OneAssumption
<1>1. a % b \in 0..(b - 1) /\ a \div b \in Nat /\ a = b * (a \div b) + (a % b)
  OBVIOUS
<1>2. rest \in Nat /\ whole \in Nat
  BY <1>1
<1>3. a * One = b * whole + rest
  <2> PICK d \in Nat, m \in Nat : d = a \div b /\ m = a % b
    BY <1>1
  <2>1. (b * d + m) * one = b * (d * one) + m * one
    OBVIOUS
  <2> QED
    BY <1>1, <2>1
<1> HIDE DEF rest, whole
<1>4. rest \div b \in Nat /\ rest % b \in 0..(b - 1) /\ rest = b * (rest \div b) + (rest % b)
  BY <1>2
<1>5. Quo(a, b) = RoundHalfEven(quo, rem)
  BY DEF Quo, rest, whole
<1>6. b * quo = b * whole + b * (rest \div b) /\ quo \in Nat
  BY <1>2, <1>4
<1> HIDE DEF quo, rem
<1>7. Quo(a, b) \in {quo, quo + 1}
  BY <1>5 DEF RoundHalfEven
<1>8. b * (quo + 1) = b * quo + b /\ b * quo \in Int
  BY <1>6
<1>9. a * One = b * quo + (rest % b)
  <2> PICK bw \in Int, br \in Int : bw = b * whole /\ br = b * (rest \div b)
    BY <1>2, <1>4
  <2>1. rest % b \in Int
    BY <1>4
  <2> QED
    BY <1>2, <1>3, <1>4, <1>6, <2>1
<1> QED
  <2> PICK bq \in Int, m \in 0..(b - 1) : bq = b * quo /\ m = rest % b
    BY <1>4, <1>8
  <2>1. b * Quo(a, b) - a * One \in {bq - (bq + m), (bq + b) - (bq + m)}
    BY <1>7, <1>8, <1>9
  <2>2. b * Quo(a, b) - a * One \in {-m, b - m}
    BY <2>1
  <2>3. Quo(a, b) \in Nat
    BY <1>6, <1>7
  <2> QED
    BY <2>2, <2>3

\* A product is the exact one to half a unit, and at most its first factor if
\* the second is a weight.
LEMMA MulError ==
  ASSUME NEW p \in Nat, NEW w \in Nat
  PROVE  /\ Mul(p, w) \in Nat
         /\ -One <= 2 * (One * Mul(p, w) - p * w)
         /\ 2 * (One * Mul(p, w) - p * w) <= One
<1>1. p * w \in Nat
  OBVIOUS
<1> QED
  BY <1>1, ChopRoundNat DEF Mul

LEMMA MulBelow ==
  ASSUME NEW p \in Nat, NEW w \in 0..One
  PROVE  Mul(p, w) <= p
<1> DEFINE m == Mul(p, w)
           pw == p * w
           rest == One * (m - p - 1)
<1>1. m \in Nat /\ 2 * (One * m - pw) <= One
  <2>1. w \in Nat
    BY OneAssumption
  <2> QED
    BY <2>1, MulError
<1>2. pw <= One * p /\ pw \in Nat
  BY OneAssumption
<1> SUFFICES ASSUME m >= p + 1 PROVE FALSE
  BY <1>1
<1>3. rest >= 0 /\ rest = One * m - One * p - One
  BY <1>1, OneAssumption
<1> HIDE DEF m, pw, rest
<1> DEFINE om == One * m
           op == One * p
<1>4. om \in Int /\ op \in Int
  BY <1>1, OneAssumption
<1>5. 2 * (om - pw) <= One /\ pw <= op /\ 0 <= om - op - One
  BY <1>1, <1>2, <1>3
<1> HIDE DEF om, op
<1> QED
  BY <1>2, <1>4, <1>5, OneAssumption

LEMMA MulZero ==
  ASSUME NEW p \in Nat
  PROVE  Mul(p, 0) = 0
<1>1. p * 0 = 0
  OBVIOUS
<1>2. 0 \div One = 0 /\ 0 % One = 0
  BY OneAssumption
<1>3. Mul(p, 0) = RoundHalfEven(0, 0)
  BY <1>1, <1>2 DEF Mul, ChopRound
<1> QED
  BY <1>3, OneAssumption DEF RoundHalfEven

\* If four weights add up to 1, the products by them add up to the whole to two
\* units.
LEMMA FourParts ==
  ASSUME NEW p \in Nat, NEW wy \in Nat, NEW wa \in Nat, NEW wn \in Nat, NEW wv \in Nat,
         wy + wa + wn + wv = One,
         NEW y, NEW a, NEW n, NEW v,
         y = Mul(p, wy), a = Mul(p, wa), n = Mul(p, wn), v = Mul(p, wv)
  PROVE  -2 <= y + a + n + v - p /\ y + a + n + v - p <= 2
<1>1. p * wy + p * wa + p * wn + p * wv = p * One
  <2>1. p * (wy + wa + wn + wv) = p * wy + p * wa + p * wn + p * wv
    OBVIOUS
  <2> QED
    BY <2>1
<1>2. y \in Nat /\ a \in Nat /\ n \in Nat /\ v \in Nat
  BY MulError
<1> DEFINE s == y + a + n + v - p
           oy == One * y  oa == One * a  on == One * n  ov == One * v
           py == p * wy   pa == p * wa   pn == p * wn   pv == p * wv
           os == One * s  op == p * One
<1>3. /\ -One <= 2 * (oy - py) /\ 2 * (oy - py) <= One
      /\ -One <= 2 * (oa - pa) /\ 2 * (oa - pa) <= One
      /\ -One <= 2 * (on - pn) /\ 2 * (on - pn) <= One
      /\ -One <= 2 * (ov - pv) /\ 2 * (ov - pv) <= One
  BY MulError
<1>4. /\ oy \in Int /\ oa \in Int /\ on \in Int /\ ov \in Int
      /\ py \in Int /\ pa \in Int /\ pn \in Int /\ pv \in Int /\ op \in Int
  BY <1>2, OneAssumption
<1>5. os = oy + oa + on + ov - op /\ s \in Int
  <2> PICK one \in Int : one = One
    BY OneAssumption
  <2>1. y \in Int /\ a \in Int /\ n \in Int /\ v \in Int
    BY <1>2
  <2>2. one * (y + a + n + v - p) = one * y + one * a + one * n + one * v - one * p
    BY <2>1
  <2>3. one * p = p * one
    OBVIOUS
  <2> QED
    BY <2>1, <2>2, <2>3
<1>6. py + pa + pn + pv = op
  BY <1>1
<1>7. -2 * One <= os /\ os <= 2 * One
  <2> HIDE DEF oy, oa, on, ov, py, pa, pn, pv, op, os
  <2> QED
    BY <1>3, <1>4, <1>5, <1>6, OneAssumption
<1>8. -2 <= s /\ s <= 2
  <2> HIDE DEF s
  <2>1. ASSUME s <= -3 PROVE FALSE
    <3>1. One * s <= One * (-3)
      BY <1>5, <2>1, OneAssumption
    <3> QED
      BY <1>5, <1>7, <3>1, OneAssumption
  <2>2. ASSUME s >= 3 PROVE FALSE
    <3>1. One * s >= One * 3
      BY <1>5, <2>2, OneAssumption
    <3> QED
      BY <1>5, <1>7, <3>1, OneAssumption
  <2> QED
    BY <1>5, <2>1, <2>2
<1> QED
  BY <1>8

\* The part of a power is the exact one to two units: times the shares of the
\* validator, it is sh * B * w to two times the shares.
LEMMA PartError ==
  ASSUME NEW sh \in Nat, NEW S \in Nat \ {0}, NEW B \in Nat, NEW w \in 0..One
  PROVE  /\ S * Mul(Quo(sh * B, S), w) <= B * (sh * w) + 2 * S
         /\ B * (sh * w) <= S * Mul(Quo(sh * B, S), w) + 2 * S
<1> PICK one \in Nat \ {0} : one = One
  BY OneAssumption
<1>1. w \in Nat /\ sh * B \in Nat
  OBVIOUS
<1> PICK a \in Nat : a = sh * B
  BY <1>1
<1> PICK q \in Nat : /\ q = Quo(sh * B, S)
                     /\ -S <= S * q - a * one /\ S * q - a * one <= S
  BY QuoError
<1> PICK m \in Nat : /\ m = Mul(q, w)
                     /\ -one <= 2 * (one * m - q * w) /\ 2 * (one * m - q * w) <= one
  BY <1>1, MulError
<1> PICK d \in Int, e \in Int : d = S * q - a * one /\ e = one * m - q * w
  OBVIOUS
<1> DEFINE x == S * m - a * w
           se == S * e
           wd == w * d
           os == one * S
<1>2. one * x = se + wd
  <2>1. one * (S * m - a * w) = S * (one * m - q * w) + w * (S * q - a * one)
    BY <1>1
  <2> QED
    BY <2>1
<1>3. se \in Int /\ -os <= 2 * se /\ 2 * se <= os
  <2>1. 2 * e <= one /\ -one <= 2 * e
    OBVIOUS
  <2>2. S * (2 * e) <= S * one /\ S * (-one) <= S * (2 * e)
    BY <2>1
  <2> QED
    BY <2>2
<1>4. wd \in Int /\ -os <= wd /\ wd <= os
  <2>1. w * d <= w * S /\ w * (-S) <= w * d
    BY <1>1
  <2>2. w * S <= one * S
    BY <1>1
  <2>3. w * (-S) = -(w * S) /\ w * S \in Int /\ wd \in Int /\ os \in Int
    BY <1>1
  <2> HIDE DEF os
  <2>4. w * S <= os
    BY <2>2 DEF os
  <2> PICK ws \in Int : ws = w * S
    BY <2>3
  <2>5. wd <= ws /\ -ws <= wd
    BY <2>1, <2>3
  <2> HIDE DEF wd
  <2> QED
    BY <2>3, <2>4, <2>5
<1>5. x \in Int /\ os \in Int
  BY <1>1
<1>6. -2 * os <= one * x /\ one * x <= 2 * os
  <2> HIDE DEF x, se, wd, os
  <2> QED
    BY <1>2, <1>3, <1>4, <1>5
<1>7. one * x <= one * (2 * S) /\ one * (-2 * S) <= one * x
  BY <1>6
<1>8. x <= 2 * S /\ -2 * S <= x
  <2> HIDE DEF x
  <2>1. ASSUME x > 2 * S PROVE FALSE
    <3>1. one * x > one * (2 * S)
      BY <1>5, <2>1
    <3> QED
      BY <1>5, <1>7, <3>1
  <2>2. ASSUME x < -2 * S PROVE FALSE
    <3>1. one * x < one * (-2 * S)
      BY <1>5, <2>2
    <3> QED
      BY <1>5, <1>7, <3>1
  <2> QED
    BY <1>5, <2>1, <2>2
<1>9. B * (sh * w) = a * w
  BY <1>1
<1> QED
  BY <1>1, <1>5, <1>8, <1>9

LEMMA ZeroPower ==
  ASSUME NEW S \in Nat \ {0}, NEW w \in Nat
  PROVE  Quo(0, S) = 0 /\ Mul(0, w) = 0
<1>1. 0 \div S = 0 /\ 0 % S = 0
  OBVIOUS
<1>2. Quo(0, S) = RoundHalfEven(0, 0)
  <2>1. (0 % S) * One = 0 /\ (0 \div S) * One = 0
    BY <1>1, OneAssumption
  <2>2. (0 * One) \div S = 0
    BY <1>1, OneAssumption
  <2> QED
    BY <1>1, <2>1, <2>2 DEF Quo
<1>3. RoundHalfEven(0, 0) = 0
  BY OneAssumption DEF RoundHalfEven
<1>4. Mul(0, w) = Mul(w, 0)
  <2>1. 0 * w = w * 0
    OBVIOUS
  <2> QED
    BY <2>1 DEF Mul
<1> QED
  BY <1>2, <1>3, <1>4, MulZero

\* The power of all the shares of a set at one validator, times a weight, is the
\* sum of the powers of each, to four units for each.
LEMMA SumOfPowers ==
  ASSUME NEW Q, IsFiniteSet(Q), NEW S \in Nat \ {0}, NEW B \in Nat, NEW w \in 0..One,
         NEW f, NEW g, NEW own, own = SumFunctionOnSet(f, Q),
         \A x \in Q : f[x] \in Nat /\ g[x] = Mul(Quo(f[x] * B, S), w),
         NEW all, all = Mul(Quo(own * B, S), w),
         NEW s, s = SumFunctionOnSet(g, Q)
  PROVE  /\ all \in Nat /\ s \in Nat
         /\ all - s <= 4 * Cardinality(Q) /\ s - all <= 4 * Cardinality(Q)
<1> PICK n \in Nat : n = Cardinality(Q)
  BY FS_CardinalityType
<1>1. w \in Nat
  BY OneAssumption
<1>2. \A p \in Nat : Mul(Quo(p * B, S), w) \in Nat
  <2> TAKE p \in Nat
  <2>1. p * B \in Nat
    OBVIOUS
  <2>2. Quo(p * B, S) \in Nat
    BY <2>1, QuoNat
  <2> QED
    BY <1>1, <2>2, MulNat
<1>3. \A x \in Q : g[x] \in Nat
  BY <1>2
<1>4. own \in Nat /\ s \in Nat
  BY <1>3, SumNat
<1>5. all \in Nat
  BY <1>2, <1>4
<1>6. CASE Q = {}
  <2>1. own = 0 /\ s = 0
    BY <1>6, SumEmpty
  <2>2. 0 * B = 0
    OBVIOUS
  <2>3. all = 0
    BY <1>1, <2>1, <2>2, ZeroPower
  <2> QED
    BY <2>1, <2>3
<1>7. CASE Q # {}
  <2>1. n >= 1
    BY <1>7, FS_EmptySet
  <2> DEFINE h == [x \in Q |-> f[x] * w]
             one == [x \in Q |-> 1]
  <2>2. \A x \in Q : /\ f[x] \in Int /\ h[x] = w * f[x] /\ one[x] = 1
                     /\ h[x] \in Int /\ g[x] \in Int /\ one[x] \in Int
    BY <1>1, <1>3
  <2> PICK d \in Int : d = 2 * S
    OBVIOUS
  <2>3. \A x \in Q : /\ S * g[x] <= B * h[x] + d * one[x]
                     /\ B * h[x] <= S * g[x] + d * one[x]
    <3> TAKE x \in Q
    <3> PICK sh \in Nat : sh = f[x]
      OBVIOUS
    <3> PICK m : m = Mul(Quo(sh * B, S), w)
      OBVIOUS
    <3>1. S * m <= B * (sh * w) + 2 * S /\ B * (sh * w) <= S * m + 2 * S
      BY PartError
    <3>2. g[x] = m /\ h[x] = sh * w /\ d * one[x] = 2 * S
      OBVIOUS
    <3> HIDE DEF h, one
    <3> QED
      BY <3>1, <3>2
  <2> HIDE DEF h, one
  <2>4. SumFunctionOnSet(h, Q) = w * own
    BY <1>1, <2>2, SumScale
  <2>5. SumFunctionOnSet(one, Q) = n
    <3> PICK c \in Int : c = 1
      OBVIOUS
    <3>1. \A x \in Q : one[x] = c
      BY <2>2
    <3>2. SumFunctionOnSet(one, Q) = c * Cardinality(Q)
      BY <3>1, SumConstant
    <3> QED
      BY <3>2
  <2>6. S * s <= B * (w * own) + d * n
    <3>1. \A x \in Q : g[x] \in Int /\ h[x] \in Int /\ one[x] \in Int
      BY <2>2
    <3>2. \A x \in Q : S * g[x] <= B * h[x] + d * one[x]
      BY <2>3
    <3>3. S \in Int /\ B \in Int
      OBVIOUS
    <3>4. S * SumFunctionOnSet(g, Q)
            <= B * SumFunctionOnSet(h, Q) + d * SumFunctionOnSet(one, Q)
      BY <3>1, <3>2, <3>3, SumLinear
    <3> QED
      BY <2>4, <2>5, <3>4
  <2>7. B * (w * own) <= S * s + d * n
    <3>1. \A x \in Q : h[x] \in Int /\ g[x] \in Int /\ one[x] \in Int
      BY <2>2
    <3>2. \A x \in Q : B * h[x] <= S * g[x] + d * one[x]
      BY <2>3
    <3>3. S \in Int /\ B \in Int
      OBVIOUS
    <3>4. B * SumFunctionOnSet(h, Q)
            <= S * SumFunctionOnSet(g, Q) + d * SumFunctionOnSet(one, Q)
      BY <3>1, <3>2, <3>3, SumLinear
    <3> QED
      BY <2>4, <2>5, <3>4
  <2>8. S * all <= B * (own * w) + 2 * S /\ B * (own * w) <= S * all + 2 * S
    BY <1>4, PartError
  <2> DEFINE x == all - s
             y == 2 * n + 2
             e == B * (w * own)
             ss == S * s
             sa == S * all
             dn == d * n
             sx == S * x
             sy == S * y
  <2>9. x \in Int /\ y \in Int /\ ss \in Int /\ sa \in Int /\ dn \in Int /\ e \in Int
        /\ sx \in Int /\ sy \in Int
    BY <1>1, <1>4, <1>5
  <2>10. sx = sa - ss /\ sy = dn + 2 * S /\ e = B * (own * w)
    BY <1>1, <1>4, <1>5
  <2>11. sx <= sy /\ -sy <= sx
    <3>1. ss <= e + dn /\ e <= ss + dn /\ sa <= e + 2 * S /\ e <= sa + 2 * S
      BY <2>6, <2>7, <2>8, <2>10
    <3> HIDE DEF x, y, e, ss, sa, dn, sx, sy
    <3> QED
      BY <2>9, <2>10, <3>1
  <2>12. x <= y /\ -y <= x
    <3> HIDE DEF x, y
    <3>1. ASSUME x > y PROVE FALSE
      <4>1. S * x > S * y
        BY <2>9, <3>1
      <4> QED
        BY <2>9, <2>11, <4>1
    <3>2. ASSUME x < -y PROVE FALSE
      <4>1. S * x < S * (-y) /\ S * (-y) = -(S * y)
        BY <2>9, <3>2
      <4> QED
        BY <2>9, <2>11, <4>1
    <3> QED
      BY <2>9, <3>1, <3>2
  <2> QED
    BY <1>4, <1>5, <2>1, <2>12
<1> QED
  BY <1>6, <1>7

\* A part of a staked amount, by its rounded share of the amount and by itself.
LEMMA InheritedPart ==
  ASSUME NEW p \in Nat, NEW t \in Nat \ {0}, NEW w \in 0..One,
         NEW m, m = Mul(w, Quo(p, t)), NEW x, x = Mul(p, w)
  PROVE  /\ m \in Nat /\ x \in Nat
         /\ 2 * (t * m) <= 2 * (One * x) + (3 * t + One)
         /\ 2 * (One * x) <= 2 * (t * m) + (3 * t + One)
<1> PICK one \in Nat \ {0} : one = One
  BY OneAssumption
<1>1. w \in Nat
  OBVIOUS
<1> PICK q \in Nat : /\ q = Quo(p, t)
                     /\ -t <= t * q - p * one /\ t * q - p * one <= t
  BY QuoError
<1>2. /\ m \in Nat /\ -one <= 2 * (one * m - w * q) /\ 2 * (one * m - w * q) <= one
  BY <1>1, MulError
<1>3. /\ x \in Nat /\ -one <= 2 * (one * x - p * w) /\ 2 * (one * x - p * w) <= one
  BY <1>1, MulError
<1> PICK a \in Int, b \in Int, c \in Int :
       a = t * q - p * one /\ b = one * m - w * q /\ c = one * x - p * w
  BY <1>1, <1>2, <1>3
<1> DEFINE e == t * m - one * x
           oe == one * e
           tb == t * b
           wa == w * a
           oc == one * c
           ot == one * t
           oo == one * one
<1>4. oe = tb + wa - oc
  <2>1. tb = one * (t * m) - t * (w * q)
    BY <1>1, <1>2
  <2>2. wa = t * (w * q) - one * (p * w)
    BY <1>1
  <2>3. oc = one * (one * x) - one * (p * w)
    BY <1>1, <1>3
  <2>4. oe = one * (t * m) - one * (one * x)
    BY <1>1, <1>2, <1>3
  <2> PICK u1 \in Int, u2 \in Int, u3 \in Int, u4 \in Int :
         /\ u1 = one * (t * m) /\ u2 = t * (w * q) /\ u3 = one * (p * w)
         /\ u4 = one * (one * x)
    BY <1>1, <1>2, <1>3
  <2> HIDE DEF oe, tb, wa, oc
  <2> QED
    BY <2>1, <2>2, <2>3, <2>4
<1>5. tb \in Int /\ -ot <= 2 * tb /\ 2 * tb <= ot
  <2>1. t * (2 * b) <= t * one /\ t * (-one) <= t * (2 * b)
    BY <1>2
  <2>2. t * (2 * b) = 2 * (t * b) /\ t * (-one) = -(one * t) /\ t * one = one * t
    OBVIOUS
  <2> QED
    BY <2>1, <2>2
<1>6. wa \in Int /\ -ot <= wa /\ wa <= ot
  <2>1. w * a <= w * t /\ w * (-t) <= w * a
    BY <1>1
  <2>2. w * t <= one * t
    BY <1>1
  <2>3. w * (-t) = -(w * t) /\ w * t \in Int /\ wa \in Int /\ ot \in Int
    BY <1>1
  <2> PICK wt \in Int : wt = w * t
    BY <2>3
  <2>4. wt <= ot /\ wa <= wt /\ -wt <= wa
    BY <2>1, <2>2, <2>3
  <2> HIDE DEF wa, ot
  <2> QED
    BY <2>3, <2>4
<1>7. oc \in Int /\ -oo <= 2 * oc /\ 2 * oc <= oo
  <2>1. one * (2 * c) <= one * one /\ one * (-one) <= one * (2 * c)
    BY <1>3
  <2>2. one * (2 * c) = 2 * (one * c) /\ one * (-one) = -(one * one)
    OBVIOUS
  <2> QED
    BY <2>1, <2>2
<1>8. ot \in Int /\ oo \in Int /\ e \in Int /\ oe \in Int
  BY <1>2, <1>3
<1>9. 2 * oe <= 3 * ot + oo /\ -(3 * ot + oo) <= 2 * oe
  <2> HIDE DEF oe, tb, wa, oc, ot, oo
  <2> QED
    BY <1>4, <1>5, <1>6, <1>7, <1>8
<1> DEFINE y == 3 * t + one
<1>10. y \in Int /\ one * y = 3 * ot + oo /\ one * (2 * e) = 2 * oe
  BY <1>8
<1>11. 2 * e <= y /\ -y <= 2 * e
  <2> HIDE DEF e, oe, ot, oo, y
  <2> PICK z \in Int : z = 2 * e
    BY <1>8
  <2>1. one * z <= one * y /\ -(one * y) <= one * z
    BY <1>9, <1>10
  <2>2. ASSUME z > y PROVE FALSE
    <3>1. one * z > one * y
      BY <1>10, <2>2
    <3> QED
      BY <1>10, <2>1, <3>1
  <2>3. ASSUME z < -y PROVE FALSE
    <3>1. one * z < one * (-y) /\ one * (-y) = -(one * y)
      BY <1>10, <2>3
    <3> QED
      BY <1>10, <2>1, <3>1
  <2> QED
    BY <1>10, <2>2, <2>3
<1>12. t * m \in Int /\ one * x \in Int
  BY <1>2, <1>3
<1> PICK tm \in Int, ox \in Int : tm = t * m /\ ox = one * x
  BY <1>12
<1>13. 2 * tm <= 2 * ox + y /\ 2 * ox <= 2 * tm + y
  BY <1>10, <1>11
<1> QED
  BY <1>2, <1>3, <1>13

\* The parts of a staked amount, added as rounded shares of the amount or one by
\* one: they differ by three units for each, and two for each whole coin.
SharedOut(Q, t, p, w, m, x) ==
  /\ \A i \in Q : p[i] \in Nat /\ w[i] \in 0..One
  /\ \A i \in Q : m[i] = Mul(w[i], Quo(p[i], t)) /\ x[i] = Mul(p[i], w[i])

LEMMA SumOfShares ==
  ASSUME NEW Q, IsFiniteSet(Q), NEW t \in Nat \ {0}, NEW p, NEW w, NEW m, NEW x,
         SharedOut(Q, t, p, w, m, x),
         NEW a, a = Mul(SumFunctionOnSet(m, Q), t),
         NEW s, s = SumFunctionOnSet(x, Q)
  PROVE  /\ a \in Nat /\ s \in Nat
         /\ a - s <= Cardinality(Q) * (3 + 2 * (t \div One))
         /\ s - a <= Cardinality(Q) * (3 + 2 * (t \div One))
<1> USE DEF SharedOut
<1> PICK one \in Nat \ {0} : one = One
  BY OneAssumption
<1> PICK n \in Nat : n = Cardinality(Q)
  BY FS_CardinalityType
<1>1. \A i \in Q : /\ m[i] \in Nat /\ x[i] \in Nat
                   /\ 2 * (t * m[i]) <= 2 * (One * x[i]) + (3 * t + One)
                   /\ 2 * (One * x[i]) <= 2 * (t * m[i]) + (3 * t + One)
  <2> TAKE i \in Q
  <2> PICK pi \in Nat : pi = p[i]
    OBVIOUS
  <2> PICK wi \in 0..One : wi = w[i]
    OBVIOUS
  <2> PICK mi, xi : mi = Mul(wi, Quo(pi, t)) /\ xi = Mul(pi, wi)
    OBVIOUS
  <2>1. /\ mi \in Nat /\ xi \in Nat
        /\ 2 * (t * mi) <= 2 * (One * xi) + (3 * t + One)
        /\ 2 * (One * xi) <= 2 * (t * mi) + (3 * t + One)
    BY InheritedPart
  <2>2. m[i] = mi /\ x[i] = xi
    OBVIOUS
  <2> QED
    BY <2>1, <2>2
<1> PICK wt : wt = SumFunctionOnSet(m, Q)
  OBVIOUS
<1>2. wt \in Nat /\ s \in Nat
  BY <1>1, SumNat
<1>3. a \in Nat /\ -one <= 2 * (one * a - wt * t) /\ 2 * (one * a - wt * t) <= one
  <2>1. a = Mul(wt, t)
    OBVIOUS
  <2> QED
    BY <1>2, <2>1, MulError
<1> PICK k \in Nat : k = t \div One /\ t <= one * k + one
  BY DivMod
<1>4. CASE Q = {}
  <2>1. s = 0 /\ wt = 0
    BY <1>4, SumEmpty
  <2>2. a = 0
    BY <2>1, ZeroPower
  <2>3. n * (3 + 2 * k) \in Nat
    OBVIOUS
  <2> QED
    BY <2>1, <2>2, <2>3
<1>5. CASE Q # {}
  <2>1. n >= 1
    BY <1>5, FS_EmptySet
  <2> DEFINE u == [i \in Q |-> 1]
  <2> PICK c \in Int : c = 3 * t + one
    OBVIOUS
  <2> PICK tt \in Int, to \in Int : tt = 2 * t /\ to = 2 * one
    OBVIOUS
  <2>2. \A i \in Q : m[i] \in Int /\ x[i] \in Int /\ u[i] \in Int
    BY <1>1
  <2>3. \A i \in Q : /\ tt * m[i] <= to * x[i] + c * u[i]
                     /\ to * x[i] <= tt * m[i] + c * u[i]
    <3> TAKE i \in Q
    <3> PICK mi \in Nat, xi \in Nat : mi = m[i] /\ xi = x[i]
      BY <1>1
    <3>1. /\ 2 * (t * mi) <= 2 * (one * xi) + c
          /\ 2 * (one * xi) <= 2 * (t * mi) + c
      BY <1>1
    <3>2. tt * mi = 2 * (t * mi) /\ to * xi = 2 * (one * xi) /\ c * u[i] = c
      OBVIOUS
    <3> QED
      BY <3>1, <3>2
  <2>4. SumFunctionOnSet(u, Q) = n
    <3> PICK d \in Int : d = 1
      OBVIOUS
    <3>1. \A i \in Q : u[i] = d
      OBVIOUS
    <3> HIDE DEF u
    <3>2. SumFunctionOnSet(u, Q) = d * Cardinality(Q)
      BY <3>1, SumConstant
    <3> QED
      BY <3>2
  <2> HIDE DEF u
  <2>5. tt * wt <= to * s + c * n
    <3>1. \A i \in Q : tt * m[i] <= to * x[i] + c * u[i]
      BY <2>3
    <3>2. tt * SumFunctionOnSet(m, Q)
            <= to * SumFunctionOnSet(x, Q) + c * SumFunctionOnSet(u, Q)
      BY <2>2, <3>1, SumLinear
    <3> QED
      BY <2>4, <3>2
  <2>6. to * s <= tt * wt + c * n
    <3>1. \A i \in Q : x[i] \in Int /\ m[i] \in Int /\ u[i] \in Int
      BY <2>2
    <3>2. \A i \in Q : to * x[i] <= tt * m[i] + c * u[i]
      BY <2>3
    <3>3. to * SumFunctionOnSet(x, Q)
            <= tt * SumFunctionOnSet(m, Q) + c * SumFunctionOnSet(u, Q)
      BY <3>1, <3>2, SumLinear
    <3> QED
      BY <2>4, <3>3
  <2> DEFINE e == a - s
             y == n * (3 + 2 * k)
             oe == one * e
             oy == one * y
             oa == one * a
             os == one * s
             wtt == wt * t
             cn == c * n
             on == one * n
             okn == one * (n * k)
             tn == t * n
  <2>7. /\ e \in Int /\ y \in Int /\ oe \in Int /\ oy \in Int /\ oa \in Int /\ os \in Int
        /\ wtt \in Int /\ cn \in Int /\ on \in Int /\ okn \in Int /\ tn \in Int
    BY <1>2, <1>3
  <2>8. /\ oe = oa - os /\ tt * wt = 2 * wtt /\ to * s = 2 * os
        /\ cn = 3 * tn + on /\ oy = 3 * on + 2 * okn
    <3>1. oe = oa - os
      BY <1>2, <1>3
    <3>2. tt * wt = 2 * wtt /\ to * s = 2 * os
      BY <1>2
    <3>3. cn = 3 * tn + on
      OBVIOUS
    <3>4. y = n * 3 + n * (2 * k)
      OBVIOUS
    <3>5. n * (2 * k) = 2 * (n * k)
      OBVIOUS
    <3> PICK nk \in Int : nk = n * k
      OBVIOUS
    <3>6. one * (3 * n + 2 * nk) = 3 * (one * n) + 2 * (one * nk)
      OBVIOUS
    <3> QED
      BY <3>1, <3>2, <3>3, <3>4, <3>5, <3>6
  <2>9. tn <= okn + on
    <3>1. t * n <= (one * k + one) * n
      OBVIOUS
    <3>2. (one * k + one) * n = (one * k) * n + one * n
      OBVIOUS
    <3>3. (one * k) * n = okn
      OBVIOUS
    <3> QED
      BY <3>1, <3>2, <3>3
  <2>10. one <= on /\ okn >= 0
    <3>1. one * 1 <= one * n /\ n * k >= 0
      BY <2>1
    <3> QED
      BY <3>1
  <2>11. oe <= oy /\ -oy <= oe
    <3>1. 2 * wtt <= 2 * os + cn /\ 2 * os <= 2 * wtt + cn
      BY <2>5, <2>6, <2>8
    <3>2. -one <= 2 * (oa - wtt) /\ 2 * (oa - wtt) <= one
      BY <1>3
    <3>3. one \in Int
      OBVIOUS
    <3> HIDE DEF e, y, oe, oy, oa, os, wtt, cn, on, okn, tn
    <3> QED
      BY <2>7, <2>8, <2>9, <2>10, <3>1, <3>2, <3>3
  <2>12. e <= y /\ -y <= e
    <3> HIDE DEF e, y
    <3>1. ASSUME e > y PROVE FALSE
      <4>1. one * e > one * y
        BY <2>7, <3>1
      <4> QED
        BY <2>7, <2>11, <4>1
    <3>2. ASSUME e < -y PROVE FALSE
      <4>1. one * e < one * (-y) /\ one * (-y) = -(one * y)
        BY <2>7, <3>2
      <4> QED
        BY <2>7, <2>11, <4>1
    <3> QED
      BY <2>7, <3>1, <3>2
  <2>13. a - s <= y /\ s - a <= y
    <3> HIDE DEF y
    <3> QED
      BY <1>2, <1>3, <2>7, <2>12
  <2> QED
    BY <1>2, <1>3, <2>13
<1> QED
  BY <1>4, <1>5

\* The same for one weight of the whole amount, to a unit for each part.
LEMMA SumOfParts ==
  ASSUME NEW Q, IsFiniteSet(Q), NEW w \in 0..One, NEW p, NEW x,
         \A i \in Q : p[i] \in Nat /\ x[i] = Mul(p[i], w),
         NEW t, t = SumFunctionOnSet(p, Q),
         NEW a, a = Mul(w, t),
         NEW s, s = SumFunctionOnSet(x, Q)
  PROVE  /\ a \in Nat /\ s \in Nat
         /\ a - s <= Cardinality(Q) /\ s - a <= Cardinality(Q)
<1> PICK one \in Nat \ {0} : one = One
  BY OneAssumption
<1> PICK n \in Nat : n = Cardinality(Q)
  BY FS_CardinalityType
<1>0. w \in Nat
  OBVIOUS
<1>1. \A i \in Q : /\ x[i] \in Nat
                   /\ -One <= 2 * (One * x[i] - p[i] * w)
                   /\ 2 * (One * x[i] - p[i] * w) <= One
  <2> TAKE i \in Q
  <2> PICK pi \in Nat : pi = p[i]
    OBVIOUS
  <2>1. /\ Mul(pi, w) \in Nat
        /\ -One <= 2 * (One * Mul(pi, w) - pi * w)
        /\ 2 * (One * Mul(pi, w) - pi * w) <= One
    BY <1>0, MulError
  <2> QED
    BY <2>1
<1>2. t \in Nat /\ s \in Nat
  BY <1>1, SumNat
<1>3. a \in Nat /\ -one <= 2 * (one * a - w * t) /\ 2 * (one * a - w * t) <= one
  BY <1>0, <1>2, MulError
<1>4. CASE Q = {}
  <2>1. s = 0 /\ t = 0
    BY <1>4, SumEmpty
  <2>2. a = 0
    BY <1>0, <2>1, MulZero
  <2> QED
    BY <2>1, <2>2
<1>5. CASE Q # {}
  <2>1. n >= 1
    BY <1>5, FS_EmptySet
  <2> DEFINE u == [i \in Q |-> 1]
  <2> PICK to \in Int, tw \in Int, unit \in Int : to = 2 * one /\ tw = 2 * w /\ unit = one
    BY <1>0
  <2>2. \A i \in Q : p[i] \in Int /\ x[i] \in Int /\ u[i] \in Int
    BY <1>1
  <2>3. \A i \in Q : /\ to * x[i] <= tw * p[i] + unit * u[i]
                     /\ tw * p[i] <= to * x[i] + unit * u[i]
    <3> TAKE i \in Q
    <3> PICK pi \in Nat, xi \in Nat : pi = p[i] /\ xi = x[i]
      BY <1>1
    <3> PICK ox \in Int, pw \in Int : ox = one * xi /\ pw = pi * w
      BY <1>0
    <3>1. -one <= 2 * (ox - pw) /\ 2 * (ox - pw) <= one
      BY <1>1
    <3>2. to * xi = 2 * ox /\ tw * pi = 2 * pw /\ unit * u[i] = one
      BY <1>0
    <3> QED
      BY <3>1, <3>2
  <2>4. SumFunctionOnSet(u, Q) = n
    <3> PICK d \in Int : d = 1
      OBVIOUS
    <3>1. \A i \in Q : u[i] = d
      OBVIOUS
    <3> HIDE DEF u
    <3>2. SumFunctionOnSet(u, Q) = d * Cardinality(Q)
      BY <3>1, SumConstant
    <3> QED
      BY <3>2
  <2> HIDE DEF u
  <2>5. to * s <= tw * t + one * n
    <3>1. \A i \in Q : x[i] \in Int /\ p[i] \in Int /\ u[i] \in Int
      BY <2>2
    <3>2. \A i \in Q : to * x[i] <= tw * p[i] + unit * u[i]
      BY <2>3
    <3>3. to * SumFunctionOnSet(x, Q)
            <= tw * SumFunctionOnSet(p, Q) + unit * SumFunctionOnSet(u, Q)
      BY <3>1, <3>2, SumLinear
    <3> QED
      BY <2>4, <3>3
  <2>6. tw * t <= to * s + one * n
    <3>1. \A i \in Q : tw * p[i] <= to * x[i] + unit * u[i]
      BY <2>3
    <3>2. tw * SumFunctionOnSet(p, Q)
            <= to * SumFunctionOnSet(x, Q) + unit * SumFunctionOnSet(u, Q)
      BY <2>2, <3>1, SumLinear
    <3> QED
      BY <2>4, <3>2
  <2> DEFINE e == a - s
             oe == one * e
             oa == one * a
             os == one * s
             wtt == w * t
             on == one * n
  <2>7. /\ e \in Int /\ oe \in Int /\ oa \in Int /\ os \in Int /\ wtt \in Int /\ on \in Int
    BY <1>0, <1>2, <1>3
  <2>8. oe = oa - os /\ tw * t = 2 * wtt /\ to * s = 2 * os
    BY <1>0, <1>2, <1>3
  <2>9. one <= on
    <3>1. one * 1 <= one * n
      BY <2>1
    <3> QED
      BY <3>1
  <2>10. oe <= on /\ -on <= oe
    <3>1. 2 * os <= 2 * wtt + on /\ 2 * wtt <= 2 * os + on
      BY <2>5, <2>6, <2>8
    <3>2. -one <= 2 * (oa - wtt) /\ 2 * (oa - wtt) <= one
      BY <1>3
    <3>3. one \in Int
      OBVIOUS
    <3> HIDE DEF e, oe, oa, os, wtt, on
    <3> QED
      BY <2>7, <2>8, <2>9, <3>1, <3>2, <3>3
  <2>11. e <= n /\ -n <= e
    <3> HIDE DEF e
    <3>1. ASSUME e > n PROVE FALSE
      <4>1. one * e > one * n
        BY <2>7, <3>1
      <4> QED
        BY <2>7, <2>10, <4>1
    <3>2. ASSUME e < -n PROVE FALSE
      <4>1. one * e < one * (-n) /\ one * (-n) = -(one * n)
        BY <2>7, <3>2
      <4> QED
        BY <2>7, <2>10, <4>1
    <3> QED
      BY <2>7, <3>1, <3>2
  <2> QED
    BY <1>2, <1>3, <2>11
<1> QED
  BY <1>4, <1>5

-----------------------------------------------------------------------------
(* Sequences and sets of indices.                                          *)

\* A finite set of numbers has a largest member.
LEMMA Largest ==
  ASSUME NEW K, IsFiniteSet(K), K \subseteq Int, K # {}
  PROVE  \E i \in K : \A j \in K : j <= i
<1> DEFINE G == {T \in SUBSET K : T = {} \/ \E i \in T : \A j \in T : j <= i}
<1>1. {} \in G
  OBVIOUS
<1>2. ASSUME NEW T \in SUBSET K, T \in G, NEW x \in K \ T
      PROVE  T \cup {x} \in G
  BY <1>2
<1>3. K \in G
  <2> HIDE DEF G
  <2> QED
    BY <1>1, <1>2, SetInduction
<1> QED
  BY <1>3

\* The rank of a number in a set of numbers.
Rank(K, i) == Cardinality({j \in K : j <= i})

LEMMA RankBijection ==
  ASSUME NEW K, IsFiniteSet(K), K \subseteq Int
  PROVE  /\ Cardinality(K) \in Nat
         /\ \A i \in K : Rank(K, i) \in 1..Cardinality(K)
         /\ \A i, j \in K : i < j => Rank(K, i) < Rank(K, j)
         /\ \A i, j \in K : Rank(K, i) = Rank(K, j) => i = j
         /\ \A k \in 1..Cardinality(K) : \E i \in K : Rank(K, i) = k
<1> DEFINE upTo(i) == {j \in K : j <= i}
           rank == [i \in K |-> Rank(K, i)]
<1>1. Cardinality(K) \in Nat /\ \A i \in K : i \in Int
  BY FS_CardinalityType
<1>2. ASSUME NEW i \in K
      PROVE  /\ IsFiniteSet(upTo(i))
             /\ Rank(K, i) \in 1..Cardinality(K)
  <2>1. IsFiniteSet(upTo(i)) /\ Cardinality(upTo(i)) <= Cardinality(K)
    <3>1. upTo(i) \subseteq K
      OBVIOUS
    <3> HIDE DEF upTo
    <3> QED
      BY <3>1, FS_Subset
  <2>2. Cardinality(upTo(i)) \in Nat /\ Cardinality(upTo(i)) # 0
    <3>1. i \in upTo(i)
      BY <1>1
    <3> HIDE DEF upTo
    <3> QED
      BY <2>1, <3>1, FS_CardinalityType, FS_EmptySet
  <2> QED
    BY <1>1, <2>1, <2>2 DEF Rank
<1>3. ASSUME NEW i \in K, NEW j \in K, i < j
      PROVE  Rank(K, i) < Rank(K, j)
  <2>1. upTo(i) \subseteq upTo(j) /\ j \in upTo(j) /\ j \notin upTo(i)
    <3>1. i \in Int /\ j \in Int
      BY <1>1
    <3>2. ASSUME NEW x \in K, x <= i PROVE x <= j
      <4>1. x \in Int
        BY <1>1
      <4> QED
        BY <1>3, <3>1, <3>2, <4>1
    <3>3. j <= j /\ ~(j <= i)
      BY <1>3, <3>1
    <3> QED
      BY <3>2, <3>3
  <2>2. IsFiniteSet(upTo(j))
    BY <1>2
  <2>3. Cardinality(upTo(i)) < Cardinality(upTo(j))
    <3> HIDE DEF upTo
    <3> QED
      BY <2>1, <2>2, FS_Subset, FS_CardinalityType
  <2> QED
    BY <2>3 DEF Rank
<1>4. \A i, j \in K : Rank(K, i) = Rank(K, j) => i = j
  <2> SUFFICES ASSUME NEW i \in K, NEW j \in K, Rank(K, i) = Rank(K, j), i # j
               PROVE  FALSE
    OBVIOUS
  <2>1. i \in Int /\ j \in Int
    BY <1>1
  <2>2. i < j \/ j < i
    BY <2>1
  <2>3. Rank(K, i) \in 1..Cardinality(K) /\ Rank(K, j) \in 1..Cardinality(K)
    BY <1>2
  <2>4. Rank(K, i) \in Int /\ Rank(K, j) \in Int
    BY <1>1, <2>3
  <2> QED
    BY <1>3, <2>2, <2>4
<1>5. rank \in Injection(K, 1..Cardinality(K))
  BY <1>2, <1>4 DEF Injection, IsInjective
<1>6. IsFiniteSet(1..Cardinality(K)) /\ Cardinality(1..Cardinality(K)) = Cardinality(K)
  BY <1>1, FS_Interval
<1>7. rank \in Surjection(K, 1..Cardinality(K))
  <2> HIDE DEF rank
  <2> QED
    BY <1>5, <1>6, FS_Injection
<1>8. \A k \in 1..Cardinality(K) : \E i \in K : Rank(K, i) = k
  BY <1>7 DEF Surjection
<1> QED
  BY <1>1, <1>2, <1>3, <1>4, <1>8

\* Nth is the inverse of the rank.
LEMMA NthRank ==
  ASSUME NEW K, IsFiniteSet(K), K \subseteq Int
  PROVE  /\ \A k \in 1..Cardinality(K) : Nth(K, k) \in K /\ Rank(K, Nth(K, k)) = k
         /\ \A i \in K : Rank(K, i) \in 1..Cardinality(K) /\ Nth(K, Rank(K, i)) = i
<1>1. \A k \in 1..Cardinality(K) : Nth(K, k) \in K /\ Rank(K, Nth(K, k)) = k
  <2> TAKE k \in 1..Cardinality(K)
  <2>1. Nth(K, k) = CHOOSE i \in K : Rank(K, i) = k
    BY DEF Nth, Rank
  <2>2. \E i \in K : Rank(K, i) = k
    BY RankBijection
  <2> QED
    BY <2>1, <2>2
<1>2. ASSUME NEW i \in K
      PROVE  Rank(K, i) \in 1..Cardinality(K) /\ Nth(K, Rank(K, i)) = i
  <2>1. Rank(K, i) \in 1..Cardinality(K)
    BY RankBijection
  <2>2. Nth(K, Rank(K, i)) \in K /\ Rank(K, Nth(K, Rank(K, i))) = Rank(K, i)
    BY <1>1, <2>1
  <2> QED
    BY <2>1, <2>2, RankBijection
<1> QED
  BY <1>1, <1>2

\* Nth lists a set of numbers, each of them once.
LEMMA NthLists ==
  ASSUME NEW K, IsFiniteSet(K), K \subseteq Int
  PROVE  /\ Cardinality(K) \in Nat
         /\ \A k \in 1..Cardinality(K) : Nth(K, k) \in K
         /\ \A k, m \in 1..Cardinality(K) : Nth(K, k) = Nth(K, m) => k = m
         /\ \A i \in K : \E k \in 1..Cardinality(K) : Nth(K, k) = i
<1>1. /\ \A k \in 1..Cardinality(K) : Nth(K, k) \in K /\ Rank(K, Nth(K, k)) = k
      /\ \A i \in K : Rank(K, i) \in 1..Cardinality(K) /\ Nth(K, Rank(K, i)) = i
  BY NthRank
<1> QED
  BY <1>1, RankBijection

\* The part of a set that is listed in the order of the set.
LEMMA NthPart ==
  ASSUME NEW A, IsFiniteSet(A), A \subseteq Int, NEW B \in SUBSET A
  PROVE  LET I == {k \in 1..Cardinality(A) : Nth(A, k) \in B}
         IN  /\ Cardinality(I) = Cardinality(B)
             /\ \A k \in 1..Cardinality(B) : Nth(I, k) \in I /\ Nth(A, Nth(I, k)) = Nth(B, k)
<1> DEFINE D == 1..Cardinality(A)
           I == {k \in D : Nth(A, k) \in B}
           nth == [k \in D |-> Nth(A, k)]
<1>1. /\ IsFiniteSet(B) /\ B \subseteq Int
      /\ D \subseteq Int /\ IsFiniteSet(D) /\ I \subseteq D
  <2>1. Cardinality(A) \in Nat
    BY FS_CardinalityType
  <2>2. 1 \in Int /\ Cardinality(A) \in Int
    BY <2>1
  <2>3. IsFiniteSet(D)
    BY <2>2, FS_Interval
  <2>4. D \subseteq Int /\ I \subseteq D
    BY <2>2
  <2>5. IsFiniteSet(B)
    BY FS_Subset
  <2> QED
    BY <2>3, <2>4, <2>5
<1>2. /\ \A k \in D : nth[k] \in A /\ Rank(A, nth[k]) = k
      /\ \A i \in A : Rank(A, i) \in D /\ nth[Rank(A, i)] = i
  BY NthRank
<1>3. \A k \in D : nth[k] \in B <=> k \in I
  OBVIOUS
<1>4. \A i, j \in A : i < j => Rank(A, i) < Rank(A, j)
  BY RankBijection
<1> HIDE DEF D, I, nth
<1>5. \A k, m \in D : nth[k] = nth[m] => k = m
  BY <1>2
<1>6. \A k, m \in D : nth[m] <= nth[k] <=> m <= k
  <2> TAKE k, m \in D
  <2>1. /\ nth[k] \in Int /\ nth[m] \in Int /\ k \in Int /\ m \in Int
        /\ nth[k] < nth[m] => k < m
        /\ nth[m] < nth[k] => m < k
        /\ nth[k] = nth[m] => k = m
    <3>1. nth[k] \in A /\ nth[m] \in A /\ Rank(A, nth[k]) = k /\ Rank(A, nth[m]) = m
      BY <1>2
    <3>2. /\ nth[k] < nth[m] => k < m
          /\ nth[m] < nth[k] => m < k
      BY <1>4, <3>1
    <3>3. nth[k] \in Int /\ nth[m] \in Int /\ k \in Int /\ m \in Int
      BY <1>1, <3>1
    <3> QED
      BY <3>1, <3>2, <3>3
  <2> QED
    BY <2>1
<1>7. ASSUME NEW U, U \subseteq D
      PROVE  Cardinality({nth[k] : k \in U}) = Cardinality(U)
  <2> DEFINE image == {nth[k] : k \in U}
             f == [i \in image |-> 1]
             g == [k \in U |-> 1]
  <2>1. IsFiniteSet(U) /\ IsFiniteSet(image)
    <3>1. IsFiniteSet(U)
      BY <1>1, <1>7, FS_Subset
    <3> QED
      BY <3>1, ImageFinite
  <2>2. \A k, m \in U : nth[k] = nth[m] => k = m
    BY <1>5, <1>7
  <2>3. \A k \in U : g[k] \in Int /\ g[k] = f[nth[k]]
    OBVIOUS
  <2>4. (\A i \in image : f[i] = 1) /\ (\A k \in U : g[k] = 1)
    OBVIOUS
  <2> HIDE DEF f, g
  <2>5. SumFunctionOnSet(f, {nth[k] : k \in U}) = SumFunctionOnSet(g, U)
    BY <2>1, <2>2, <2>3, SumImage
  <2> HIDE DEF image
  <2>6. PICK c \in Int : c = 1
    OBVIOUS
  <2>7. SumFunctionOnSet(f, image) = c * Cardinality(image)
        /\ SumFunctionOnSet(g, U) = c * Cardinality(U)
    BY <2>1, <2>4, <2>6, SumConstant
  <2>8. Cardinality(image) \in Nat /\ Cardinality(U) \in Nat
    BY <2>1, FS_CardinalityType
  <2>9. Cardinality(image) = Cardinality(U)
    BY <2>5, <2>6, <2>7, <2>8 DEF image
  <2> QED
    BY <2>9 DEF image
<1>8. {nth[k] : k \in I} = B
  <2>1. \A i \in B : \E k \in I : nth[k] = i
    BY <1>2, <1>3
  <2>2. \A k \in I : nth[k] \in B
    BY <1>1, <1>3
  <2> QED
    BY <2>1, <2>2
<1>9. Cardinality(I) = Cardinality(B)
  BY <1>1, <1>7, <1>8
<1>10. ASSUME NEW k \in I
       PROVE  Rank(B, nth[k]) = Rank(I, k)
  <2> DEFINE U == {m \in I : m <= k}
  <2>1. \A m \in I : m <= k <=> nth[m] <= nth[k]
    BY <1>1, <1>6
  <2>2. {nth[m] : m \in U} = {j \in B : j <= nth[k]}
    BY <1>8, <2>1
  <2>3. U \subseteq D
    BY <1>1
  <2>4. Cardinality({nth[m] : m \in U}) = Cardinality(U)
    <3> HIDE DEF U
    <3> QED
      BY <1>7, <2>3
  <2> QED
    BY <2>2, <2>4 DEF Rank
<1>11. IsFiniteSet(I) /\ I \subseteq Int
  BY <1>1, FS_Subset
<1>12. ASSUME NEW k \in 1..Cardinality(B)
       PROVE  Nth(I, k) \in I /\ nth[Nth(I, k)] = Nth(B, k)
  <2>1. Nth(I, k) \in I /\ Rank(I, Nth(I, k)) = k
    BY <1>9, <1>11, NthRank
  <2>2. Rank(B, nth[Nth(I, k)]) = k /\ nth[Nth(I, k)] \in B
    BY <1>1, <1>3, <1>10, <2>1
  <2>3. Nth(B, Rank(B, nth[Nth(I, k)])) = nth[Nth(I, k)]
    BY <1>1, <2>2, NthRank
  <2> QED
    BY <2>1, <2>2, <2>3
<1>13. \A k \in 1..Cardinality(B) : Nth(I, k) \in I /\ Nth(A, Nth(I, k)) = Nth(B, k)
  <2>1. \A k \in I : nth[k] = Nth(A, k)
    BY <1>1 DEF nth
  <2> QED
    BY <1>12, <2>1
<1> QED
  BY <1>9, <1>13 DEF I, D

\* A part of a list holds the elements at its indices, each of them once.
LEMMA SublistOf ==
  ASSUME NEW list, NEW at, IsFiniteSet(at), at \subseteq Int
  PROVE  LET part == Sublist(list, at)
         IN  /\ Len(part) = Cardinality(at)
             /\ DOMAIN part = 1..Cardinality(at)
             /\ \A k \in DOMAIN part : Nth(at, k) \in at /\ part[k] = list[Nth(at, k)]
             /\ Range(part) = {list[i] : i \in at}
             /\ part \in Seq(Range(part))
<1> DEFINE part == Sublist(list, at)
           n == Cardinality(at)
<1>1. /\ n \in Nat
      /\ \A k \in 1..n : Nth(at, k) \in at
      /\ \A i \in at : \E k \in 1..n : Nth(at, k) = i
  BY NthLists
<1>2. part = [k \in 1..n |-> list[Nth(at, k)]]
  BY DEF Sublist
<1> HIDE DEF part, n
<1>3. DOMAIN part = 1..n /\ \A k \in 1..n : part[k] = list[Nth(at, k)]
  BY <1>2
<1>4. Range(part) = {list[i] : i \in at}
  <2>1. \A k \in DOMAIN part : part[k] \in {list[i] : i \in at}
    BY <1>1, <1>3
  <2>2. \A i \in at : \E k \in DOMAIN part : part[k] = list[i]
    BY <1>1, <1>3
  <2> QED
    BY <2>1, <2>2 DEF Range
<1>5. part \in Seq(Range(part)) /\ Len(part) = n
  <2>1. part \in [1..n -> Range(part)]
    BY <1>2, <1>3 DEF Range
  <2> QED
    BY <1>1, <2>1
<1> QED
  BY <1>1, <1>3, <1>4, <1>5 DEF part, n

\* A sum over a part of a list is a sum over its indices.
LEMMA SublistSum ==
  ASSUME NEW at, IsFiniteSet(at), at \subseteq Int, NEW f, \A i \in at : f[i] \in Int
  PROVE  SumFunction([k \in 1..Cardinality(at) |-> f[Nth(at, k)]])
           = SumFunctionOnSet(f, at)
<1> DEFINE S == 1..Cardinality(at)
           nth == [k \in S |-> Nth(at, k)]
           g == [k \in S |-> f[Nth(at, k)]]
<1>1. /\ IsFiniteSet(S)
      /\ \A k \in S : nth[k] \in at
      /\ \A k, m \in S : nth[k] = nth[m] => k = m
      /\ \A i \in at : \E k \in S : nth[k] = i
  <2>1. /\ Cardinality(at) \in Nat
        /\ \A k \in S : Nth(at, k) \in at
        /\ \A k, m \in S : Nth(at, k) = Nth(at, m) => k = m
        /\ \A i \in at : \E k \in S : Nth(at, k) = i
    BY NthLists
  <2>2. IsFiniteSet(S)
    BY <2>1, FS_Interval
  <2>3. \A k \in S : nth[k] = Nth(at, k)
    OBVIOUS
  <2> HIDE DEF S, nth
  <2> QED
    BY <2>1, <2>2, <2>3
<1>2. \A k \in S : g[k] \in Int /\ g[k] = f[nth[k]]
  BY <1>1
<1>3. SumFunction(g) = SumFunctionOnSet(g, S)
  BY DEF SumFunction
<1> HIDE DEF nth, g, S
<1>4. at = {nth[k] : k \in S}
  <2>1. \A i \in at : i \in {nth[k] : k \in S}
    BY <1>1
  <2>2. \A i \in {nth[k] : k \in S} : i \in at
    BY <1>1
  <2> QED
    BY <2>1, <2>2
<1>5. SumFunctionOnSet(f, {nth[k] : k \in S}) = SumFunctionOnSet(g, S)
  BY <1>1, <1>2, SumImage
<1> QED
  BY <1>3, <1>4, <1>5 DEF g, S

\* A list that names nothing twice.
IsOrder(order) ==
  /\ order \in Seq(Range(order))
  /\ \A i, j \in DOMAIN order : order[i] = order[j] => i = j

\* The keys of a map in order: each of them once.
LEMMA SortedKeys ==
  ASSUME NEW order, IsOrder(order), NEW keys
  PROVE  LET sorted == Sorted(keys, order)
         IN  IsOrder(sorted) /\ Range(sorted) = keys \cap Range(order)
<1> DEFINE at == {i \in DOMAIN order : order[i] \in keys}
           sorted == Sorted(keys, order)
<1>1. IsFiniteSet(DOMAIN order) /\ DOMAIN order \subseteq Nat
  BY FileDomain DEF IsOrder
<1>2. at \subseteq DOMAIN order /\ {order[i] : i \in at} = keys \cap Range(order)
  BY DEF Range
<1>3. IsFiniteSet(at) /\ at \subseteq Int
  <2> HIDE DEF at
  <2> QED
    BY <1>1, <1>2, FS_Subset
<1>4. sorted = Sublist(order, at)
  BY DEF Sorted
<1> HIDE DEF at, sorted
<1>5. LET part == Sublist(order, at)
      IN  /\ DOMAIN part = 1..Cardinality(at)
          /\ \A k \in DOMAIN part : Nth(at, k) \in at /\ part[k] = order[Nth(at, k)]
          /\ Range(part) = {order[i] : i \in at}
          /\ part \in Seq(Range(part))
  BY <1>3, SublistOf
<1>6. \A k, m \in 1..Cardinality(at) : Nth(at, k) = Nth(at, m) => k = m
  BY <1>3, NthLists
<1>7. \A k, m \in DOMAIN sorted : sorted[k] = sorted[m] => k = m
  BY <1>2, <1>4, <1>5, <1>6 DEF IsOrder
<1> QED
  BY <1>2, <1>4, <1>5, <1>7 DEF IsOrder, sorted

\* The keys of a part, in the order of the keys of the whole.
LEMMA SortedPart ==
  ASSUME NEW order, IsOrder(order), NEW keys, NEW part \in SUBSET keys
  PROVE  LET at == {i \in DOMAIN Sorted(keys, order) : Sorted(keys, order)[i] \in part}
         IN  Sublist(Sorted(keys, order), at) = Sorted(part, order)
<1> DEFINE A == {i \in DOMAIN order : order[i] \in keys}
           B == {i \in DOMAIN order : order[i] \in part}
           sorted == Sorted(keys, order)
           at == {i \in DOMAIN sorted : sorted[i] \in part}
           I == {k \in 1..Cardinality(A) : Nth(A, k) \in B}
<1>1. IsFiniteSet(DOMAIN order) /\ DOMAIN order \subseteq Nat
  BY FileDomain DEF IsOrder
<1>2. A \subseteq DOMAIN order /\ B \subseteq A
      /\ \A i \in A : i \in B <=> order[i] \in part
  OBVIOUS
<1>3. sorted = [k \in 1..Cardinality(A) |-> order[Nth(A, k)]]
      /\ Sorted(part, order) = [k \in 1..Cardinality(B) |-> order[Nth(B, k)]]
  BY DEF Sorted, Sublist
<1> HIDE DEF A, B, sorted
<1>4. IsFiniteSet(A) /\ A \subseteq Int
  BY <1>1, <1>2, FS_Subset
<1>5. \A k \in 1..Cardinality(A) : Nth(A, k) \in A
  BY <1>4, NthLists
<1>6. at = I
  BY <1>2, <1>3, <1>5
<1>7. /\ Cardinality(I) = Cardinality(B)
      /\ \A k \in 1..Cardinality(B) : Nth(I, k) \in I /\ Nth(A, Nth(I, k)) = Nth(B, k)
  BY <1>2, <1>4, NthPart
<1>8. \A k \in I : k \in 1..Cardinality(A)
  OBVIOUS
<1> HIDE DEF I, at
<1>9. Sublist(sorted, at) = [k \in 1..Cardinality(B) |-> sorted[Nth(I, k)]]
  BY <1>6, <1>7 DEF Sublist
<1>10. \A k \in 1..Cardinality(B) : sorted[Nth(I, k)] = order[Nth(B, k)]
  BY <1>3, <1>7, <1>8
<1>11. Sublist(sorted, at) = Sorted(part, order)
  BY <1>3, <1>9, <1>10
<1> QED
  BY <1>11 DEF at, sorted

-----------------------------------------------------------------------------
(* The maps parsing.go builds from the files.                              *)

Ballots ==
  {w \in UNION {[options -> 1..One] : options \in SUBSET VoteOption} : IsWeightedVote(w)}

Validator ==
  [BondedTokens : Nat, DelegatorShares : Nat \ {0}, DelegatorDeductions : Nat,
   Vote : Ballots \cup {NoVote}]

LEMMA BallotType ==
  ASSUME NEW w, IsWeightedVote(w)
  PROVE  w \in Ballots
BY DEF IsWeightedVote, Ballots

\* The last vote of a voter is one of its votes.
LEMMA ParsedVotes ==
  ASSUME NEW file \in VotesFiles
  PROVE  LET votes == ParseVotesByAddr(file)
         IN  /\ IsFiniteSet(DOMAIN votes)
             /\ votes \in [DOMAIN votes -> Ballots]
             /\ DOMAIN votes \subseteq Address
<1> DEFINE of == [i \in DOMAIN file |-> file[i].voter]
           voters == {file[i].voter : i \in DOMAIN file}
           last(a) == LastIndex(file, LAMBDA vote : vote.voter = a)
<1>1. /\ DOMAIN file \subseteq Nat
      /\ IsFiniteSet(DOMAIN file)
      /\ \A i \in DOMAIN file : file[i].voter \in Address /\ IsWeightedVote(file[i].options)
  BY VotesAssumption, FileDomain
<1>2. IsFiniteSet(voters)
  <2>1. {of[i] : i \in DOMAIN file} = voters
    OBVIOUS
  <2> HIDE DEF of, voters
  <2> QED
    BY <1>1, <2>1, ImageFinite
<1>3. ASSUME NEW a \in voters
      PROVE  last(a) \in DOMAIN file
  <2> DEFINE K == {i \in DOMAIN file : file[i].voter = a}
  <2>1. IsFiniteSet(K) /\ K \subseteq Int /\ K # {}
    <3>1. K \subseteq DOMAIN file /\ K # {}
      OBVIOUS
    <3> HIDE DEF K
    <3> QED
      BY <1>1, <3>1, FS_Subset
  <2>2. \E i \in K : \A j \in K : j <= i
    <3> HIDE DEF K
    <3> QED
      BY <2>1, Largest
  <2>3. last(a) = CHOOSE i \in DOMAIN file :
                    file[i].voter = a /\ \A j \in DOMAIN file : file[j].voter = a => j <= i
    BY DEF LastIndex
  <2>4. \E i \in DOMAIN file :
          file[i].voter = a /\ \A j \in DOMAIN file : file[j].voter = a => j <= i
    BY <2>2
  <2> QED
    BY <2>3, <2>4
<1>4. ParseVotesByAddr(file) = [a \in voters |-> file[last(a)].options]
  BY DEF ParseVotesByAddr
<1> HIDE DEF last
<1>5. \A a \in voters : file[last(a)].options \in Ballots
  BY <1>1, <1>3, BallotType
<1> QED
  BY <1>1, <1>2, <1>4, <1>5

\* A delegation of the file with its delegator.
Entry(file, i) == <<file[i].delegator, file[i]>>

\* The delegations of the map are those of the file, each of them once.
LEMMA ParsedDelegations ==
  ASSUME NEW file \in DelegationFiles
  PROVE  LET delegs == ParseDelegationsByAddr(file)
         IN  /\ DOMAIN delegs \subseteq Address
             /\ Delegated(delegs) = {Entry(file, i) : i \in DOMAIN file}
             /\ \A a \in DOMAIN delegs :
                  LET ds == delegs[a]
                  IN  /\ ds \in Seq(Range(ds))
                      /\ \A i, j \in DOMAIN ds : ds[i] = ds[j] => i = j
                      /\ \A i \in DOMAIN ds : ds[i].shares \in Nat
<1> DEFINE delegs == ParseDelegationsByAddr(file)
           delegators == {file[i].delegator : i \in DOMAIN file}
           mine(a) == {i \in DOMAIN file : file[i].delegator = a}
<1>1. /\ DOMAIN file \subseteq Nat
      /\ IsFiniteSet(DOMAIN file)
      /\ \A i \in DOMAIN file : file[i].delegator \in Address /\ file[i].shares \in Nat
      /\ \A i, j \in DOMAIN file :
           file[i].delegator = file[j].delegator /\ file[i].validator = file[j].validator
           => i = j
  BY DelegationsAssumption, FileDomain
<1>2. ASSUME NEW a
      PROVE  /\ Cardinality(mine(a)) \in Nat
             /\ \A k \in 1..Cardinality(mine(a)) : Nth(mine(a), k) \in mine(a)
             /\ \A k, m \in 1..Cardinality(mine(a)) :
                  Nth(mine(a), k) = Nth(mine(a), m) => k = m
             /\ \A i \in mine(a) : \E k \in 1..Cardinality(mine(a)) : Nth(mine(a), k) = i
  <2>1. mine(a) \subseteq DOMAIN file
    OBVIOUS
  <2>2. IsFiniteSet(mine(a)) /\ mine(a) \subseteq Int
    <3> HIDE DEF mine
    <3> QED
      BY <1>1, <2>1, FS_Subset
  <2> HIDE DEF mine
  <2> QED
    BY <2>2, NthLists
<1>3. /\ DOMAIN delegs = delegators
      /\ \A a \in delegators :
           delegs[a] = [k \in 1..Cardinality(mine(a)) |-> file[Nth(mine(a), k)]]
  BY DEF ParseDelegationsByAddr, Sublist
<1>4. \A a \in delegators : \A i \in mine(a) : i \in DOMAIN file /\ file[i].delegator = a
  OBVIOUS
<1>5. \A i \in DOMAIN file : file[i].delegator \in delegators /\ i \in mine(file[i].delegator)
  OBVIOUS
<1> HIDE DEF delegs, mine, delegators
<1>6. ASSUME NEW a \in delegators
      PROVE  /\ DOMAIN delegs[a] = 1..Cardinality(mine(a))
             /\ \A k \in DOMAIN delegs[a] : delegs[a][k] = file[Nth(mine(a), k)]
             /\ Range(delegs[a]) = {file[i] : i \in mine(a)}
             /\ delegs[a] \in Seq(Range(delegs[a]))
  <2>1. /\ DOMAIN delegs[a] = 1..Cardinality(mine(a))
        /\ \A k \in DOMAIN delegs[a] : delegs[a][k] = file[Nth(mine(a), k)]
    <3>1. delegs[a] = [k \in 1..Cardinality(mine(a)) |-> file[Nth(mine(a), k)]]
      BY <1>3
    <3> QED
      BY <3>1
  <2>2. Range(delegs[a]) = {file[i] : i \in mine(a)}
    <3>1. \A k \in DOMAIN delegs[a] : delegs[a][k] \in {file[i] : i \in mine(a)}
      BY <1>2, <2>1
    <3>2. \A i \in mine(a) : \E k \in DOMAIN delegs[a] : delegs[a][k] = file[i]
      BY <1>2, <2>1
    <3> QED
      BY <3>1, <3>2 DEF Range
  <2>3. delegs[a] \in [1..Cardinality(mine(a)) -> Range(delegs[a])]
    BY <1>3 DEF Range
  <2>4. delegs[a] \in Seq(Range(delegs[a]))
    BY <1>2, <2>3
  <2> QED
    BY <2>1, <2>2, <2>4
<1>7. ASSUME NEW a \in delegators
      PROVE  /\ \A k, m \in DOMAIN delegs[a] : delegs[a][k] = delegs[a][m] => k = m
             /\ \A k \in DOMAIN delegs[a] : delegs[a][k].shares \in Nat
  <2>1. \A k \in DOMAIN delegs[a] :
          /\ delegs[a][k] = file[Nth(mine(a), k)]
          /\ Nth(mine(a), k) \in DOMAIN file
    BY <1>2, <1>4, <1>6
  <2>2. \A i, j \in DOMAIN file : file[i] = file[j] => i = j
    BY <1>1
  <2> QED
    BY <1>1, <1>2, <1>6, <2>1, <2>2
<1>8. Delegated(delegs) = {Entry(file, i) : i \in DOMAIN file}
  <2>1. ASSUME NEW ad \in Delegated(delegs)
        PROVE  ad \in {Entry(file, i) : i \in DOMAIN file}
    <3>1. PICK a \in delegators : ad \in {a} \X Range(delegs[a])
      BY <1>3 DEF Delegated
    <3> PICK d \in Range(delegs[a]) : ad = <<a, d>>
      BY <3>1
    <3> d \in {file[i] : i \in mine(a)}
      BY <1>6
    <3>2. PICK i \in mine(a) : d = file[i]
      OBVIOUS
    <3> QED
      BY <1>4, <3>2 DEF Entry
  <2>2. ASSUME NEW i \in DOMAIN file
        PROVE  Entry(file, i) \in Delegated(delegs)
    <3> DEFINE a == file[i].delegator
    <3>1. a \in DOMAIN delegs /\ file[i] \in Range(delegs[a])
      BY <1>3, <1>5, <1>6
    <3>2. Entry(file, i) \in {a} \X Range(delegs[a])
      BY <3>1 DEF Entry
    <3> QED
      BY <3>1, <3>2 DEF Delegated
  <2> QED
    BY <2>1, <2>2
<1>9. DOMAIN delegs \subseteq Address
  BY <1>1, <1>3 DEF delegators
<1> QED
  BY <1>3, <1>6, <1>7, <1>8, <1>9 DEF delegs

\* The shares at v of the map are those of the file.
LEMMA ParsedShares ==
  ASSUME NEW file \in DelegationFiles, NEW v
  PROVE  LET pairs == Delegated(ParseDelegationsByAddr(file))
             at == [ad \in pairs |-> IF ad[2].validator = v THEN ad[2].shares ELSE 0]
         IN  /\ IsFiniteSet(pairs)
             /\ SumFunctionOnSet(at, pairs) = SharesOf(file, v)
<1> DEFINE pairs == Delegated(ParseDelegationsByAddr(file))
           at == [ad \in pairs |-> IF ad[2].validator = v THEN ad[2].shares ELSE 0]
           entry == [i \in DOMAIN file |-> Entry(file, i)]
           shares == [i \in DOMAIN file |->
                        IF file[i].validator = v THEN file[i].shares ELSE 0]
<1>1. /\ IsFiniteSet(DOMAIN file)
      /\ \A i \in DOMAIN file : file[i].shares \in Nat
      /\ \A i, j \in DOMAIN file :
           file[i].delegator = file[j].delegator /\ file[i].validator = file[j].validator
           => i = j
  BY DelegationsAssumption, FileDomain
<1>2. pairs = {entry[i] : i \in DOMAIN file}
  BY ParsedDelegations
<1>3. \A i, j \in DOMAIN file : entry[i] = entry[j] => i = j
  BY <1>1 DEF Entry
<1>4. \A i \in DOMAIN file : entry[i][2] = file[i] /\ entry[i] \in pairs
  BY <1>2 DEF Entry
<1>5. \A i \in DOMAIN file : shares[i] \in Int /\ shares[i] = at[entry[i]]
  BY <1>1, <1>4
<1>6. SharesOf(file, v) = SumFunctionOnSet(shares, DOMAIN file)
  <2>1. DOMAIN shares = DOMAIN file
    OBVIOUS
  <2> QED
    BY <2>1 DEF SharesOf, SumFunction
<1>7. IsFiniteSet(pairs) /\ SumFunctionOnSet(at, pairs) = SumFunctionOnSet(shares, DOMAIN file)
  <2> HIDE DEF pairs, at, entry, shares
  <2>1. IsFiniteSet(pairs)
    BY <1>1, <1>2, ImageFinite
  <2>2. SumFunctionOnSet(at, {entry[i] : i \in DOMAIN file})
          = SumFunctionOnSet(shares, DOMAIN file)
    BY <1>1, <1>3, <1>5, SumImage
  <2> QED
    BY <1>2, <2>1, <2>2
<1> QED
  BY <1>6, <1>7

\* The information of a validator is that of its last record.
LEMMA ParsedValidators ==
  ASSUME NEW df \in DelegationFiles, NEW file \in ValidatorFiles[df],
         NEW votes, votes \in [DOMAIN votes -> Ballots]
  PROVE  LET vals == ParseValidatorsByAddr(file, votes)
         IN  /\ IsFiniteSet(DOMAIN vals)
             /\ DOMAIN vals \subseteq Operator
             /\ vals \in [DOMAIN vals -> Validator]
             /\ \A v \in DOMAIN vals : /\ vals[v].DelegatorShares = SharesOf(df, v)
                                       /\ vals[v].DelegatorDeductions = 0
<1> DEFINE operator == [i \in DOMAIN file |-> file[i].operator]
           operators == {file[i].operator : i \in DOMAIN file}
           last(v) == LastIndex(file, LAMBDA r : r.operator = v)
           vote(v) == Lookup(votes, AccountOf[v], NoVote)
           info(v) == [BondedTokens        |-> file[last(v)].tokens,
                       DelegatorShares     |-> file[last(v)].shares,
                       DelegatorDeductions |-> 0,
                       Vote                |-> vote(v)]
<1>1. /\ DOMAIN file \subseteq Nat
      /\ IsFiniteSet(DOMAIN file)
      /\ \A i \in DOMAIN file : /\ file[i].operator \in Operator
                                /\ file[i].tokens \in Nat
                                /\ file[i].shares = SharesOf(df, file[i].operator)
                                /\ file[i].shares > 0
      /\ \A i, j \in DOMAIN file : file[i].operator = file[j].operator => i = j
  BY ValidatorsAssumption, FileDomain
<1>2. IsFiniteSet(operators)
  <2>1. {operator[i] : i \in DOMAIN file} = operators
    OBVIOUS
  <2> HIDE DEF operator, operators
  <2> QED
    BY <1>1, <2>1, ImageFinite
<1>3. ASSUME NEW v \in operators
      PROVE  last(v) \in DOMAIN file /\ file[last(v)].operator = v
  <2>1. last(v) = CHOOSE i \in DOMAIN file :
                    file[i].operator = v
                      /\ \A j \in DOMAIN file : file[j].operator = v => j <= i
    BY DEF LastIndex
  <2>2. \E i \in DOMAIN file :
          file[i].operator = v /\ \A j \in DOMAIN file : file[j].operator = v => j <= i
    <3>1. PICK i \in DOMAIN file : file[i].operator = v
      OBVIOUS
    <3>2. i <= i
      BY <1>1
    <3> QED
      BY <1>1, <3>1, <3>2
  <2> QED
    BY <2>1, <2>2
<1>4. \A v \in operators : vote(v) \in Ballots \cup {NoVote}
  BY DEF Lookup
<1>5. \A v \in operators : SharesOf(df, v) \in Nat
  <2> TAKE v \in operators
  <2> DEFINE shares == [i \in DOMAIN df |->
                          IF df[i].validator = v THEN df[i].shares ELSE 0]
  <2>1. IsFiniteSet(DOMAIN df) /\ shares \in [DOMAIN df -> Nat]
    BY DelegationsAssumption, FileDomain
  <2>2. SharesOf(df, v) = SumFunction(shares)
    BY DEF SharesOf
  <2> HIDE DEF shares
  <2> QED
    BY <2>1, <2>2, SumFunctionType
<1>6. ParseValidatorsByAddr(file, votes) = [v \in operators |-> info(v)]
  BY DEF ParseValidatorsByAddr
<1> HIDE DEF last, vote
<1>7. ASSUME NEW v \in operators
      PROVE  info(v) \in Validator /\ info(v).DelegatorShares = SharesOf(df, v)
  <2>1. /\ file[last(v)].tokens \in Nat
        /\ file[last(v)].shares = SharesOf(df, v)
        /\ file[last(v)].shares > 0
    BY <1>1, <1>3
  <2>2. file[last(v)].shares \in Nat \ {0}
    BY <1>5, <2>1
  <2> QED
    BY <1>4, <2>1, <2>2 DEF Validator
<1>8. operators \subseteq Operator
  BY <1>1
<1> HIDE DEF operators
<1> QED
  BY <1>2, <1>6, <1>7, <1>8
=============================================================================
