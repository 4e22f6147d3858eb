----------------------------- MODULE SumsProofs -----------------------------
(***************************************************************************)
(* The sum of a function over a finite set (SumFunctionOnSet): it exists,  *)
(* it is a number, and adding an element to the set adds its value, in     *)
(* whatever order the sum is taken.  Instead of an induction theorem,      *)
(* which would take a predicate for a parameter, every argument picks a    *)
(* smallest counterexample of a well-founded order.                        *)
(***************************************************************************)
EXTENDS Integers, Functions, FiniteSetTheorems, TLAPS

\* A nonempty family of subsets of a finite set has a member that includes no other.
LEMMA SmallestSubset ==
  ASSUME NEW U, IsFiniteSet(U), NEW B \in SUBSET SUBSET U, B # {}
  PROVE  \E s \in B : \A r \in SUBSET s : r # s => r \notin B
<1>1. IsWellFoundedOn(StrictSubsetOrdering(U), SUBSET U)
  BY FS_StrictSubsetOrderingWellFounded, FS_FiniteSubsetsOfFinite
<1>2. PICK s \in B : \A r \in B : <<r, s>> \notin StrictSubsetOrdering(U)
  BY <1>1, WFMin
<1>3. ASSUME NEW r \in SUBSET s, r # s, r \in B PROVE FALSE
  <2>1. <<r, s>> \in (SUBSET U) \X (SUBSET U)
    BY <1>3
  <2>2. <<r, s>> \in StrictSubsetOrdering(U)
    BY <1>3, <2>1 DEF StrictSubsetOrdering
  <2> QED BY <1>2, <1>3, <2>2
<1> QED BY <1>2, <1>3

\* A nonempty set of natural numbers has a least member.
LEMMA LeastNumber ==
  ASSUME NEW B \in SUBSET Nat, B # {}
  PROVE  \E n \in B : \A m \in B : n =< m
<1>1. PICK n \in B : \A m \in B : <<m, n>> \notin OpToRel(<, Nat)
  BY NatLessThanWellFounded, WFMin
<1>2. ASSUME NEW m \in B, m < n PROVE FALSE
  BY <1>1, <1>2 DEF OpToRel
<1> QED BY <1>2

\* The element whose value the sum over s takes first.
FirstOf(s) == CHOOSE x \in s : TRUE

\* The sums over the subsets of a set.
SumStep(g, f, s) == IF s = {} THEN 0 ELSE f[FirstOf(s)] + g[s \ {FirstOf(s)}]
AreSumsUpTo(g, f, S, n) == \A s \in SUBSET S : Cardinality(s) =< n => g[s] = SumStep(g, f, s)
AreSums(g, f, S) == g = [s \in SUBSET S |-> SumStep(g, f, s)]

\* Element y may be the first that is taken from s.
MayBeFirst(y, g, f, s) == g[s] = f[y] + g[s \ {y}]

\* The element taken first is one of the set.
LEMMA FirstIsMember == \A s : s # {} => FirstOf(s) \in s
BY DEF FirstOf

\* A sum is one of the sums over the subsets: how SumFunctionOnSet takes it.
LEMMA SumDef == \A f, S : SumFunctionOnSet(f, S) = (CHOOSE g : AreSums(g, f, S))[S]
BY DEF SumFunctionOnSet, FoldFunctionOnSet, MapThenFoldSet, AreSums, SumStep, FirstOf

\* The sums over all subsets with at most n elements exist, for every n.
LEMMA SumsUpTo ==
  ASSUME NEW S, IsFiniteSet(S), NEW f, \A x \in S : f[x] \in Int,
         NEW n \in Nat
  PROVE  \E g \in [SUBSET S -> Int] : AreSumsUpTo(g, f, S, n)
<1> DEFINE Good(m, g) == AreSumsUpTo(g, f, S, m)
           Bad == {m \in Nat : ~ \E g \in [SUBSET S -> Int] : Good(m, g)}
<1>0. \A s \in SUBSET S : IsFiniteSet(s) /\ Cardinality(s) \in Nat
  BY FS_Subset, FS_CardinalityType
<1>1. SUFFICES ASSUME Bad # {} PROVE FALSE
  OBVIOUS
<1>2. PICK k \in Bad : \A m \in Bad : k =< m
  <2>1. Bad \in SUBSET Nat  OBVIOUS
  <2> HIDE DEF Bad
  <2> QED BY <1>1, <2>1, LeastNumber
<1>3. k \in Nat /\ \A g \in [SUBSET S -> Int] : ~Good(k, g)
  BY <1>2
<1>4. CASE k = 0
  <2> DEFINE g == [s \in SUBSET S |-> 0]
  <2>1. \A s \in SUBSET S : Cardinality(s) =< 0 => s = {}
    BY <1>0, FS_EmptySet
  <2>2. Good(0, g)
    BY <2>1 DEF SumStep, AreSumsUpTo
  <2>3. g \in [SUBSET S -> Int]  OBVIOUS
  <2> QED BY <1>3, <1>4, <2>2, <2>3
<1>5. CASE k # 0
  <2>1. k - 1 \in Nat /\ ~(k =< k - 1)
    BY <1>3, <1>5
  <2>2. k - 1 \notin Bad
    BY <1>2, <2>1
  <2>3. PICK g \in [SUBSET S -> Int] : Good(k - 1, g)
    BY <2>1, <2>2
  <2> DEFINE h == [s \in SUBSET S |-> IF Cardinality(s) =< k - 1 THEN g[s] ELSE SumStep(g, f, s)]
  <2>4. ASSUME NEW s \in SUBSET S, s # {}
        PROVE  /\ s \ {FirstOf(s)} \in SUBSET S
               /\ Cardinality(s \ {FirstOf(s)}) = Cardinality(s) - 1
               /\ FirstOf(s) \in S
    BY <1>0, <2>4, FirstIsMember, FS_RemoveElement
  <2>5. h \in [SUBSET S -> Int]
    BY <2>4 DEF SumStep
  <2>6. ASSUME NEW s \in SUBSET S, Cardinality(s) =< k PROVE h[s] = SumStep(h, f, s)
    <3>1. h[s] = SumStep(g, f, s)
      BY <2>3 DEF AreSumsUpTo
    <3>2. CASE s = {}
      BY <3>1, <3>2 DEF SumStep
    <3>3. CASE s # {}
      <4>1. Cardinality(s \ {FirstOf(s)}) =< k - 1
        BY <1>0, <1>3, <2>4, <2>6, <3>3
      <4>2. h[s \ {FirstOf(s)}] = g[s \ {FirstOf(s)}]
        BY <2>4, <3>3, <4>1
      <4> HIDE DEF h
      <4> QED BY <3>1, <3>3, <4>2 DEF SumStep
    <3> QED BY <3>2, <3>3
  <2>7. Good(k, h)
    BY <2>6 DEF AreSumsUpTo
  <2> HIDE DEF h, Good
  <2> QED BY <1>3, <2>5, <2>7
<1> QED BY <1>4, <1>5

\* The sums over all subsets exist and are numbers.
LEMMA SumsExist ==
  ASSUME NEW S, IsFiniteSet(S), NEW f, \A x \in S : f[x] \in Int
  PROVE  \E g \in [SUBSET S -> Int] : AreSums(g, f, S)
<1>1. Cardinality(S) \in Nat /\ \A s \in SUBSET S : Cardinality(s) =< Cardinality(S)
  BY FS_Subset, FS_CardinalityType
<1>2. PICK g \in [SUBSET S -> Int] : AreSumsUpTo(g, f, S, Cardinality(S))
  BY <1>1, SumsUpTo
<1>3. g = [s \in SUBSET S |-> g[s]]
  OBVIOUS
<1>4. g = [s \in SUBSET S |-> SumStep(g, f, s)]
  BY <1>1, <1>2, <1>3 DEF AreSumsUpTo
<1> QED BY <1>4 DEF AreSums

\* They are the same whatever set they are taken for.
LEMMA SumsAgree ==
  ASSUME NEW S, IsFiniteSet(S), NEW T \in SUBSET S, NEW f, NEW g, NEW h,
         AreSums(g, f, S), AreSums(h, f, T)
  PROVE  \A s \in SUBSET T : g[s] = h[s]
<1> DEFINE Bad == {s \in SUBSET T : g[s] # h[s]}
<1>1. SUFFICES ASSUME Bad # {} PROVE FALSE
  OBVIOUS
<1>2. PICK s \in Bad : \A r \in SUBSET s : r # s => r \notin Bad
  <2>1. IsFiniteSet(T) /\ Bad \in SUBSET SUBSET T
    BY FS_Subset
  <2> HIDE DEF Bad
  <2> QED BY <1>1, <2>1, SmallestSubset
<1>3. /\ g[s] = SumStep(g, f, s)
      /\ h[s] = SumStep(h, f, s)
  BY <1>2 DEF AreSums
<1>4. CASE s = {}
  BY <1>2, <1>3, <1>4 DEF SumStep
<1>5. CASE s # {}
  <2>1. s \ {FirstOf(s)} # s /\ s \ {FirstOf(s)} \in SUBSET s
    BY <1>5, FirstIsMember
  <2>2. g[s \ {FirstOf(s)}] = h[s \ {FirstOf(s)}]
    BY <1>2, <2>1
  <2> QED BY <1>2, <1>3, <1>5, <2>2 DEF SumStep
<1> QED BY <1>4, <1>5

\* A sum of values of a function on a part of a finite set, by any sums of the set.
LEMMA SumIs ==
  ASSUME NEW S, IsFiniteSet(S), NEW T \in SUBSET S, NEW f, \A x \in S : f[x] \in Int,
         NEW g, AreSums(g, f, S)
  PROVE  SumFunctionOnSet(f, T) = g[T]
<1>1. IsFiniteSet(T) /\ \A x \in T : f[x] \in Int
  BY FS_Subset
<1>2. \E h : AreSums(h, f, T)
  BY <1>1, SumsExist
<1>3. AreSums(CHOOSE h : AreSums(h, f, T), f, T)
  BY <1>2
<1>4. g[T] = (CHOOSE h : AreSums(h, f, T))[T]
  BY <1>3, SumsAgree
<1> QED BY <1>4, SumDef

\* The order of the elements does not matter: any of them may be taken first.
LEMMA AnyFirst ==
  ASSUME NEW S, IsFiniteSet(S), NEW f, \A x \in S : f[x] \in Int,
         NEW g \in [SUBSET S -> Int], AreSums(g, f, S), NEW any \in S
  PROVE  MayBeFirst(any, g, f, S)
<1> DEFINE Bad == {s \in SUBSET S : \E y \in s : g[s] # f[y] + g[s \ {y}]}
<1>1. SUFFICES ASSUME Bad # {} PROVE FALSE
  BY DEF MayBeFirst
<1>2. PICK s \in Bad : \A r \in SUBSET s : r # s => r \notin Bad
  <2>1. Bad \in SUBSET SUBSET S  OBVIOUS
  <2> HIDE DEF Bad
  <2> QED BY <1>1, <2>1, SmallestSubset
<1>3. PICK y \in s : g[s] # f[y] + g[s \ {y}]
  BY <1>2
<1> DEFINE x == FirstOf(s)
           sx == s \ {x}
           sy == s \ {y}
           sxy == s \ {x, y}
<1>4. x \in s /\ x \in S /\ y \in S
  BY <1>2, <1>3, FirstIsMember
<1>5. g[s] = f[x] + g[sx]
  BY <1>2, <1>4 DEF AreSums, SumStep
<1>6. x # y
  BY <1>3, <1>5
<1>7. g[sx] = f[y] + g[sxy]
  <2>1. sx \in SUBSET s /\ sx # s /\ y \in sx /\ sx \ {y} = sxy
    BY <1>3, <1>4, <1>6
  <2> HIDE DEF x, sx, sxy
  <2> QED BY <1>2, <2>1
<1>8. g[sy] = f[x] + g[sxy]
  <2>1. sy \in SUBSET s /\ sy # s /\ x \in sy /\ sy \ {x} = sxy
    BY <1>3, <1>4, <1>6
  <2> HIDE DEF x, sy, sxy
  <2> QED BY <1>2, <2>1
<1>9. g[sxy] \in Int /\ f[x] \in Int /\ f[y] \in Int
  BY <1>2, <1>4
<1> HIDE DEF x, sx, sy, sxy
<1>10. g[s] = f[y] + g[sy]
  BY <1>5, <1>7, <1>8, <1>9
<1> QED BY <1>3, <1>10 DEF sy

\* A sum over a finite set is a number.
LEMMA SumIsNumber ==
  ASSUME NEW S, IsFiniteSet(S), NEW f, \A x \in S : f[x] \in Int
  PROVE  SumFunctionOnSet(f, S) \in Int
<1>1. PICK g \in [SUBSET S -> Int] : AreSums(g, f, S)
  BY SumsExist
<1> QED BY <1>1, SumIs

\* The sum over no element is nothing.
LEMMA SumOfNone == \A f : SumFunctionOnSet(f, {}) = 0
<1> TAKE f
<1>1. IsFiniteSet({}) /\ \A x \in {} : f[x] \in Int
  BY FS_EmptySet
<1>2. PICK g \in [SUBSET {} -> Int] : AreSums(g, f, {})
  BY <1>1, SumsExist
<1>3. SumFunctionOnSet(f, {}) = g[{}]
  BY <1>1, <1>2, SumIs
<1> QED BY <1>2, <1>3 DEF AreSums, SumStep

\* Taking an element out of a set takes its value off the sum.
LEMMA SumWithout ==
  ASSUME NEW S, IsFiniteSet(S), NEW f, \A x \in S : f[x] \in Int, NEW y \in S
  PROVE  SumFunctionOnSet(f, S) = f[y] + SumFunctionOnSet(f, S \ {y})
<1>1. PICK g \in [SUBSET S -> Int] : AreSums(g, f, S)
  BY SumsExist
<1>2. SumFunctionOnSet(f, S) = g[S] /\ SumFunctionOnSet(f, S \ {y}) = g[S \ {y}]
  BY <1>1, SumIs
<1>3. MayBeFirst(y, g, f, S)
  BY <1>1, AnyFirst
<1> QED BY <1>2, <1>3 DEF MayBeFirst

\* Adding an element to a set adds its value to the sum.
LEMMA SumWith ==
  ASSUME NEW S, IsFiniteSet(S), NEW y, y \notin S,
         NEW f, \A x \in S \cup {y} : f[x] \in Int
  PROVE  SumFunctionOnSet(f, S \cup {y}) = f[y] + SumFunctionOnSet(f, S)
<1>1. IsFiniteSet(S \cup {y}) /\ (S \cup {y}) \ {y} = S
  BY FS_AddElement
<1> QED BY <1>1, SumWithout

\* A sum depends only on the values at the elements it adds up.
LEMMA SumSame ==
  ASSUME NEW S, IsFiniteSet(S), NEW f, NEW h, \A x \in S : f[x] \in Int /\ h[x] = f[x]
  PROVE  SumFunctionOnSet(h, S) = SumFunctionOnSet(f, S)
<1>1. PICK g \in [SUBSET S -> Int] : AreSums(g, f, S)
  BY SumsExist
<1>2. \A s \in SUBSET S : SumStep(g, h, s) = SumStep(g, f, s)
  BY FirstIsMember DEF SumStep
<1>3. AreSums(g, h, S)
  BY <1>1, <1>2 DEF AreSums
<1> QED BY <1>1, <1>3, SumIs

\* A sum of larger values is no smaller.
LEMMA SumMonotone ==
  ASSUME NEW S, IsFiniteSet(S), NEW f, NEW h,
         \A x \in S : f[x] \in Int /\ h[x] \in Int /\ f[x] =< h[x]
  PROVE  SumFunctionOnSet(f, S) =< SumFunctionOnSet(h, S)
<1>1. PICK g \in [SUBSET S -> Int] : AreSums(g, f, S)
  BY SumsExist
<1>2. PICK k \in [SUBSET S -> Int] : AreSums(k, h, S)
  BY SumsExist
<1> DEFINE Bad == {s \in SUBSET S : ~(g[s] =< k[s])}
<1>3. ASSUME Bad # {} PROVE FALSE
  <2>1. PICK s \in Bad : \A r \in SUBSET s : r # s => r \notin Bad
    <3>1. Bad \in SUBSET SUBSET S  OBVIOUS
    <3> HIDE DEF Bad
    <3> QED BY <1>3, <3>1, SmallestSubset
  <2>2. g[s] = SumStep(g, f, s) /\ k[s] = SumStep(k, h, s)
    BY <1>1, <1>2, <2>1 DEF AreSums
  <2>3. s # {}
    BY <2>1, <2>2 DEF SumStep
  <2>4. s \ {FirstOf(s)} # s /\ s \ {FirstOf(s)} \in SUBSET s /\ FirstOf(s) \in S
    BY <2>1, <2>3, FirstIsMember
  <2>5. g[s \ {FirstOf(s)}] =< k[s \ {FirstOf(s)}]
    BY <2>1, <2>4
  <2>6. g[s \ {FirstOf(s)}] \in Int /\ k[s \ {FirstOf(s)}] \in Int
    BY <2>1, <2>4
  <2>7. g[s] =< k[s]
    BY <2>2, <2>3, <2>4, <2>5, <2>6 DEF SumStep
  <2> QED BY <2>1, <2>7
<1>4. g[S] =< k[S]
  BY <1>3
<1> QED BY <1>1, <1>2, <1>4, SumIs

\* The sum over two sets without a common element is the sum of their sums.
LEMMA SumUnion ==
  ASSUME NEW S, IsFiniteSet(S), NEW T, IsFiniteSet(T), S \cap T = {},
         NEW f, \A x \in S \cup T : f[x] \in Int
  PROVE  SumFunctionOnSet(f, S \cup T) = SumFunctionOnSet(f, S) + SumFunctionOnSet(f, T)
<1> DEFINE Bad == {s \in SUBSET T :
                     SumFunctionOnSet(f, S \cup s) # SumFunctionOnSet(f, S) + SumFunctionOnSet(f, s)}
<1>1. SUFFICES ASSUME Bad # {} PROVE FALSE
  OBVIOUS
<1>2. PICK s \in Bad : \A r \in SUBSET s : r # s => r \notin Bad
  <2>1. Bad \in SUBSET SUBSET T  OBVIOUS
  <2> HIDE DEF Bad
  <2> QED BY <1>1, <2>1, SmallestSubset
<1>3. /\ s \in SUBSET T /\ IsFiniteSet(s) /\ IsFiniteSet(S \cup s)
      /\ SumFunctionOnSet(f, S \cup s) # SumFunctionOnSet(f, S) + SumFunctionOnSet(f, s)
  BY <1>2, FS_Subset, FS_Union
<1>4. SumFunctionOnSet(f, S) \in Int
  BY SumIsNumber
<1>5. CASE s = {}
  <2>1. S \cup s = S
    BY <1>5
  <2>2. SumFunctionOnSet(f, S \cup s) = SumFunctionOnSet(f, S)
    BY <2>1
  <2>3. SumFunctionOnSet(f, s) = 0
    BY <1>5, SumOfNone
  <2> QED BY <1>3, <1>4, <2>2, <2>3
<1>6. CASE s # {}
  <2>1. PICK x \in s : TRUE
    BY <1>6
  <2> DEFINE r == s \ {x}
  <2>2. /\ r \in SUBSET s /\ r # s /\ r \in SUBSET T /\ IsFiniteSet(r)
        /\ (S \cup s) \ {x} = S \cup r
        /\ f[x] \in Int
    BY <1>3, <2>1, FS_Subset
  <2>3. SumFunctionOnSet(f, S \cup r) = SumFunctionOnSet(f, S) + SumFunctionOnSet(f, r)
    BY <1>2, <2>2
  <2>4. SumFunctionOnSet(f, S \cup s) = f[x] + SumFunctionOnSet(f, S \cup r)
    <3>1. x \in S \cup s /\ \A y \in S \cup s : f[y] \in Int
      BY <1>3, <2>1
    <3>2. SumFunctionOnSet(f, S \cup s) = f[x] + SumFunctionOnSet(f, (S \cup s) \ {x})
      BY <1>3, <3>1, SumWithout
    <3> QED BY <2>2, <3>2
  <2>5. SumFunctionOnSet(f, s) = f[x] + SumFunctionOnSet(f, r)
    BY <1>3, <2>1, SumWithout
  <2>6. SumFunctionOnSet(f, r) \in Int
    BY <2>2, SumIsNumber
  <2> HIDE DEF r
  <2> QED BY <1>3, <1>4, <2>2, <2>3, <2>4, <2>5, <2>6
<1> QED BY <1>5, <1>6

\* The sum of a constant.
LEMMA SumOfConstant ==
  ASSUME NEW S, IsFiniteSet(S), NEW m \in Nat, NEW f, \A x \in S : f[x] = m
  PROVE  SumFunctionOnSet(f, S) = m * Cardinality(S)
<1> DEFINE Bad == {s \in SUBSET S : SumFunctionOnSet(f, s) # m * Cardinality(s)}
<1>1. SUFFICES ASSUME Bad # {} PROVE FALSE
  OBVIOUS
<1>2. PICK s \in Bad : \A r \in SUBSET s : r # s => r \notin Bad
  <2>1. Bad \in SUBSET SUBSET S  OBVIOUS
  <2> HIDE DEF Bad
  <2> QED BY <1>1, <2>1, SmallestSubset
<1>3. /\ s \in SUBSET S /\ IsFiniteSet(s) /\ Cardinality(s) \in Nat
      /\ SumFunctionOnSet(f, s) # m * Cardinality(s)
  BY <1>2, FS_Subset, FS_CardinalityType
<1>4. CASE s = {}
  BY <1>3, <1>4, SumOfNone, FS_EmptySet
<1>5. CASE s # {}
  <2>1. PICK x \in s : TRUE
    BY <1>5
  <2> DEFINE n == Cardinality(s \ {x})
  <2>2. /\ s \ {x} \in SUBSET s /\ s \ {x} # s /\ s \ {x} \in SUBSET S
        /\ n \in Nat /\ Cardinality(s) = n + 1
    <3>1. IsFiniteSet(s \ {x}) /\ n = Cardinality(s) - 1
      BY <1>3, <2>1, FS_RemoveElement
    <3>2. n \in Nat
      BY <3>1, FS_CardinalityType
    <3> HIDE DEF n
    <3> QED BY <1>3, <2>1, <3>1, <3>2
  <2>3. SumFunctionOnSet(f, s \ {x}) = m * n
    BY <1>2, <2>2
  <2>4. f[x] = m /\ SumFunctionOnSet(f, s) = f[x] + SumFunctionOnSet(f, s \ {x})
    BY <1>3, <2>1, SumWithout
  <2> HIDE DEF n
  <2>5. m * (n + 1) = m + m * n
    BY <2>2
  <2> QED BY <1>3, <2>2, <2>3, <2>4, <2>5
<1> QED BY <1>4, <1>5

\* The values outside a part of a set may be counted as nothing.
LEMMA SumOfPart ==
  ASSUME NEW S, IsFiniteSet(S), NEW T \in SUBSET S, NEW f, \A x \in T : f[x] \in Int,
         NEW h, \A x \in S : h[x] = IF x \in T THEN f[x] ELSE 0
  PROVE  SumFunctionOnSet(h, S) = SumFunctionOnSet(f, T)
<1>1. /\ IsFiniteSet(T) /\ IsFiniteSet(S \ T)
      /\ T \cap (S \ T) = {} /\ S = T \cup (S \ T)
      /\ \A x \in T \cup (S \ T) : h[x] \in Int
  BY FS_Subset
<1>2. SumFunctionOnSet(h, S) = SumFunctionOnSet(h, T) + SumFunctionOnSet(h, S \ T)
  BY <1>1, SumUnion
<1>3. SumFunctionOnSet(h, S \ T) = 0
  <2>1. \A x \in S \ T : h[x] = 0
    OBVIOUS
  <2>2. SumFunctionOnSet(h, S \ T) = 0 * Cardinality(S \ T)
    BY <1>1, <2>1, SumOfConstant
  <2> QED BY <1>1, <2>2, FS_CardinalityType
<1>4. SumFunctionOnSet(h, T) = SumFunctionOnSet(f, T)
  BY <1>1, SumSame
<1>5. SumFunctionOnSet(h, T) \in Int
  BY <1>1, SumIsNumber
<1> QED BY <1>2, <1>3, <1>4, <1>5

\* A change of one value changes the sum by as much.
LEMMA SumChange ==
  ASSUME NEW S, IsFiniteSet(S), NEW y \in S, NEW f, NEW h,
         \A x \in S : f[x] \in Int /\ h[x] \in Int /\ (x # y => h[x] = f[x])
  PROVE  SumFunctionOnSet(h, S) = SumFunctionOnSet(f, S) + (h[y] - f[y])
<1>1. IsFiniteSet(S \ {y})
  BY FS_Subset
<1>2. SumFunctionOnSet(f, S) = f[y] + SumFunctionOnSet(f, S \ {y})
  BY SumWithout
<1>3. SumFunctionOnSet(h, S) = h[y] + SumFunctionOnSet(h, S \ {y})
  BY SumWithout
<1>4. SumFunctionOnSet(h, S \ {y}) = SumFunctionOnSet(f, S \ {y})
  BY <1>1, SumSame
<1>5. SumFunctionOnSet(f, S \ {y}) \in Int
  BY <1>1, SumIsNumber
<1> QED BY <1>2, <1>3, <1>4, <1>5

\* The sum of two functions is the sum of their sums.
LEMMA SumPlus ==
  ASSUME NEW S, IsFiniteSet(S), NEW f, NEW g, NEW h,
         \A x \in S : f[x] \in Int /\ g[x] \in Int /\ h[x] = f[x] + g[x]
  PROVE  SumFunctionOnSet(h, S) = SumFunctionOnSet(f, S) + SumFunctionOnSet(g, S)
<1> DEFINE Bad == {s \in SUBSET S :
                     SumFunctionOnSet(h, s) # SumFunctionOnSet(f, s) + SumFunctionOnSet(g, s)}
<1>1. SUFFICES ASSUME Bad # {} PROVE FALSE
  OBVIOUS
<1>2. PICK s \in Bad : \A r \in SUBSET s : r # s => r \notin Bad
  <2>1. Bad \in SUBSET SUBSET S  OBVIOUS
  <2> HIDE DEF Bad
  <2> QED BY <1>1, <2>1, SmallestSubset
<1>3. /\ s \in SUBSET S /\ IsFiniteSet(s)
      /\ SumFunctionOnSet(h, s) # SumFunctionOnSet(f, s) + SumFunctionOnSet(g, s)
  BY <1>2, FS_Subset
<1>4. CASE s = {}
  BY <1>3, <1>4, SumOfNone
<1>5. CASE s # {}
  <2>1. PICK x \in s : TRUE
    BY <1>5
  <2> DEFINE r == s \ {x}
  <2>2. /\ r \in SUBSET s /\ r # s /\ r \in SUBSET S /\ IsFiniteSet(r)
        /\ f[x] \in Int /\ g[x] \in Int /\ h[x] = f[x] + g[x]
    BY <1>3, <2>1, FS_Subset
  <2>3. SumFunctionOnSet(h, r) = SumFunctionOnSet(f, r) + SumFunctionOnSet(g, r)
    BY <1>2, <2>2
  <2>4. /\ SumFunctionOnSet(f, s) = f[x] + SumFunctionOnSet(f, r)
        /\ SumFunctionOnSet(g, s) = g[x] + SumFunctionOnSet(g, r)
    BY <1>3, <2>1, SumWithout
  <2>5. SumFunctionOnSet(h, s) = h[x] + SumFunctionOnSet(h, r)
    <3>1. \A y \in s : h[y] \in Int
      BY <1>3
    <3> QED BY <1>3, <2>1, <3>1, SumWithout
  <2>6. SumFunctionOnSet(f, r) \in Int /\ SumFunctionOnSet(g, r) \in Int
    BY <2>2, SumIsNumber
  <2> HIDE DEF r
  <2> QED BY <1>3, <2>2, <2>3, <2>4, <2>5, <2>6
<1> QED BY <1>4, <1>5

\* A sum of natural numbers is one.
LEMMA SumOfNaturals ==
  ASSUME NEW S, IsFiniteSet(S), NEW f, \A x \in S : f[x] \in Nat
  PROVE  SumFunctionOnSet(f, S) \in Nat
<1> DEFINE none == [x \in S |-> 0]
<1>1. /\ SumFunctionOnSet(f, S) \in Int
      /\ SumFunctionOnSet(none, S) = 0 * Cardinality(S)
      /\ SumFunctionOnSet(none, S) =< SumFunctionOnSet(f, S)
  BY SumIsNumber, SumOfConstant, SumMonotone
<1>2. Cardinality(S) \in Nat
  BY FS_CardinalityType
<1> HIDE DEF none
<1> QED BY <1>1, <1>2

\* The sizes of sets without a common element add up to no more than the set they are in.
LEMMA SumOfSizes ==
  ASSUME NEW S, IsFiniteSet(S), NEW U, IsFiniteSet(U), NEW part, \A x \in S : part[x] \subseteq U,
         \A x, y \in S : x # y => part[x] \cap part[y] = {},
         NEW f, \A x \in S : f[x] = Cardinality(part[x])
  PROVE  SumFunctionOnSet(f, S) =< Cardinality(U)
<1> DEFINE Both(s) == UNION {part[x] : x \in s}
           Bad == {s \in SUBSET S : SumFunctionOnSet(f, s) # Cardinality(Both(s))}
<1>1. \A x \in S : IsFiniteSet(part[x]) /\ f[x] \in Nat
  BY FS_Subset, FS_CardinalityType
<1>2. \A s \in SUBSET S : IsFiniteSet(Both(s)) /\ Cardinality(Both(s)) =< Cardinality(U)
  BY FS_Subset
<1>3. ASSUME Bad # {} PROVE FALSE
  <2>1. PICK s \in Bad : \A r \in SUBSET s : r # s => r \notin Bad
    <3>1. Bad \in SUBSET SUBSET S  OBVIOUS
    <3> HIDE DEF Bad
    <3> QED BY <1>3, <3>1, SmallestSubset
  <2>2. /\ s \in SUBSET S /\ IsFiniteSet(s)
        /\ SumFunctionOnSet(f, s) # Cardinality(Both(s))
    BY <2>1, FS_Subset
  <2>3. CASE s = {}
    <3>1. Both(s) = {}
      BY <2>3
    <3> QED BY <2>2, <2>3, <3>1, SumOfNone, FS_EmptySet
  <2>4. CASE s # {}
    <3>1. PICK x \in s : TRUE
      BY <2>4
    <3> DEFINE r == s \ {x}
    <3>2. r \in SUBSET s /\ r # s /\ r \in SUBSET S
      BY <2>2, <3>1
    <3>3. SumFunctionOnSet(f, r) = Cardinality(Both(r))
      BY <2>1, <3>2
    <3>4. SumFunctionOnSet(f, s) = f[x] + SumFunctionOnSet(f, r)
      <4>1. \A y \in s : f[y] \in Int
        BY <1>1, <2>2
      <4> QED BY <2>2, <3>1, <4>1, SumWithout
    <3>5. Both(s) = Both(r) \cup part[x] /\ Both(r) \cap part[x] = {}
      BY <2>2, <3>1
    <3>6. Cardinality(Both(s)) = Cardinality(Both(r)) + Cardinality(part[x])
      <4>1. IsFiniteSet(Both(r)) /\ IsFiniteSet(part[x])
        BY <1>1, <1>2, <2>2, <3>1, <3>2
      <4> DEFINE B == Both(r)
      <4>2. IsFiniteSet(B) /\ B \cap part[x] = {}
        BY <3>5, <4>1
      <4>3. Cardinality(B) \in Nat /\ Cardinality(part[x]) \in Nat
        BY <4>1, <4>2, FS_CardinalityType
      <4> HIDE DEF B
      <4>4. Cardinality(B \cup part[x]) = Cardinality(B) + Cardinality(part[x]) - 0
        BY <4>1, <4>2, FS_Union, FS_EmptySet
      <4>5. Cardinality(B \cup part[x]) = Cardinality(B) + Cardinality(part[x])
        BY <4>3, <4>4
      <4> QED BY <3>5, <4>5 DEF B
    <3>7. f[x] = Cardinality(part[x]) /\ f[x] \in Nat /\ Cardinality(Both(r)) \in Nat
      <4>1. IsFiniteSet(Both(r))
        BY <1>2, <3>2
      <4> HIDE DEF Both
      <4> QED BY <1>1, <2>2, <3>1, <4>1, FS_CardinalityType
    <3> HIDE DEF Both, r
    <3> QED BY <2>2, <3>3, <3>4, <3>6, <3>7
  <2> QED BY <2>3, <2>4
<1>4. SumFunctionOnSet(f, S) = Cardinality(Both(S))
  BY <1>3
<1> HIDE DEF Both
<1> QED BY <1>2, <1>4
=============================================================================
