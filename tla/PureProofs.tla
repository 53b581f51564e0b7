------------------------------ MODULE PureProofs ------------------------------
(***************************************************************************)
(* What the pure functions compute, for every input: the contract decodes  *)
(* what ethers encodes, its two readers of a digit agree, it reads an      *)
(* address back from a description in whatever case it is written, and the *)
(* block ranges of a query cover every block once.  Before them the facts  *)
(* about sums, and after them those about selections, that the other       *)
(* proofs cite.  Induction over a finite set, or over the natural numbers, *)
(* takes the property as the set of the subsets, or numbers, that have it. *)
(***************************************************************************)
EXTENDS ContractStrings, EventRanges, Lists, Functions, FiniteSetTheorems, WellFoundedInduction, TLAPS

\* Induction for a set of numbers.
LEMMA SetInduction ==
    ASSUME NEW S, 0 \in S, \A n \in Nat : n \in S => n + 1 \in S
    PROVE  Nat \subseteq S
<1> DEFINE T == Nat \ S
           R == OpToRel(<, Nat)
<1>1. IsWellFoundedOn(R, Nat)
  BY NatLessThanWellFounded
<1>2. \A x, y \in Nat : x < y => <<x, y>> \in R
  BY DEF OpToRel
<1> HIDE DEF R
<1> SUFFICES ASSUME T # {} PROVE FALSE
  OBVIOUS
<1>3. T \subseteq Nat
  OBVIOUS
<1> HIDE DEF T
<1>4. PICK x \in T : \A y \in T : ~(<<y, x>> \in R)
  BY <1>1, <1>3, WFMin
<1>5. x \in Nat /\ x # 0 /\ x - 1 \in Nat /\ x - 1 + 1 = x /\ x - 1 < x
  BY <1>4 DEF T
<1>6. x - 1 \notin T
  BY <1>4, <1>5, <1>2, <1>3
<1> QED BY <1>5, <1>6, <1>4 DEF T

\* Induction over the subsets of a finite set: what holds of a set if it holds of it
\* without any one of its elements holds of all.
LEMMA SubsetInduction ==
    ASSUME NEW D, IsFiniteSet(D), NEW Good,
           {} \in Good,
           \A s \in SUBSET D : s # {} /\ (\A x \in s : s \ {x} \in Good) => s \in Good
    PROVE  SUBSET D \subseteq Good
<1> DEFINE N == {n \in Nat : \A s \in SUBSET D : Cardinality(s) = n => s \in Good}
<1>1. \A s \in SUBSET D : IsFiniteSet(s) /\ Cardinality(s) \in Nat
  BY FS_Subset, FS_CardinalityType
<1>2. 0 \in N
  BY <1>1, FS_EmptySet
<1>3. ASSUME NEW n \in Nat, n \in N PROVE n + 1 \in N
  <2> SUFFICES ASSUME NEW s \in SUBSET D, Cardinality(s) = n + 1
               PROVE  s \in Good
    OBVIOUS
  <2>1. s # {}
    BY FS_EmptySet
  <2>2. ASSUME NEW x \in s PROVE s \ {x} \in Good
    <3>1. Cardinality(s \ {x}) = n
      BY <1>1, FS_RemoveElement
    <3> QED BY <1>3, <3>1
  <2> QED BY <2>1, <2>2
<1> HIDE DEF N
<1>4. Nat \subseteq N
  BY <1>2, <1>3, SetInduction
<1> QED BY <1>1, <1>4 DEF N

\* A sum of the values of w over the subsets of D.
IsSum(sum, w, D) ==
    /\ sum[{}] = 0
    /\ \A s \in SUBSET D : \A x \in s : sum[s] = w[x] + sum[s \ {x}]

Iter(g, w, D) ==
    g = [s \in SUBSET D |-> IF s = {} THEN 0
                            ELSE LET x == CHOOSE x \in s : TRUE IN w[x] + g[s \ {x}]]

\* The recursion of MapThenFoldSet has a solution.
LEMMA IterExists ==
    ASSUME NEW D, IsFiniteSet(D), NEW w, \A x \in D : w[x] \in Int
    PROVE  \E g : Iter(g, w, D)
<1> DEFINE pick(s) == CHOOSE x \in s : TRUE
           Step(g, s) == IF s = {} THEN 0 ELSE w[pick(s)] + g[s \ {pick(s)}]
           N == {n \in Nat : \E g \in [SUBSET D -> Int] :
                    \A s \in SUBSET D : Cardinality(s) <= n => g[s] = Step(g, s)}
<1>1. \A s \in SUBSET D : IsFiniteSet(s) /\ Cardinality(s) \in Nat
  BY FS_Subset, FS_CardinalityType
<1>2. 0 \in N
  <2> DEFINE g == [s \in SUBSET D |-> 0]
  <2>1. g \in [SUBSET D -> Int]
    OBVIOUS
  <2>2. \A s \in SUBSET D : Cardinality(s) <= 0 => s = {}
    BY <1>1, FS_EmptySet
  <2> QED BY <2>1, <2>2
<1>3. ASSUME NEW n \in Nat, n \in N PROVE n + 1 \in N
  <2>1. PICK g \in [SUBSET D -> Int] :
             \A s \in SUBSET D : Cardinality(s) <= n => g[s] = Step(g, s)
    BY <1>3
  <2> DEFINE h == [s \in SUBSET D |-> IF Cardinality(s) <= n THEN g[s] ELSE Step(g, s)]
  <2>2. \A s \in SUBSET D : s # {} => pick(s) \in s /\ s \ {pick(s)} \in SUBSET D
    OBVIOUS
  <2>3. \A s \in SUBSET D : Step(g, s) \in Int
    BY <2>2
  <2>4. h \in [SUBSET D -> Int]
    BY <2>3
  <2>5. ASSUME NEW s \in SUBSET D, Cardinality(s) <= n + 1
        PROVE  h[s] = Step(h, s)
    <3>1. h[s] = Step(g, s)
      BY <2>1
    <3>2. CASE s = {}
      BY <3>1, <3>2
    <3>3. CASE s # {}
      <4>1. Cardinality(s \ {pick(s)}) <= n
        <5>1. /\ pick(s) \in s /\ IsFiniteSet(s) /\ Cardinality(s) \in Nat
              /\ Cardinality(s) <= n + 1
          BY <3>3, <2>2, <2>5, <1>1
        <5> HIDE DEF pick
        <5>2. Cardinality(s \ {pick(s)}) = Cardinality(s) - 1
          BY <5>1, FS_RemoveElement
        <5> QED BY <5>1, <5>2
      <4>2. h[s \ {pick(s)}] = g[s \ {pick(s)}]
        BY <4>1, <2>2, <3>3
      <4> QED BY <3>1, <3>3, <4>2
    <3> QED BY <3>2, <3>3
  <2> HIDE DEF h, Step
  <2> QED BY <2>4, <2>5
<1> HIDE DEF N
<1>4. Nat \subseteq N
  BY <1>2, <1>3, SetInduction
<1>5. Cardinality(D) \in N /\ Cardinality(D) \in Nat
  BY <1>1, <1>4
<1>6. PICK g \in [SUBSET D -> Int] :
          \A s \in SUBSET D : Cardinality(s) <= Cardinality(D) => g[s] = Step(g, s)
  BY <1>5 DEF N
<1>7. \A s \in SUBSET D : g[s] = Step(g, s)
  BY <1>6, <1>1, FS_Subset
<1>8. g = [s \in SUBSET D |-> Step(g, s)]
  <2> HIDE DEF Step
  <2> QED BY <1>7
<1> QED BY <1>8 DEF Iter

\* Whatever element it takes first, it adds up all of them.
LEMMA IterIsSum ==
    ASSUME NEW D, IsFiniteSet(D), NEW w, \A x \in D : w[x] \in Int,
           NEW g, Iter(g, w, D)
    PROVE  g \in [SUBSET D -> Int] /\ IsSum(g, w, D)
<1> DEFINE pick(s) == CHOOSE x \in s : TRUE
           Typed == {s \in SUBSET D : g[s] \in Int}
           Good == {s \in SUBSET D : \A x \in s : g[s] = w[x] + g[s \ {x}]}
<1>1. DOMAIN g = SUBSET D /\ g = [s \in SUBSET D |-> g[s]]
  BY DEF Iter
<1>2. g[{}] = 0
  BY DEF Iter
<1>3. \A s \in SUBSET D : s # {} => pick(s) \in s /\ g[s] = w[pick(s)] + g[s \ {pick(s)}]
  BY DEF Iter
<1> HIDE DEF pick
<1>4. \A s \in SUBSET D : g[s] \in Int
  <2>1. {} \in Typed
    BY <1>2
  <2>2. \A s \in SUBSET D : s # {} /\ (\A x \in s : s \ {x} \in Typed) => s \in Typed
    <3> TAKE s \in SUBSET D
    <3> HAVE s # {} /\ \A x \in s : s \ {x} \in Typed
    <3>1. pick(s) \in s /\ g[s] = w[pick(s)] + g[s \ {pick(s)}]
      BY <1>3
    <3>2. g[s \ {pick(s)}] \in Int /\ w[pick(s)] \in Int
      BY <3>1
    <3> QED BY <3>1, <3>2
  <2> HIDE DEF Typed
  <2>3. SUBSET D \subseteq Typed
    BY <2>1, <2>2, SubsetInduction
  <2> QED BY <2>3 DEF Typed
<1>5. ASSUME NEW s \in SUBSET D, s # {}, \A x \in s : s \ {x} \in Good
      PROVE  s \in Good
  <2> DEFINE y == pick(s)
  <2>1. y \in s /\ g[s] = w[y] + g[s \ {y}]
    BY <1>3, <1>5
  <2> HIDE DEF y
  <2>2. ASSUME NEW x \in s, x # y PROVE g[s] = w[x] + g[s \ {x}]
    <3> DEFINE rest == (s \ {x}) \ {y}
    <3>1. /\ x \in s \ {y} /\ y \in s \ {x} /\ (s \ {y}) \ {x} = rest
          /\ rest \in SUBSET D
      BY <2>1, <2>2
    <3>2. g[s \ {y}] = w[x] + g[rest]
      BY <3>1, <2>1, <1>5
    <3>3. g[s \ {x}] = w[y] + g[rest]
      BY <3>1, <1>5
    <3>4. g[rest] \in Int /\ w[x] \in Int /\ w[y] \in Int
      BY <3>1, <1>4, <2>1
    <3> HIDE DEF rest
    <3> QED BY <2>1, <3>2, <3>3, <3>4
  <2> QED BY <2>1, <2>2
<1> HIDE DEF Good
<1>6. {} \in Good
  BY DEF Good
<1>7. SUBSET D \subseteq Good
  BY <1>5, <1>6, SubsetInduction
<1> QED BY <1>1, <1>2, <1>4, <1>7 DEF IsSum, Good

\* The sum of a set depends on the values of its elements only.
LEMMA SumsAgree ==
    ASSUME NEW D, IsFiniteSet(D), NEW w, NEW v, \A x \in D : w[x] = v[x],
           NEW g, IsSum(g, w, D), NEW E, D \subseteq E, NEW h, IsSum(h, v, E)
    PROVE  \A s \in SUBSET D : g[s] = h[s]
<1> DEFINE Good == {s \in SUBSET D : g[s] = h[s]}
<1>1. {} \in Good
  BY DEF IsSum
<1>2. ASSUME NEW s \in SUBSET D, s # {}, \A x \in s : s \ {x} \in Good
      PROVE  s \in Good
  <2>1. PICK x \in s : TRUE
    BY <1>2
  <2>2. g[s] = w[x] + g[s \ {x}] /\ h[s] = v[x] + h[s \ {x}]
    BY DEF IsSum
  <2> QED BY <1>2, <2>2
<1> HIDE DEF Good
<1>3. SUBSET D \subseteq Good
  BY <1>1, <1>2, SubsetInduction
<1> QED BY <1>3 DEF Good

\* SumFunctionOnSet as a sum.
LEMMA SumIsIter ==
    ASSUME NEW D, IsFiniteSet(D), NEW w, \A x \in D : w[x] \in Int
    PROVE  \E g : Iter(g, w, D) /\ SumFunctionOnSet(w, D) = g[D]
<1> DEFINE g == CHOOSE g : Iter(g, w, D)
<1>1. Iter(g, w, D)
  BY IterExists
<1>2. SumFunctionOnSet(w, D) = g[D]
  BY DEF SumFunctionOnSet, FoldFunctionOnSet, MapThenFoldSet, Iter
<1> QED BY <1>1, <1>2

LEMMA SumOfSubset ==
    ASSUME NEW D, IsFiniteSet(D), NEW w, \A x \in D : w[x] \in Int,
           NEW v, \A x \in D : v[x] = w[x],
           NEW sum, IsSum(sum, w, D), NEW s \in SUBSET D
    PROVE  SumFunctionOnSet(v, s) = sum[s]
<1>1. IsFiniteSet(s) /\ \A x \in s : v[x] \in Int
  BY FS_Subset
<1>2. PICK g : Iter(g, v, s) /\ SumFunctionOnSet(v, s) = g[s]
  BY <1>1, SumIsIter
<1>3. IsSum(g, v, s)
  BY <1>1, <1>2, IterIsSum
<1> QED BY <1>1, <1>2, <1>3, SumsAgree

LEMMA SumExists ==
    ASSUME NEW D, IsFiniteSet(D), NEW w, \A x \in D : w[x] \in Int
    PROVE  \E sum \in [SUBSET D -> Int] : IsSum(sum, w, D)
BY IterExists, IterIsSum

\* The sum over no element is 0.
THEOREM SumOfNone ==
    ASSUME NEW w
    PROVE  SumFunctionOnSet(w, {}) = 0
BY FS_EmptySet, SumIsIter DEF Iter

\* One more element adds its value.
THEOREM SumOfMore ==
    ASSUME NEW D, IsFiniteSet(D), NEW w, \A x \in D : w[x] \in Int, NEW y, y \notin D,
           w[y] \in Int
    PROVE  /\ SumFunctionOnSet(w, D) \in Int
           /\ SumFunctionOnSet(w, D \cup {y}) = w[y] + SumFunctionOnSet(w, D)
<1> DEFINE E == D \cup {y}
<1>1. IsFiniteSet(E) /\ \A x \in E : w[x] \in Int
  BY FS_AddElement
<1>2. E \ {y} = D /\ D \in SUBSET E /\ E \in SUBSET E /\ y \in E
  OBVIOUS
<1> HIDE DEF E
<1>3. PICK sum \in [SUBSET E -> Int] : IsSum(sum, w, E)
  BY <1>1, SumExists
<1>4. SumFunctionOnSet(w, D) = sum[D] /\ SumFunctionOnSet(w, E) = sum[E]
  BY <1>1, <1>2, <1>3, SumOfSubset
<1>5. sum[E] = w[y] + sum[D]
  BY <1>2, <1>3 DEF IsSum
<1> QED BY <1>2, <1>3, <1>4, <1>5 DEF E

\* The sum depends on the values of the elements that are added up only.
THEOREM SumOfEqual ==
    ASSUME NEW D, IsFiniteSet(D), NEW w, \A x \in D : w[x] \in Int,
           NEW v, \A x \in D : v[x] = w[x]
    PROVE  SumFunctionOnSet(v, D) = SumFunctionOnSet(w, D)
<1>1. PICK sum \in [SUBSET D -> Int] : IsSum(sum, w, D)
  BY SumExists
<1> QED BY <1>1, SumOfSubset

\* A sum of integers is one, and so is a sum of natural numbers.
THEOREM SumType ==
    ASSUME NEW D, IsFiniteSet(D), NEW w
    PROVE  /\ (\A x \in D : w[x] \in Int) => SumFunctionOnSet(w, D) \in Int
           /\ (\A x \in D : w[x] \in Nat) => SumFunctionOnSet(w, D) \in Nat
<1>1. ASSUME \A x \in D : w[x] \in Int
      PROVE  \E sum \in [SUBSET D -> Int] : IsSum(sum, w, D) /\ SumFunctionOnSet(w, D) = sum[D]
  <2>1. PICK sum \in [SUBSET D -> Int] : IsSum(sum, w, D)
    BY <1>1, SumExists
  <2>2. SumFunctionOnSet(w, D) = sum[D]
    BY <1>1, <2>1, SumOfSubset
  <2> QED BY <2>1, <2>2
<1>2. ASSUME \A x \in D : w[x] \in Nat PROVE SumFunctionOnSet(w, D) \in Nat
  <2>1. PICK sum \in [SUBSET D -> Int] : IsSum(sum, w, D) /\ SumFunctionOnSet(w, D) = sum[D]
    <3>1. \A x \in D : w[x] \in Int
      BY <1>2
    <3> QED BY <1>1, <3>1
  <2> DEFINE Good == {s \in SUBSET D : sum[s] \in Nat}
  <2>2. {} \in Good
    BY <2>1 DEF IsSum
  <2>3. ASSUME NEW s \in SUBSET D, s # {}, \A x \in s : s \ {x} \in Good
        PROVE  s \in Good
    <3>1. PICK x \in s : TRUE
      BY <2>3
    <3>2. sum[s] = w[x] + sum[s \ {x}]
      BY <2>1 DEF IsSum
    <3> QED BY <1>2, <2>3, <3>2
  <2> HIDE DEF Good
  <2>4. SUBSET D \subseteq Good
    BY <2>2, <2>3, SubsetInduction
  <2> QED BY <2>1, <2>4 DEF Good
<1> QED BY <1>1, <1>2

\* A change of one value changes the sum by as much.
THEOREM SumChanged ==
    ASSUME NEW D, IsFiniteSet(D), NEW y \in D,
           NEW w, \A x \in D : w[x] \in Int,
           NEW v, \A x \in D \ {y} : v[x] = w[x], v[y] \in Int
    PROVE  SumFunctionOnSet(v, D) = SumFunctionOnSet(w, D) - w[y] + v[y]
<1> DEFINE E == D \ {y}
<1>1. /\ IsFiniteSet(E) /\ E \cup {y} = D /\ y \notin E
      /\ \A x \in E : w[x] \in Int /\ v[x] = w[x] /\ v[x] \in Int
  BY FS_RemoveElement
<1> HIDE DEF E
<1>2. /\ SumFunctionOnSet(w, E) \in Int
      /\ SumFunctionOnSet(w, D) = w[y] + SumFunctionOnSet(w, E)
  BY <1>1, SumOfMore
<1>3. SumFunctionOnSet(v, D) = v[y] + SumFunctionOnSet(v, E)
  BY <1>1, SumOfMore
<1>4. SumFunctionOnSet(v, E) = SumFunctionOnSet(w, E)
  BY <1>1, SumOfEqual
<1> QED BY <1>2, <1>3, <1>4

\* Two sets that share no element add up.
THEOREM SumOfParts ==
    ASSUME NEW D, IsFiniteSet(D), NEW w, \A x \in D : w[x] \in Int,
           NEW A \in SUBSET D, NEW B \in SUBSET D, A \cap B = {}
    PROVE  SumFunctionOnSet(w, A \cup B) = SumFunctionOnSet(w, A) + SumFunctionOnSet(w, B)
<1>1. PICK sum \in [SUBSET D -> Int] : IsSum(sum, w, D)
  BY SumExists
<1>2. \A s \in SUBSET D : SumFunctionOnSet(w, s) = sum[s]
  BY <1>1, SumOfSubset
<1> DEFINE Good == {s \in SUBSET B : sum[A \cup s] = sum[A] + sum[s]}
<1>3. {} \in Good
  <2>1. A \cup {} = A /\ sum[A] \in Int /\ sum[{}] = 0
    BY <1>1 DEF IsSum
  <2> QED BY <2>1
<1>4. ASSUME NEW s \in SUBSET B, s # {}, \A x \in s : s \ {x} \in Good
      PROVE  s \in Good
  <2>1. PICK x \in s : TRUE
    BY <1>4
  <2>2. /\ A \cup s \in SUBSET D /\ s \in SUBSET D /\ x \in A \cup s
        /\ (A \cup s) \ {x} = A \cup (s \ {x})
        /\ s \ {x} \in SUBSET D
    BY <2>1
  <2>3. /\ sum[s] = w[x] + sum[s \ {x}]
        /\ sum[A \cup s] = w[x] + sum[A \cup (s \ {x})]
    <3> HIDE DEF Good
    <3>1. /\ sum[s] = w[x] + sum[s \ {x}]
          /\ sum[A \cup s] = w[x] + sum[(A \cup s) \ {x}]
      BY <1>1, <2>2 DEF IsSum
    <3> QED BY <2>2, <3>1, Zenon
  <2>4. sum[A \cup (s \ {x})] = sum[A] + sum[s \ {x}]
    BY <1>4
  <2>5. w[x] \in Int /\ sum[A] \in Int /\ sum[s \ {x}] \in Int
    BY <1>1, <2>2
  <2>6. sum[A \cup s] = sum[A] + sum[s]
    BY <2>2, <2>3, <2>4, <2>5
  <2> QED BY <2>6
<1> HIDE DEF Good
<1>5. IsFiniteSet(B)
  BY FS_Subset
<1>6. SUBSET B \subseteq Good
  BY <1>3, <1>4, <1>5, SubsetInduction
<1> QED BY <1>2, <1>6 DEF Good

\* h leads each element of K to an image of its own, whose value w gives it; the
\* rest of D has the value 0.
CountedAs(w, D, K, h, v, images) ==
    /\ K \in SUBSET D
    /\ \A x, y \in K : h[x] = h[y] => x = y
    /\ \A x \in K : v[h[x]] \in Int
    /\ \A x \in D : w[x] = IF x \in K THEN v[h[x]] ELSE 0
    /\ \A y : y \in images <=> \E x \in K : y = h[x]

\* Counting the elements adds up their images.
THEOREM SumOfImages ==
    ASSUME NEW D, IsFiniteSet(D), NEW K, NEW h, NEW v, NEW w, NEW images,
           CountedAs(w, D, K, h, v, images)
    PROVE  SumFunctionOnSet(w, D) = SumFunctionOnSet(v, images)
<1> USE DEF CountedAs
<1> DEFINE Image(s) == {h[x] : x \in s \cap K}
           Good == {s \in SUBSET D : /\ IsFiniteSet(Image(s))
                                     /\ SumFunctionOnSet(w, s) = SumFunctionOnSet(v, Image(s))}
<1>1. {} \in Good
  <2>1. Image({}) = {}
    OBVIOUS
  <2> QED BY <2>1, FS_EmptySet, SumOfNone
<1>2. ASSUME NEW s \in SUBSET D, s # {}, \A x \in s : s \ {x} \in Good
      PROVE  s \in Good
  <2>1. PICK x \in s : TRUE
    BY <1>2
  <2> DEFINE rest == s \ {x}
  <2>2. /\ IsFiniteSet(rest) /\ rest \cup {x} = s /\ x \notin rest
        /\ \A y \in rest : w[y] \in Int
        /\ w[x] \in Int
    BY <2>1, FS_Subset
  <2>3. /\ IsFiniteSet(Image(rest))
        /\ SumFunctionOnSet(w, rest) = SumFunctionOnSet(v, Image(rest))
        /\ \A y \in Image(rest) : v[y] \in Int
    BY <1>2
  <2> HIDE DEF rest
  <2>4. /\ SumFunctionOnSet(w, rest) \in Int
        /\ SumFunctionOnSet(w, s) = w[x] + SumFunctionOnSet(w, rest)
    BY <2>2, SumOfMore
  <2>5. CASE x \notin K
    <3>1. Image(s) = Image(rest) /\ w[x] = 0
      BY <2>1, <2>2, <2>5
    <3> HIDE DEF Image
    <3> QED BY <2>3, <2>4, <3>1
  <2>6. CASE x \in K
    <3>1. /\ Image(s) = Image(rest) \cup {h[x]} /\ w[x] = v[h[x]]
          /\ h[x] \notin Image(rest) /\ v[h[x]] \in Int
      BY <2>1, <2>2, <2>6
    <3> HIDE DEF Image
    <3>2. SumFunctionOnSet(v, Image(s)) = v[h[x]] + SumFunctionOnSet(v, Image(rest))
      BY <2>3, <3>1, SumOfMore
    <3>3. IsFiniteSet(Image(s))
      BY <2>3, <3>1, FS_AddElement
    <3> QED BY <2>3, <2>4, <3>1, <3>2, <3>3
  <2> QED BY <2>5, <2>6
<1> HIDE DEF Good
<1>3. SUBSET D \subseteq Good
  BY <1>1, <1>2, SubsetInduction
<1>4. Image(D) = images
  OBVIOUS
<1> QED BY <1>3, <1>4 DEF Good

-----------------------------------------------------------------------------
\* The contract has two functions that read a hexadecimal digit, one that reports a
\* failure and one that reverts: they take the same characters to the same values.
THEOREM HexDecodersAgree ==
    \A c \in Byte :
        /\ TryHexToUint(c).isHex <=> c \in HexChars
        /\ c \in HexChars => /\ TryHexToUint(c).value = CharToUint8(c)
                             /\ CharToUint8(c) \in 0 .. 15
<1> SUFFICES ASSUME NEW c \in Byte
             PROVE  /\ TryHexToUint(c).isHex <=> c \in HexChars
                    /\ c \in HexChars => /\ TryHexToUint(c).value = CharToUint8(c)
                                         /\ CharToUint8(c) \in 0 .. 15
  OBVIOUS
<1>1. CASE c \in 48 .. 57
  BY <1>1 DEF TryHexToUint, CharToUint8, HexChars
<1>2. CASE c \in 65 .. 70
  BY <1>2 DEF TryHexToUint, CharToUint8, HexChars
<1>3. CASE c \in 97 .. 102
  BY <1>3 DEF TryHexToUint, CharToUint8, HexChars
<1>4. CASE c \notin 48 .. 57 /\ c \notin 65 .. 70 /\ c \notin 97 .. 102
  BY <1>4 DEF TryHexToUint, HexChars
<1> QED
  BY <1>1, <1>2, <1>3, <1>4

\* A digit that ethers writes is read back.
LEMMA DigitRead ==
    ASSUME NEW v \in 0 .. 15
    PROVE  HexDigit(v) \in HexChars /\ CharToUint8(HexDigit(v)) = v
<1>1. CASE v < 10
  BY <1>1 DEF HexDigit, HexChars, CharToUint8
<1>2. CASE ~(v < 10)
  BY <1>2 DEF HexDigit, HexChars, CharToUint8
<1> QED
  BY <1>1, <1>2

\* A report that the container encodes is the report that lilypadFulfilled decodes,
\* whatever its bytes: hexStrToBytes accepts it and returns them.
THEOREM ReportDecodes ==
    \A b \in Seq(Byte) :
        Decodable(Hexlify(b)) /\ HexStrToBytes(Hexlify(b)) = b
<1> TAKE b \in Seq(Byte)
<1> DEFINE s == Hexlify(b)
           n == Len(b)
<1>1. n \in Nat /\ b \in [1 .. n -> Byte]
  OBVIOUS
<1>2. /\ Len(s) = 2 + 2 * n /\ DOMAIN s = 1 .. 2 + 2 * n
      /\ s[1] = 48 /\ s[2] = 120
  BY <1>1 DEF Hexlify
<1>3. \A k \in 1 .. n : /\ s[2 * k + 1] = HexDigit(b[k] \div 16)
                        /\ s[2 * k + 2] = HexDigit(b[k] % 16)
                        /\ b[k] \in Byte
  <2> TAKE k \in 1 .. n
  <2>1. /\ 2 * k + 1 \in 1 .. 2 + 2 * n /\ 2 * k + 2 \in 1 .. 2 + 2 * n
        /\ (2 * k + 1) % 2 = 1 /\ (2 * k + 2) % 2 # 1
        /\ (2 * k + 1 - 1) \div 2 = k /\ (2 * k + 2 - 2) \div 2 = k
        /\ 2 * k + 1 > 2 /\ 2 * k + 2 > 2
    BY <1>1
  <2>2. s[2 * k + 1] = HexDigit(b[k] \div 16)
    BY <2>1, <1>1 DEF Hexlify
  <2>3. s[2 * k + 2] = HexDigit(b[k] % 16)
    BY <2>1, <1>1 DEF Hexlify
  <2> QED
    BY <2>2, <2>3, <1>1
<1> HIDE DEF s, n
<1>4. Offset(s) = 2
  BY <1>1, <1>2 DEF Offset, Prefixed
<1>5. \A x \in Byte : /\ x \div 16 \in 0 .. 15 /\ x % 16 \in 0 .. 15
                      /\ 16 * (x \div 16) + (x % 16) = x
  <2> SUFFICES ASSUME NEW x \in 0 .. 255
               PROVE  /\ x \div 16 \in 0 .. 15 /\ x % 16 \in 0 .. 15
                      /\ 16 * (x \div 16) + (x % 16) = x
    BY DEF Byte
  <2>1. x \div 16 \in Int /\ x % 16 \in 0 .. 15
    OBVIOUS
  <2>2. 16 * (x \div 16) + (x % 16) = x
    OBVIOUS
  <2> QED
    BY <2>1, <2>2
<1>6. \A k \in 1 .. n : /\ s[2 * k + 1] \in HexChars /\ s[2 * k + 2] \in HexChars
                        /\ 16 * CharToUint8(s[2 * k + 1]) + CharToUint8(s[2 * k + 2]) = b[k]
  <2> TAKE k \in 1 .. n
  <2> DEFINE upper == b[k] \div 16
             lower == b[k] % 16
  <2>1. /\ s[2 * k + 1] = HexDigit(upper) /\ s[2 * k + 2] = HexDigit(lower)
        /\ upper \in 0 .. 15 /\ lower \in 0 .. 15 /\ 16 * upper + lower = b[k]
    BY <1>3, <1>5
  <2> HIDE DEF upper, lower
  <2> QED
    BY <2>1, DigitRead
<1>7. Decodable(s)
  <2>1. (2 + 2 * n - 2) % 2 = 0
    BY <1>1
  <2>2. ASSUME NEW i \in 3 .. 2 + 2 * n PROVE s[i] \in HexChars
    <3>1. CASE i % 2 = 1
      <4>1. (i - 1) \div 2 \in 1 .. n /\ i = 2 * ((i - 1) \div 2) + 1
        BY <3>1, <1>1
      <4> QED
        BY <4>1, <1>6
    <3>2. CASE i % 2 = 0
      <4>1. (i - 2) \div 2 \in 1 .. n /\ i = 2 * ((i - 2) \div 2) + 2
        BY <3>2, <1>1
      <4> QED
        BY <4>1, <1>6
    <3> QED
      BY <3>1, <3>2, <1>1
  <2>3. \A i \in 2 + 1 .. Len(s) : s[i] \in HexChars
    BY <2>2, <1>2
  <2>4. (Len(s) - Offset(s)) % 2 = 0
    <3>1. Len(s) - Offset(s) = 2 + 2 * n - 2
      BY <1>1, <1>2, <1>4
    <3> QED
      BY <3>1, <2>1
  <2>5. \A i \in Offset(s) + 1 .. Len(s) : s[i] \in HexChars
    BY <2>3, <1>4
  <2> QED
    BY <2>4, <2>5 DEF Decodable
<1>8. HexStrToBytes(s) = b
  <2>1. (2 + 2 * n - 2) \div 2 = n
    BY <1>1
  <2>2. HexStrToBytes(s) =
          [k \in 1 .. n |-> 16 * CharToUint8(s[2 * k + 1]) + CharToUint8(s[2 * k + 2])]
    <3>1. \A k \in 1 .. n : 2 + 2 * k - 1 = 2 * k + 1 /\ 2 + 2 * k = 2 * k + 2
      BY <1>1
    <3>2. (Len(s) - Offset(s)) \div 2 = n
      <4>1. Len(s) - Offset(s) = 2 + 2 * n - 2
        BY <1>1, <1>2, <1>4
      <4> QED
        BY <4>1, <2>1
    <3>3. HexStrToBytes(s) =
            [k \in 1 .. n |-> 16 * CharToUint8(s[2 + 2 * k - 1]) + CharToUint8(s[2 + 2 * k])]
      BY <3>2, <1>4 DEF HexStrToBytes
    <3> QED
      BY <3>1, <3>3
  <2>3. HexStrToBytes(s) = [k \in 1 .. n |-> b[k]]
    BY <2>2, <1>6
  <2> QED
    BY <2>3, <1>1
<1> QED
  BY <1>7, <1>8 DEF s

-----------------------------------------------------------------------------
\* A function defined by recursion over 0 .. m exists, with the values it should have.
Recursion(f, base, step, m) ==
    f = [n \in 0 .. m |-> IF n = 0 THEN base ELSE step[<<n, f[n - 1]>>]]

LEMMA RecursionExists ==
    ASSUME NEW S, NEW base \in S, NEW step \in [Nat \X S -> S], NEW m \in Nat
    PROVE  \E f \in [0 .. m -> S] : Recursion(f, base, step, m)
<1> DEFINE At(f, n) == IF n = 0 THEN base ELSE step[<<n, f[n - 1]>>]
           N == {k \in Nat : \E f \in [0 .. k -> S] : \A n \in 0 .. k : f[n] = At(f, n)}
<1>1. 0 \in N
  <2> DEFINE f == [n \in 0 .. 0 |-> base]
  <2>1. f \in [0 .. 0 -> S] /\ \A n \in 0 .. 0 : f[n] = At(f, n)
    OBVIOUS
  <2> QED BY <2>1
<1>2. ASSUME NEW k \in Nat, k \in N PROVE k + 1 \in N
  <2>1. PICK g \in [0 .. k -> S] : \A n \in 0 .. k : g[n] = At(g, n)
    BY <1>2
  <2> DEFINE next == step[<<k + 1, g[k]>>]
             h == [n \in 0 .. k + 1 |-> IF n <= k THEN g[n] ELSE next]
  <2>2. next \in S
    OBVIOUS
  <2>3. h \in [0 .. k + 1 -> S] /\ h[k + 1] = next /\ \A n \in 0 .. k : h[n] = g[n]
    BY <2>2
  <2> HIDE DEF h
  <2>4. ASSUME NEW n \in 0 .. k + 1 PROVE h[n] = At(h, n)
    <3>1. CASE n = k + 1
      <4>1. h[n - 1] = g[k] /\ n # 0
        BY <2>3, <3>1
      <4> QED BY <2>3, <3>1, <4>1
    <3>2. CASE n \in 0 .. k
      <4>1. n # 0 => n - 1 \in 0 .. k
        BY <3>2
      <4> QED BY <2>1, <2>3, <3>2, <4>1
    <3> QED BY <3>1, <3>2
  <2> HIDE DEF At
  <2> QED BY <2>3, <2>4
<1> HIDE DEF N
<1>3. m \in N
  BY <1>1, <1>2, SetInduction
<1>4. PICK f \in [0 .. m -> S] : \A n \in 0 .. m : f[n] = At(f, n)
  BY <1>3 DEF N
<1>5. f = [n \in 0 .. m |-> At(f, n)]
  <2> HIDE DEF At
  <2> QED BY <1>4
<1> QED BY <1>5 DEF Recursion

\* The number without its last digits, one after the other.
LEMMA ShiftedFacts ==
    ASSUME NEW x \in Nat, NEW digits \in Nat
    PROVE  LET shifted == Shifted(x, digits) IN
           /\ shifted \in [0 .. digits -> Nat]
           /\ shifted[0] = x
           /\ \A k \in 1 .. digits : shifted[k] = shifted[k - 1] \div 16
<1> DEFINE step == [q \in Nat \X Nat |-> q[2] \div 16]
           Halved(f) == f = [k \in 0 .. digits |-> IF k = 0 THEN x ELSE f[k - 1] \div 16]
           shifted == CHOOSE f : Halved(f)
<1>1. \A q \in Nat \X Nat : q[2] \div 16 \in Nat
  OBVIOUS
<1>2. step \in [Nat \X Nat -> Nat]
  BY <1>1
<1>3. PICK f \in [0 .. digits -> Nat] : Recursion(f, x, step, digits)
  <2> HIDE DEF step
  <2> QED BY <1>2, RecursionExists
<1>4. Halved(f)
  <2>1. \A k \in 0 .. digits : k # 0 => step[<<k, f[k - 1]>>] = f[k - 1] \div 16
    OBVIOUS
  <2> HIDE DEF step
  <2> QED BY <1>3, <2>1 DEF Recursion
<1>5. Shifted(x, digits) = shifted
  BY DEF Shifted
<1>6. Halved(shifted)
  <2> HIDE DEF Halved
  <2> QED BY <1>4
<1> HIDE DEF shifted
<1>7. \A k \in 0 .. digits : shifted[k] = IF k = 0 THEN x ELSE shifted[k - 1] \div 16
  BY <1>6, Zenon
<1>11. shifted = [k \in 0 .. digits |-> shifted[k]]
  BY <1>6, <1>7, Zenon
<1> DEFINE N == {k \in Nat : k <= digits => shifted[k] \in Nat}
<1>8. digits \in N /\ Nat \subseteq N
  <2>1. 0 \in N
    BY <1>7
  <2>2. ASSUME NEW k \in Nat, k \in N PROVE k + 1 \in N
    <3>1. k + 1 <= digits => shifted[k + 1] = shifted[k] \div 16 /\ shifted[k] \in Nat
      BY <1>7, <2>2
    <3>2. \A v \in Nat : v \div 16 \in Nat
      OBVIOUS
    <3> QED BY <3>1, <3>2
  <2> HIDE DEF N
  <2>3. Nat \subseteq N
    BY <2>1, <2>2, SetInduction
  <2> QED BY <2>3
<1>9. \A k \in 0 .. digits : shifted[k] \in Nat
  BY <1>8
<1>10. shifted \in [0 .. digits -> Nat]
  BY <1>9, <1>11
<1>12. shifted[0] = x /\ \A k \in 1 .. digits : shifted[k] = shifted[k - 1] \div 16
  BY <1>7
<1> QED BY <1>5, <1>10, <1>12

\* What the loop over the digits has after each of them.
LEMMA RecoveredFacts ==
    ASSUME NEW digits \in Seq(Byte)
    PROVE  \E recovered \in [0 .. Len(digits) -> Int] :
             /\ Recovered(digits) = recovered[Len(digits)]
             /\ recovered[0] = 0
             /\ \A n \in 1 .. Len(digits) :
                  recovered[n] = 16 * recovered[n - 1] + TryHexToUint(digits[n]).value
<1> DEFINE Value(n) == TryHexToUint(digits[n]).value
           values == [n \in 1 .. Len(digits) |-> Value(n)]
           step == [q \in Nat \X Int |-> 16 * q[2] +
                      (IF q[1] \in 1 .. Len(digits) THEN values[q[1]] ELSE 0)]
           Read(f) == f = [n \in 0 .. Len(digits) |->
                             IF n = 0 THEN 0 ELSE 16 * f[n - 1] + Value(n)]
           recovered == CHOOSE f : Read(f)
           m == Len(digits)
<1>1. m \in Nat /\ \A n \in 1 .. m : digits[n] \in Byte
  OBVIOUS
<1>2. \A n \in 1 .. m : Value(n) \in Int
  <2> SUFFICES ASSUME NEW n \in 1 .. m PROVE Value(n) \in Int
    OBVIOUS
  <2> DEFINE c == digits[n]
  <2>1. c \in Byte
    BY <1>1
  <2> HIDE DEF c
  <2>2. TryHexToUint(c).value \in Int
    <3>1. CASE c \in 48 .. 57
      <4>1. c \notin 65 .. 70 /\ c \notin 97 .. 102
        BY <3>1
      <4>2. TryHexToUint(c) = [isHex |-> TRUE, value |-> c - 48]
        BY <3>1, <4>1 DEF TryHexToUint
      <4> QED BY <2>1, <4>2 DEF Byte
    <3>2. CASE c \in 65 .. 70
      <4>1. c \notin 48 .. 57 /\ c \notin 97 .. 102
        BY <3>2
      <4>2. TryHexToUint(c) = [isHex |-> TRUE, value |-> c - 55]
        BY <3>2, <4>1 DEF TryHexToUint
      <4> QED BY <2>1, <4>2 DEF Byte
    <3>3. CASE c \in 97 .. 102
      <4>1. c \notin 48 .. 57 /\ c \notin 65 .. 70
        BY <3>3
      <4>2. TryHexToUint(c) = [isHex |-> TRUE, value |-> c - 87]
        BY <3>3, <4>1 DEF TryHexToUint
      <4> QED BY <2>1, <4>2 DEF Byte
    <3>4. CASE c \notin 48 .. 57 /\ c \notin 65 .. 70 /\ c \notin 97 .. 102
      <4>1. TryHexToUint(c) = [isHex |-> FALSE, value |-> 0]
        BY <3>4, Zenon DEF TryHexToUint
      <4> QED BY <4>1
    <3> QED BY <3>1, <3>2, <3>3, <3>4
  <2> QED BY <2>2 DEF c
<1>3. Recovered(digits) = recovered[m]
  BY DEF Recovered
<1> HIDE DEF Value
<1>4. step \in [Nat \X Int -> Int]
  <2>1. \A q \in Nat \X Int :
          (IF q[1] \in 1 .. Len(digits) THEN values[q[1]] ELSE 0) \in Int /\ q[2] \in Int
    BY <1>2
  <2> HIDE DEF values
  <2> QED BY <2>1
<1>5. PICK f \in [0 .. m -> Int] : Recursion(f, 0, step, m)
  <2> DEFINE zero == 0
  <2>1. zero \in Int
    OBVIOUS
  <2> HIDE DEF step, m, zero
  <2>2. \E f \in [0 .. m -> Int] : Recursion(f, zero, step, m)
    BY <1>1, <1>4, <2>1, RecursionExists
  <2> QED BY <2>2 DEF zero
<1>6. \A n \in 0 .. m : n # 0 => step[<<n, f[n - 1]>>] = 16 * f[n - 1] + Value(n)
  <2>1. ASSUME NEW n \in 1 .. m
        PROVE  step[<<n, f[n - 1]>>] = 16 * f[n - 1] + Value(n)
    <3>1. n \in Nat /\ f[n - 1] \in Int
      BY <1>1
    <3>2. values[n] = Value(n)
      OBVIOUS
    <3> HIDE DEF values
    <3> QED BY <3>1, <3>2
  <2>2. \A n \in 0 .. m : n # 0 => n \in 1 .. m
    BY <1>1
  <2> HIDE DEF step, m, values
  <2> QED BY <2>1, <2>2
<1>7. Read(f)
  <2> HIDE DEF step
  <2> QED BY <1>5, <1>6 DEF Recursion
<1>8. Read(recovered)
  <2> HIDE DEF Read
  <2> QED BY <1>7
<1> HIDE DEF recovered, step
<1>9. \A n \in 0 .. m : recovered[n] = IF n = 0 THEN 0 ELSE 16 * recovered[n - 1] + Value(n)
  BY <1>8, Zenon
<1>12. recovered = [n \in 0 .. m |-> recovered[n]]
  BY <1>8, <1>9, Zenon
<1> DEFINE N == {k \in Nat : k <= m => recovered[k] \in Int}
<1> HIDE DEF m
<1>10. \A k \in 0 .. m : recovered[k] \in Int
  <2>1. 0 \in N
    BY <1>1, <1>9
  <2>2. ASSUME NEW k \in Nat, k \in N PROVE k + 1 \in N
    <3>1. k + 1 <= m => /\ recovered[k + 1] = 16 * recovered[k] + Value(k + 1)
                        /\ recovered[k] \in Int /\ Value(k + 1) \in Int
      BY <1>1, <1>2, <1>9, <2>2
    <3> QED BY <3>1
  <2> HIDE DEF N
  <2>3. Nat \subseteq N
    BY <2>1, <2>2, SetInduction
  <2> QED BY <1>1, <2>3 DEF N
<1>11. /\ recovered \in [0 .. m -> Int] /\ recovered[0] = 0
       /\ \A n \in 1 .. m : recovered[n] = 16 * recovered[n - 1] + Value(n)
  <2>1. recovered \in [0 .. m -> Int]
    BY <1>10, <1>12
  <2>2. recovered[0] = 0 /\ \A n \in 1 .. m : recovered[n] = 16 * recovered[n - 1] + Value(n)
    BY <1>1, <1>9
  <2> QED BY <2>1, <2>2
<1> QED BY <1>3, <1>11 DEF m, Value

\* A digit in either case has the value it had when it was written in lower case.
LEMMA EitherCaseRead ==
    ASSUME NEW v \in 0 .. 15, NEW c \in Byte, ToLower(c) = HexDigit(v)
    PROVE  TryHexToUint(c).isHex /\ TryHexToUint(c).value = v
<1>1. CASE c \in 65 .. 70
  BY <1>1 DEF ToLower, HexDigit, TryHexToUint
<1>2. CASE c \notin 65 .. 70
  <2>1. c = HexDigit(v)
    BY <1>2 DEF ToLower
  <2>2. CASE v < 10
    BY <2>1, <2>2 DEF HexDigit, TryHexToUint
  <2>3. CASE ~(v < 10)
    BY <2>1, <2>3 DEF HexDigit, TryHexToUint
  <2> QED BY <2>2, <2>3
<1> QED BY <1>1, <1>2

\* An address that is written with all its digits, in either case, is the one that
\* _isValidDescriptionForProposer reads, however many digits an address has.
THEOREM SpelledIsRecovered ==
    ASSUME NEW x \in Nat, NEW s \in Seq(Byte), Fits(x, Len(s)),
           \A i \in 1 .. Len(s) : ToLower(s[i]) = Spelled(x, Len(s))[i]
    PROVE  /\ \A i \in 1 .. Len(s) : TryHexToUint(s[i]).isHex
           /\ Recovered(s) = x
<1> DEFINE m == Len(s)
           shifted == Shifted(x, m)
<1>1. m \in Nat /\ \A i \in 1 .. m : s[i] \in Byte
  OBVIOUS
<1>2. Fits(x, m) /\ \A i \in 1 .. m : ToLower(s[i]) = Spelled(x, m)[i]
  OBVIOUS
<1> HIDE DEF m
<1>3. /\ shifted \in [0 .. m -> Nat] /\ shifted[0] = x /\ shifted[m] = 0
      /\ \A k \in 1 .. m : shifted[k] = shifted[k - 1] \div 16
  BY <1>1, <1>2, ShiftedFacts DEF Fits
<1>4. \A i \in 1 .. m : ToLower(s[i]) = HexDigit(shifted[m - i] % 16)
  BY <1>2 DEF Spelled
<1> HIDE DEF shifted
<1>5. \A i \in 1 .. m : /\ TryHexToUint(s[i]).isHex
                        /\ TryHexToUint(s[i]).value = shifted[m - i] % 16
  <2> SUFFICES ASSUME NEW i \in 1 .. m
               PROVE  /\ TryHexToUint(s[i]).isHex
                      /\ TryHexToUint(s[i]).value = shifted[m - i] % 16
    OBVIOUS
  <2>1. shifted[m - i] \in Nat
    BY <1>1, <1>3
  <2>2. shifted[m - i] % 16 \in 0 .. 15
    <3>1. \A v \in Nat : v % 16 \in 0 .. 15
      OBVIOUS
    <3> QED BY <2>1, <3>1
  <2> QED BY <1>1, <1>4, <2>2, EitherCaseRead
<1>6. PICK recovered \in [0 .. m -> Int] :
        /\ Recovered(s) = recovered[m]
        /\ recovered[0] = 0
        /\ \A n \in 1 .. m : recovered[n] = 16 * recovered[n - 1] + TryHexToUint(s[n]).value
  BY RecoveredFacts DEF m
<1> DEFINE N == {n \in Nat : n <= m => recovered[n] = shifted[m - n]}
<1>7. 0 \in N
  BY <1>1, <1>3, <1>6
<1>8. ASSUME NEW n \in Nat, n \in N PROVE n + 1 \in N
  <2> SUFFICES ASSUME n + 1 <= m PROVE recovered[n + 1] = shifted[m - (n + 1)]
    OBVIOUS
  <2> DEFINE k == m - n
             rest == shifted[k - 1]
  <2>1. k \in 1 .. m /\ n + 1 \in 1 .. m /\ m - (n + 1) = k - 1 /\ n + 1 - 1 = n /\ n <= m
    BY <1>1
  <2>2. recovered[n] = shifted[k]
    BY <1>8, <2>1
  <2>3. recovered[n + 1] = 16 * recovered[n] + TryHexToUint(s[n + 1]).value
    BY <1>6, <2>1
  <2>4. TryHexToUint(s[n + 1]).value = rest % 16
    BY <1>5, <2>1
  <2>5. shifted[k] = rest \div 16 /\ rest \in Nat
    BY <1>1, <1>3, <2>1
  <2> HIDE DEF k, rest
  <2>6. 16 * (rest \div 16) + (rest % 16) = rest
    BY <2>5
  <2>7. recovered[n + 1] = rest
    BY <2>2, <2>3, <2>4, <2>5, <2>6
  <2> QED BY <2>1, <2>7 DEF rest
<1> HIDE DEF N
<1>9. m \in N
  BY <1>1, <1>7, <1>8, SetInduction
<1>10. Recovered(s) = x
  BY <1>1, <1>3, <1>6, <1>9 DEF N
<1> QED BY <1>5, <1>10 DEF m
-----------------------------------------------------------------------------
\* A slice of a sequence.
LEMMA SliceFacts ==
    ASSUME NEW T, NEW s \in Seq(T), NEW from \in Nat, NEW k \in Nat, from + k <= Len(s)
    PROVE  LET slice == SubSeq(s, from + 1, from + k) IN
           /\ slice \in Seq(T) /\ Len(slice) = k
           /\ \A i \in 1 .. k : slice[i] = s[from + i]
<1> DEFINE slice == SubSeq(s, from + 1, from + k)
<1>1. /\ s \in [1 .. Len(s) -> T] /\ Len(s) \in Nat
      /\ \A i \in 1 .. k : from + i \in 1 .. Len(s)
  OBVIOUS
<1>2. /\ slice = [i \in 1 .. k |-> s[from + i]]
      /\ slice \in Seq(T)
  BY <1>1
<1> HIDE DEF slice
<1> QED BY <1>1, <1>2

-----------------------------------------------------------------------------
\* Division with remainder, for a divisor that is not a numeral.
LEMMA Division ==
    ASSUME NEW x \in Nat, NEW y \in Nat \ {0}
    PROVE  /\ x \div y \in Nat
           /\ y * (x \div y) <= x /\ x < y * (x \div y) + y
<1>1. x \div y \in Int /\ x % y \in 0 .. y - 1
  OBVIOUS
<1>2. x = y * (x \div y) + (x % y)
  OBVIOUS
<1> DEFINE q == x \div y
<1> HIDE DEF q
<1>3. q \in Int /\ y * q \in Int
  BY <1>1 DEF q
<1>4. y * q <= x /\ x < y * q + y
  BY <1>1, <1>2, <1>3 DEF q
<1>5. q >= 0
  <2>1. CASE q <= -1
    <3>1. y * q <= -y
      BY <2>1, <1>3
    <3> QED
      BY <3>1, <1>3, <1>4
  <2> QED
    BY <2>1, <1>3
<1> QED
  BY <1>3, <1>4, <1>5 DEF q

LEMMA Multiples ==
    ASSUME NEW y \in Nat, NEW i \in Int, NEW k \in Int, i <= k
    PROVE  y * i <= y * k /\ y * i \in Int /\ y * k \in Int
<1>1. y * (k - i) >= 0
  OBVIOUS
<1>2. y * (k - i) = y * k - y * i
  OBVIOUS
<1> QED
  BY <1>1, <1>2

\* Where the ranges begin and how many there are.
LEMMA RangesFrame ==
    ASSUME NEW fromBlock \in Nat, NEW toBlock \in Nat, NEW lookBack \in Nat \ {0},
           fromBlock <= toBlock
    PROVE  LET start == FlooredStartBlock(fromBlock, lookBack)
               n == Iterations(fromBlock, toBlock, lookBack)
           IN /\ start \in Nat /\ start <= fromBlock /\ fromBlock < start + lookBack
              /\ n \in Nat /\ lookBack * n \in Nat
              /\ toBlock < start + lookBack * n
              /\ start + lookBack * n < toBlock + 1 + lookBack
<1> DEFINE start == FlooredStartBlock(fromBlock, lookBack)
           n == Iterations(fromBlock, toBlock, lookBack)
           width == toBlock + 1 - start + lookBack - 1
<1>1. start \in Nat /\ start <= fromBlock /\ fromBlock < start + lookBack
  <2>1. /\ fromBlock \div lookBack \in Nat
        /\ start = lookBack * (fromBlock \div lookBack)
    BY Division DEF FlooredStartBlock
  <2> QED
    BY <2>1, Division
<1>2. n = width \div lookBack
  BY DEF Iterations
<1> HIDE DEF start, n
<1>3. width \in Nat
  BY <1>1
<1>4. /\ n \in Nat /\ lookBack * n <= width /\ width < lookBack * n + lookBack
  BY <1>2, <1>3, Division
<1>5. lookBack * n \in Nat
  BY <1>4
<1> QED
  BY <1>1, <1>4, <1>5 DEF start, n

\* The ranges of a query cover each block that is asked for, and no event is returned
\* twice: exactly one range has it.  None is empty, longer than the look-back, or
\* reaches into blocks after toBlock; before fromBlock there are fewer than a
\* look-back's worth, which the filter drops.
THEOREM RangesPartition ==
    \A fromBlock, toBlock \in Nat : \A lookBack \in Nat \ {0} :
      fromBlock <= toBlock =>
        LET ranges == PaginatedBlockRanges(fromBlock, toBlock, lookBack) IN
          /\ \A b \in fromBlock .. toBlock :
               \E i \in DOMAIN ranges : Covers(ranges, b) = {i}
          /\ \A i \in DOMAIN ranges :
               /\ fromBlock - lookBack < ranges[i][1] /\ ranges[i][1] <= ranges[i][2]
               /\ ranges[i][2] <= toBlock
               /\ ranges[i][2] - ranges[i][1] < lookBack
<1> TAKE fromBlock, toBlock \in Nat
<1> TAKE lookBack \in Nat \ {0}
<1> HAVE fromBlock <= toBlock
<1> DEFINE ranges == PaginatedBlockRanges(fromBlock, toBlock, lookBack)
           start == FlooredStartBlock(fromBlock, lookBack)
           n == Iterations(fromBlock, toBlock, lookBack)
           first(i) == start + lookBack * (i - 1)
<1>1. /\ start \in Nat /\ start <= fromBlock /\ fromBlock < start + lookBack
      /\ n \in Nat /\ lookBack * n \in Nat
      /\ toBlock < start + lookBack * n
      /\ start + lookBack * n < toBlock + 1 + lookBack
  BY RangesFrame
<1>2. DOMAIN ranges = 1 .. n
  BY DEF PaginatedBlockRanges
<1>3. \A i \in 1 .. n :
        /\ ranges[i][1] = first(i)
        /\ ranges[i][2] = Smaller(first(i) + lookBack - 1, toBlock)
  BY DEF PaginatedBlockRanges, BlockRange
<1> HIDE DEF ranges, start, n
<1>4. ASSUME NEW i \in 1 .. n
      PROVE  /\ first(i) \in Nat /\ start <= first(i)
             /\ first(i) <= toBlock
             /\ ranges[i][1] = first(i)
             /\ ranges[i][2] \in Nat /\ ranges[i][2] <= toBlock
             /\ ranges[i][2] <= first(i) + lookBack - 1
             /\ ranges[i][2] = toBlock \/ ranges[i][2] = first(i) + lookBack - 1
  <2>1. /\ lookBack * 0 <= lookBack * (i - 1) /\ lookBack * (i - 1) \in Int
        /\ lookBack * (i - 1) <= lookBack * (n - 1)
    BY <1>1, Multiples
  <2>2. lookBack * (n - 1) = lookBack * n - lookBack
    BY <1>1
  <2>3. first(i) \in Nat /\ start <= first(i) /\ first(i) <= toBlock
    BY <2>1, <2>2, <1>1
  <2> HIDE DEF first
  <2>4. ranges[i][1] = first(i) /\ ranges[i][2] = Smaller(first(i) + lookBack - 1, toBlock)
    BY <1>3
  <2> QED
    BY <2>3, <2>4 DEF Smaller
<1>5. ASSUME NEW b \in fromBlock .. toBlock
      PROVE  \E i \in 1 .. n : Covers(ranges, b) = {i}
  <2> DEFINE q == (b - start) \div lookBack
  <2>1. /\ q \in Nat
        /\ lookBack * q <= b - start /\ b - start < lookBack * q + lookBack
    BY <1>1, Division
  <2> HIDE DEF q
  <2>2. q < n
    <3>1. CASE n <= q
      <4>1. lookBack * n <= lookBack * q /\ lookBack * q \in Int
        BY <3>1, <1>1, <2>1, Multiples
      <4> QED
        BY <4>1, <2>1, <1>1
    <3> QED
      BY <3>1, <2>1, <1>1
  <2>3. q + 1 \in 1 .. n /\ lookBack * (q + 1 - 1) = lookBack * q
    BY <2>1, <2>2, <1>1
  <2>4. q + 1 \in Covers(ranges, b)
    <3>1. first(q + 1) <= b /\ b <= first(q + 1) + lookBack - 1
      BY <2>1, <2>3, <1>1
    <3> HIDE DEF first
    <3>2. /\ first(q + 1) \in Nat
          /\ ranges[q + 1][1] = first(q + 1) /\ ranges[q + 1][2] \in Nat
          /\ ranges[q + 1][2] = toBlock \/ ranges[q + 1][2] = first(q + 1) + lookBack - 1
      BY <2>3, <1>4
    <3>3. b \in ranges[q + 1][1] .. ranges[q + 1][2]
      BY <3>1, <3>2
    <3> QED
      BY <3>3, <2>3, <1>2 DEF Covers
  <2>5. ASSUME NEW i \in Covers(ranges, b) PROVE i = q + 1
    <3>1. i \in 1 .. n /\ ranges[i][1] <= b /\ b <= ranges[i][2]
      BY <1>2, <1>4 DEF Covers
    <3>2. /\ lookBack * (i - 1) <= b - start /\ b - start < lookBack * (i - 1) + lookBack
          /\ lookBack * (i - 1) \in Int
      BY <3>1, <1>1, <1>4, Multiples
    <3>3. CASE i - 1 <= q - 1
      <4>1. lookBack * (i - 1) <= lookBack * (q - 1)
        BY <3>3, <3>1, <2>1, Multiples
      <4>2. lookBack * (q - 1) = lookBack * q - lookBack /\ lookBack * q \in Int
        BY <2>1
      <4> QED
        BY <4>1, <4>2, <3>2, <2>1, <1>1
    <3>4. CASE q <= i - 2
      <4>1. lookBack * q <= lookBack * (i - 2)
        BY <3>4, <3>1, <2>1, Multiples
      <4>2. lookBack * (i - 2) = lookBack * (i - 1) - lookBack /\ lookBack * q \in Int
        BY <2>1, <3>1
      <4> QED
        BY <4>1, <4>2, <3>2, <2>1, <1>1
    <3> QED
      BY <3>1, <3>3, <3>4, <2>1
  <2> QED
    BY <2>3, <2>4, <2>5
<1>6. \A i \in 1 .. n :
        /\ fromBlock - lookBack < ranges[i][1] /\ ranges[i][1] <= ranges[i][2]
        /\ ranges[i][2] <= toBlock
        /\ ranges[i][2] - ranges[i][1] < lookBack
  <2> TAKE i \in 1 .. n
  <2> HIDE DEF first
  <2> QED
    BY <1>1, <1>4
<1> QED
  BY <1>2, <1>5, <1>6 DEF ranges

-----------------------------------------------------------------------------
\* taken[n] is what is taken of the first n elements.
Taken(taken, list, kept) ==
    taken = [n \in 0 .. Len(list) |->
                IF n = 0 THEN << >>
                ELSE IF list[n] \in kept THEN Append(taken[n - 1], list[n])
                ELSE taken[n - 1]]

LEMMA TakenAt ==
    ASSUME NEW taken, NEW list, NEW kept, Taken(taken, list, kept)
    PROVE  \A n \in 0 .. Len(list) :
             taken[n] = IF n = 0 THEN << >>
                        ELSE IF list[n] \in kept THEN Append(taken[n - 1], list[n])
                        ELSE taken[n - 1]
BY Zenon DEF Taken

LEMMA TakenExists ==
    ASSUME NEW T, NEW list \in Seq(T), NEW kept
    PROVE  \E taken : Taken(taken, list, kept)
<1> DEFINE Step(g, n) == IF n = 0 THEN << >>
                         ELSE IF list[n] \in kept THEN Append(g[n - 1], list[n])
                         ELSE g[n - 1]
           N == {m \in Nat : \E g : \A n \in 0 .. m : g[n] = Step(g, n)}
<1>1. 0 \in N
  <2>1. \A n \in 0 .. 0 : [i \in 0 .. 0 |-> << >>][n] = Step([i \in 0 .. 0 |-> << >>], n)
    OBVIOUS
  <2> QED BY <2>1
<1>2. ASSUME NEW m \in Nat, m \in N PROVE m + 1 \in N
  <2>1. PICK g : \A n \in 0 .. m : g[n] = Step(g, n)
    BY <1>2
  <2> DEFINE h == [n \in 0 .. m + 1 |-> IF n <= m THEN g[n] ELSE Step(g, n)]
  <2>2. ASSUME NEW n \in 0 .. m + 1 PROVE h[n] = Step(h, n)
    <3>1. h[n] = Step(g, n)
      BY <2>1
    <3>2. n # 0 => n - 1 \in 0 .. m /\ h[n - 1] = g[n - 1]
      OBVIOUS
    <3> HIDE DEF h
    <3> QED BY <3>1, <3>2
  <2> HIDE DEF h, Step
  <2> QED BY <2>2
<1> HIDE DEF N
<1>3. Len(list) \in N
  BY <1>1, <1>2, SetInduction
<1>4. PICK g : \A n \in 0 .. Len(list) : g[n] = Step(g, n)
  BY <1>3 DEF N
<1> DEFINE h == [n \in 0 .. Len(list) |-> g[n]]
<1>5. ASSUME NEW n \in 0 .. Len(list) PROVE h[n] = Step(h, n)
  <2>1. h[n] = Step(g, n)
    BY <1>4
  <2>2. n # 0 => n - 1 \in 0 .. Len(list) /\ h[n - 1] = g[n - 1]
    OBVIOUS
  <2> HIDE DEF h
  <2> QED BY <2>1, <2>2
<1>6. h = [n \in 0 .. Len(list) |-> Step(h, n)]
  <2>1. DOMAIN h = 0 .. Len(list) /\ h = [n \in 0 .. Len(list) |-> h[n]]
    OBVIOUS
  <2> HIDE DEF h, Step
  <2> QED BY <1>5, <2>1
<1> HIDE DEF h
<1> QED BY <1>6 DEF Taken

\* A selection is made of the elements kept, in their order: at says where each of
\* them was.
THEOREM SelectionFacts ==
    ASSUME NEW T, NEW list \in Seq(T), NEW kept
    PROVE  LET selected == Selection(list, kept) IN
           /\ selected \in Seq(T)
           /\ \E at \in [1 .. Len(selected) -> 1 .. Len(list)] :
                /\ \A i \in 1 .. Len(selected) :
                     selected[i] = list[at[i]] /\ selected[i] \in kept
                /\ \A i, k \in 1 .. Len(selected) : i < k => at[i] < at[k]
                /\ \A n \in 1 .. Len(list) : list[n] \in kept =>
                     \E i \in 1 .. Len(selected) : at[i] = n
<1> DEFINE taken == CHOOSE taken : Taken(taken, list, kept)
           Places(selected, m, at) ==
             /\ \A i \in 1 .. Len(selected) :
                  selected[i] = list[at[i]] /\ selected[i] \in kept
             /\ \A i, k \in 1 .. Len(selected) : i < k => at[i] < at[k]
             /\ \A n \in 1 .. m : list[n] \in kept => \E i \in 1 .. Len(selected) : at[i] = n
           Fine(m) ==
             /\ taken[m] \in Seq(T)
             /\ \E at \in [1 .. Len(taken[m]) -> 1 .. m] : Places(taken[m], m, at)
           N == {m \in Nat : m <= Len(list) => Fine(m)}
<1>1. Taken(taken, list, kept) /\ Selection(list, kept) = taken[Len(list)]
  <2>1. Taken(taken, list, kept)
    <3>1. \E t : Taken(t, list, kept)
      BY TakenExists
    <3> QED BY <3>1
  <2>2. Selection(list, kept) = taken[Len(list)]
    BY DEF Selection, Taken
  <2> QED BY <2>1, <2>2
<1> HIDE DEF taken
<1>5. /\ taken[0] = << >>
      /\ \A m \in Nat : m + 1 <= Len(list) =>
           taken[m + 1] = IF list[m + 1] \in kept THEN Append(taken[m], list[m + 1]) ELSE taken[m]
  <2>1. /\ Len(list) \in Nat
        /\ \A n \in 0 .. Len(list) :
             taken[n] = IF n = 0 THEN << >>
                        ELSE IF list[n] \in kept THEN Append(taken[n - 1], list[n])
                        ELSE taken[n - 1]
    <3>1. Len(list) \in Nat
      OBVIOUS
    <3> HIDE DEF Places, Fine, N
    <3> QED BY <1>1, <3>1, TakenAt
  <2>2. \A m \in Nat : m + 1 <= Len(list) =>
          m + 1 \in 0 .. Len(list) /\ m + 1 # 0 /\ m + 1 - 1 = m
    BY <2>1
  <2> QED BY <2>1, <2>2
<1>2. 0 \in N
  <2>1. taken[0] = << >>
    BY <1>5
  <2>2. Len(taken[0]) = 0 /\ taken[0] \in Seq(T)
    BY <2>1
  <2>3. [i \in 1 .. 0 |-> 1] \in [1 .. 0 -> 1 .. 0]
    OBVIOUS
  <2> QED BY <2>2, <2>3
<1>3. ASSUME NEW m \in Nat, m \in N PROVE m + 1 \in N
  <2> HIDE DEF Fine
  <2> SUFFICES ASSUME m + 1 <= Len(list)
               PROVE  Fine(m + 1)
    OBVIOUS
  <2>6. Fine(m)
    BY <1>3
  <2> USE DEF Fine
  <2>1. PICK at \in [1 .. Len(taken[m]) -> 1 .. m] : Places(taken[m], m, at)
    BY <2>6
  <2>2. taken[m] \in Seq(T) /\ list[m + 1] \in T
    BY <2>6
  <2>3. taken[m + 1] = IF list[m + 1] \in kept THEN Append(taken[m], list[m + 1]) ELSE taken[m]
    BY <1>5
  <2>4. CASE list[m + 1] \notin kept
    <3>1. taken[m + 1] = taken[m]
      BY <2>3, <2>4
    <3>2. at \in [1 .. Len(taken[m]) -> 1 .. m + 1]
      OBVIOUS
    <3>3. Places(taken[m], m + 1, at)
      BY <2>1, <2>4
    <3> QED BY <2>2, <3>1, <3>2, <3>3
  <2>5. CASE list[m + 1] \in kept
    <3> DEFINE l == Len(taken[m])
               more == [i \in 1 .. l + 1 |-> IF i = l + 1 THEN m + 1 ELSE at[i]]
    <3>1. /\ l \in Nat /\ taken[m + 1] \in Seq(T) /\ Len(taken[m + 1]) = l + 1
          /\ \A i \in 1 .. l : taken[m + 1][i] = taken[m][i]
          /\ taken[m + 1][l + 1] = list[m + 1]
          /\ at \in [1 .. l -> 1 .. m]
          /\ \A i \in 1 .. l : taken[m][i] = list[at[i]] /\ taken[m][i] \in kept
          /\ \A i, k \in 1 .. l : i < k => at[i] < at[k]
          /\ \A n \in 1 .. m : list[n] \in kept => \E i \in 1 .. l : at[i] = n
      BY <2>1, <2>2, <2>3, <2>5
    <3> HIDE DEF l
    <3>2. more \in [1 .. l + 1 -> 1 .. m + 1]
      BY <3>1
    <3>3. \A i \in 1 .. l + 1 : taken[m + 1][i] = list[more[i]] /\ taken[m + 1][i] \in kept
      <4> TAKE i \in 1 .. l + 1
      <4>1. CASE i = l + 1
        BY <2>5, <3>1, <4>1
      <4>2. CASE i \in 1 .. l
        BY <3>1, <4>2
      <4> QED BY <3>1, <4>1, <4>2
    <3>4. \A i, k \in 1 .. l + 1 : i < k => more[i] < more[k]
      BY <3>1
    <3>5. ASSUME NEW n \in 1 .. m + 1, list[n] \in kept
          PROVE  \E i \in 1 .. l + 1 : more[i] = n
      <4>1. CASE n = m + 1
        <5>1. l + 1 \in 1 .. l + 1 /\ more[l + 1] = m + 1
          BY <3>1
        <5> QED BY <4>1, <5>1
      <4>2. CASE n \in 1 .. m
        <5>1. PICK i \in 1 .. l : at[i] = n
          BY <3>1, <3>5, <4>2
        <5>2. i \in 1 .. l + 1 /\ more[i] = n
          BY <3>1, <5>1
        <5> QED BY <5>2
      <4> QED BY <4>1, <4>2
    <3> HIDE DEF more
    <3>6. Places(taken[m + 1], m + 1, more)
      BY <3>1, <3>3, <3>4, <3>5
    <3>7. more \in [1 .. Len(taken[m + 1]) -> 1 .. m + 1]
      BY <3>1, <3>2
    <3> HIDE DEF Places
    <3> QED BY <3>1, <3>6, <3>7
  <2> QED BY <2>4, <2>5
<1> HIDE DEF N
<1>4. Len(list) \in Nat /\ Len(list) \in N
  BY <1>2, <1>3, SetInduction
<1>6. Fine(Len(list))
  <2> HIDE DEF Fine
  <2> QED BY <1>4 DEF N
<1> DEFINE selected == Selection(list, kept)
<1>7. selected = taken[Len(list)]
  BY <1>1
<1> HIDE DEF selected, taken
<1>8. /\ selected \in Seq(T)
      /\ \E at \in [1 .. Len(selected) -> 1 .. Len(list)] : Places(selected, Len(list), at)
  BY <1>6, <1>7
<1> QED BY <1>8 DEF selected

-----------------------------------------------------------------------------
\* The swap and pop of removeAdapter takes exactly the element at slot i out of
\* an array without duplicates and leaves it without duplicates.
THEOREM SwapAndPopRemovesOne ==
    ASSUME NEW S, NEW names \in Seq(S), IsInjective(names), NEW i \in DOMAIN names
    PROVE  /\ SwapAndPop(names, i) \in Seq(S)
           /\ IsInjective(SwapAndPop(names, i))
           /\ Range(SwapAndPop(names, i)) = Range(names) \ {names[i]}
<1> DEFINE last == Len(names)
           popped == SwapAndPop(names, i)
<1>1. last \in Nat \ {0} /\ i \in 1 .. last /\ DOMAIN names = 1 .. last
  OBVIOUS
<1>2. popped = [k \in 1 .. last - 1 |-> IF k = i THEN names[last] ELSE names[k]]
  BY DEF SwapAndPop
<1>3. \A k \in 1 .. last : names[k] \in S
  BY <1>1
<1>4. popped \in Seq(S) /\ DOMAIN popped = 1 .. last - 1
  <2>1. \A k \in 1 .. last - 1 : popped[k] \in S
    BY <1>1, <1>2, <1>3
  <2>2. popped \in [1 .. last - 1 -> S]
    BY <1>2, <2>1
  <2>3. last - 1 \in Nat
    BY <1>1
  <2> QED BY <2>2, <2>3
<1> HIDE DEF last, popped
<1>5. \A a, b \in 1 .. last : names[a] = names[b] => a = b
  BY <1>1 DEF IsInjective
<1>6. IsInjective(popped)
  <2> SUFFICES ASSUME NEW a \in 1 .. last - 1, NEW b \in 1 .. last - 1, popped[a] = popped[b]
               PROVE  a = b
    BY <1>4 DEF IsInjective
  <2> QED BY <1>1, <1>2, <1>5
<1>7. Range(popped) = Range(names) \ {names[i]}
  <2>1. ASSUME NEW x \in Range(popped) PROVE x \in Range(names) \ {names[i]}
    <3>1. PICK k \in 1 .. last - 1 : x = popped[k]
      BY <1>4 DEF Range
    <3>2. CASE k = i
      BY <1>1, <1>2, <1>5, <3>1, <3>2 DEF Range
    <3>3. CASE k # i
      BY <1>1, <1>2, <1>5, <3>1, <3>3 DEF Range
    <3> QED BY <3>2, <3>3
  <2>2. ASSUME NEW x \in Range(names), x # names[i] PROVE x \in Range(popped)
    <3>1. PICK k \in 1 .. last : x = names[k]
      BY <1>1 DEF Range
    <3>2. k # i
      BY <2>2, <3>1
    <3>3. CASE k = last
      <4>1. i \in 1 .. last - 1 /\ popped[i] = x
        BY <1>1, <1>2, <3>1, <3>2, <3>3
      <4> QED BY <1>4, <4>1 DEF Range
    <3>4. CASE k # last
      <4>1. k \in 1 .. last - 1
        BY <1>1, <3>1, <3>4
      <4>2. popped[k] = x
        BY <1>2, <3>1, <3>2, <4>1
      <4> QED BY <1>4, <4>1, <4>2 DEF Range
    <3> QED BY <3>3, <3>4
  <2> QED BY <2>1, <2>2
<1> QED BY <1>4, <1>6, <1>7 DEF popped

\* What push does to the set of listed elements, and when it keeps it duplicate free.
THEOREM AppendAddsOne ==
    ASSUME NEW S, NEW names \in Seq(S), NEW x \in S
    PROVE  /\ Append(names, x) \in Seq(S)
           /\ Range(Append(names, x)) = Range(names) \cup {x}
           /\ IsInjective(names) /\ x \notin Range(names) => IsInjective(Append(names, x))
<1> DEFINE n == Len(names)
           longer == Append(names, x)
<1>1. /\ n \in Nat
      /\ longer \in Seq(S)
      /\ DOMAIN names = 1 .. n
      /\ DOMAIN longer = 1 .. n + 1
      /\ \A k \in 1 .. n : longer[k] = names[k]
      /\ longer[n + 1] = x
  OBVIOUS
<1> HIDE DEF n, longer
<1>2. \A k \in 1 .. n + 1 : k \in 1 .. n \/ k = n + 1
  BY <1>1
<1>3. 1 .. n \subseteq 1 .. n + 1 /\ n + 1 \in 1 .. n + 1
  BY <1>1
<1>4. Range(longer) = Range(names) \cup {x}
  BY <1>1, <1>2, <1>3, Zenon DEF Range
<1>5. ASSUME IsInjective(names), x \notin Range(names) PROVE IsInjective(longer)
  BY <1>1, <1>2, <1>5 DEF IsInjective, Range
<1> QED BY <1>1, <1>4, <1>5 DEF longer

\* The first slot of an element in an array without duplicates is its only one.
THEOREM OnlySlot ==
    ASSUME NEW S, NEW names \in Seq(S), IsInjective(names), NEW i \in DOMAIN names,
           NEW slots, slots = {k \in DOMAIN names : names[k] = names[i]}
    PROVE  slots # {} /\ (CHOOSE k \in slots : \A l \in slots : k <= l) = i
<1>1. slots = {i}
  BY DEF IsInjective
<1>2. i \in Int
  OBVIOUS
<1>3. (CHOOSE k \in slots : \A l \in slots : k <= l) = i
  BY <1>1, <1>2
<1> QED BY <1>1, <1>3
=============================================================================
