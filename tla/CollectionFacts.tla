---------------------------- MODULE CollectionFacts ----------------------------
(* Sums over finite sets, as the community modules take them: element by     *)
(* element, in an order CHOOSE fixes.  Induction cannot be cited here; what a *)
(* recursive function satisfies is derived from the least counterexample.     *)
(* And sequences from which an element goes or into which one is put.         *)
EXTENDS Integers, SequencesExt, FiniteSetsExt, FiniteSetTheorems, SequenceTheorems,
        WellFoundedInduction, TLAPS

-----------------------------------------------------------------------------
(* Least elements. *)

Before == {ss \in Nat \X Nat : ss[1] < ss[2]}

\* The naturals are well-founded.
LEMMA BeforeWellFounded == IsWellFoundedOn(Before, Nat)
  BY NatLessThanWellFounded DEF OpToRel, Before

\* A set of naturals that has elements has a least one.
LEMMA LeastMember ==
  ASSUME NEW S \in SUBSET Nat, S # {}
  PROVE  \E x \in S : \A y \in S : x =< y
  <1>1. PICK x \in S : \A y \in S : ~(<<y, x>> \in Before)
    BY BeforeWellFounded, WFMin
  <1>2. ASSUME NEW y \in S
        PROVE  x =< y
    <2>1. ~(y < x)
      <3>1. SUFFICES ASSUME y < x PROVE <<y, x>> \in Before
        BY <1>1
      <3>2. y \in Nat /\ x \in Nat
        OBVIOUS
      <3>3. QED
        BY <3>1, <3>2 DEF Before
    <2>2. y \in Nat /\ x \in Nat
      OBVIOUS
    <2>3. QED
      BY <2>1, <2>2, SMT
  <1>3. QED
    BY <1>2, Zenon

-----------------------------------------------------------------------------
(* Sums.  F is a sum over the subsets of S for the terms a. *)

\* The element a sum over s takes first, and the recursion it follows for a.
Pick(s) == CHOOSE x \in s : TRUE
SumOf(s, a, F) == IF s = {} THEN 0 ELSE a[Pick(s)] + F[s \ {Pick(s)}]
Sums(F, a, S) == F = [s \in SUBSET S |-> SumOf(s, a, F)]

LEMMA SubsetSizes ==
  ASSUME NEW S, IsFiniteSet(S)
  PROVE  \A s \in SUBSET S :
           /\ IsFiniteSet(s) /\ Cardinality(s) \in Nat /\ (Cardinality(s) = 0 <=> s = {})
           /\ Cardinality(s) =< Cardinality(S)
  <1>1. \A s \in SUBSET S : IsFiniteSet(s) /\ Cardinality(s) =< Cardinality(S)
    BY FS_Subset
  <1>2. QED
    BY <1>1, FS_CardinalityType, FS_EmptySet

LEMMA FirstElement ==
  ASSUME NEW S, IsFiniteSet(S), NEW s \in SUBSET S, s # {}
  PROVE  /\ Pick(s) \in s /\ Pick(s) \in S /\ s \ {Pick(s)} \in SUBSET S
         /\ Cardinality(s \ {Pick(s)}) = Cardinality(s) - 1
  <1>1. IsFiniteSet(s)
    BY SubsetSizes
  <1>2. Pick(s) \in s
    BY DEF Pick
  <1>3. Cardinality(s \ {Pick(s)}) = Cardinality(s) - 1
    BY <1>1, <1>2, FS_RemoveElement
  <1>4. QED
    BY <1>2, <1>3

\* What holds of the empty set, and of a set when it holds without its first
\* element, holds of every subset.
LEMMA SetInduction ==
  ASSUME NEW S, IsFiniteSet(S), NEW Good, {} \in Good,
         \A s \in SUBSET S : s # {} /\ s \ {Pick(s)} \in Good => s \in Good
  PROVE  \A s \in SUBSET S : s \in Good
  <1> DEFINE Bad == {s \in SUBSET S : s \notin Good}
             Sizes == {Cardinality(s) : s \in Bad}
  <1>1. SUFFICES ASSUME Bad # {} PROVE FALSE
    OBVIOUS
  <1>2. Sizes \in SUBSET Nat /\ Sizes # {}
    BY <1>1, SubsetSizes
  <1>3. PICK n \in Sizes : \A m \in Sizes : n =< m
    BY <1>2, LeastMember
  <1>4. PICK s \in Bad : Cardinality(s) = n
    BY <1>3
  <1>5. s # {} /\ s \in SUBSET S
    OBVIOUS
  <1>6. s \ {Pick(s)} \in Bad
    BY <1>5, FirstElement
  <1>7. Cardinality(s) =< Cardinality(s \ {Pick(s)})
    BY <1>3, <1>4, <1>6
  <1>8. Cardinality(s) \in Nat /\ Cardinality(s \ {Pick(s)}) = Cardinality(s) - 1
    BY <1>5, SubsetSizes, FirstElement
  <1>9. QED
    BY <1>7, <1>8

\* The sum exists: it is built up to sets of n elements, for each n.
Small(n, S) == {s \in SUBSET S : Cardinality(s) =< n}
SumsTo(n, g, a, S) == /\ g \in [Small(n, S) -> Int]
                      /\ \A s \in Small(n, S) : g[s] = SumOf(s, a, g)

LEMMA OneSizeMore ==
  ASSUME NEW S, IsFiniteSet(S), NEW a \in [S -> Int], NEW n \in Nat, NEW g,
         SumsTo(n, g, a, S)
  PROVE  \E h : SumsTo(n + 1, h, a, S)
  <1> DEFINE h == [s \in Small(n + 1, S) |->
                     IF s \in Small(n, S) THEN g[s] ELSE SumOf(s, a, g)]
  <1>1. ASSUME NEW s \in Small(n + 1, S), s # {}
        PROVE  /\ s \ {Pick(s)} \in Small(n, S) /\ s \ {Pick(s)} \in Small(n + 1, S)
               /\ Pick(s) \in S
    BY <1>1, SubsetSizes, FirstElement DEF Small
  <1>2. Small(n, S) \subseteq Small(n + 1, S)
    BY SubsetSizes DEF Small
  <1>3. ASSUME NEW s \in Small(n + 1, S)
        PROVE  SumOf(s, a, g) \in Int /\ SumOf(s, a, h) = SumOf(s, a, g)
    <2>1. CASE s = {}
      BY <2>1 DEF SumOf
    <2>2. CASE s # {}
      <3> DEFINE r == s \ {Pick(s)}
      <3>1. r \in Small(n, S) /\ r \in Small(n + 1, S) /\ Pick(s) \in S
        BY <1>1, <2>2
      <3> HIDE DEF r
      <3>2. h[r] = g[r] /\ g[r] \in Int /\ a[Pick(s)] \in Int
        BY <3>1 DEF SumsTo
      <3> HIDE DEF h
      <3>3. QED
        BY <2>2, <3>2 DEF SumOf, r
    <2>3. QED
      BY <2>1, <2>2
  <1>4. h \in [Small(n + 1, S) -> Int]
    BY <1>3 DEF SumsTo
  <1>5. ASSUME NEW s \in Small(n + 1, S)
        PROVE  h[s] = SumOf(s, a, h)
    <2>1. h[s] = SumOf(s, a, g)
      BY DEF SumsTo
    <2>2. QED
      BY <2>1, <1>3
  <1> HIDE DEF h
  <1>6. QED
    BY <1>4, <1>5 DEF SumsTo

LEMMA SumExists ==
  ASSUME NEW S, IsFiniteSet(S), NEW a \in [S -> Int]
  PROVE  \E F : Sums(F, a, S)
  <1> DEFINE Missing == {n \in Nat : ~ \E g : SumsTo(n, g, a, S)}
  <1>1. Missing = {}
    <2>1. SUFFICES ASSUME Missing # {} PROVE FALSE
      OBVIOUS
    <2>2. Missing \in SUBSET Nat
      OBVIOUS
    <2>3. PICK n \in Missing : \A m \in Missing : n =< m
      BY <2>1, <2>2, LeastMember
    <2>4. n # 0
      <3>1. SumsTo(0, [s \in Small(0, S) |-> 0], a, S)
        <4>1. \A s \in Small(0, S) : s = {}
          BY SubsetSizes DEF Small
        <4>2. QED
          BY <4>1 DEF SumsTo, SumOf
      <3>2. QED
        BY <3>1
    <2>5. n - 1 \in Nat /\ n - 1 \notin Missing
      BY <2>3, <2>4
    <2>6. PICK g : SumsTo(n - 1, g, a, S)
      BY <2>5
    <2>7. \E h : SumsTo((n - 1) + 1, h, a, S)
      BY <2>5, <2>6, OneSizeMore
    <2>8. (n - 1) + 1 = n
      BY <2>5
    <2>9. QED
      BY <2>7, <2>8
  <1>2. Cardinality(S) \in Nat
    BY SubsetSizes
  <1>3. PICK F : SumsTo(Cardinality(S), F, a, S)
    BY <1>1, <1>2
  <1>4. Small(Cardinality(S), S) = SUBSET S
    BY SubsetSizes DEF Small
  <1>5. F = [s \in SUBSET S |-> SumOf(s, a, F)]
    BY <1>3, <1>4 DEF SumsTo
  <1>6. QED
    BY <1>5 DEF Sums

\* A sum of nothing is nothing.
LEMMA SumOfZeros ==
  ASSUME NEW S, IsFiniteSet(S), NEW a, \A x \in S : a[x] = 0, NEW F, Sums(F, a, S)
  PROVE  F[S] = 0
  <1> DEFINE Good == {s \in SUBSET S : F[s] = 0}
  <1>0. \A s \in SUBSET S : F[s] = SumOf(s, a, F)
    BY DEF Sums
  <1>1. {} \in Good
    BY <1>0 DEF SumOf
  <1>2. ASSUME NEW s \in SUBSET S, s # {}, s \ {Pick(s)} \in Good
        PROVE  s \in Good
    <2>0. PICK x, r : x = Pick(s) /\ r = s \ {x}
      OBVIOUS
    <2>1. x \in S /\ F[r] = 0
      BY <1>2, <2>0, FirstElement
    <2>2. F[s] = a[x] + F[r]
      BY <1>0, <1>2, <2>0 DEF SumOf
    <2>3. QED
      BY <2>1, <2>2
  <1>3. S \in Good
    BY <1>1, <1>2, SetInduction
  <1>4. QED
    BY <1>3

\* The terms b are those of a with n more for o: then so is their sum.
OneDiffers(a, b, o, n, S) ==
  /\ a \in [S -> Int] /\ b \in [S -> Int] /\ o \in S /\ n \in Int
  /\ b[o] = a[o] + n /\ \A x \in S \ {o} : b[x] = a[x]

LEMMA SumFollows ==
  ASSUME NEW S, IsFiniteSet(S), NEW a, NEW b, NEW o, NEW n, OneDiffers(a, b, o, n, S),
         NEW F, NEW G, Sums(F, a, S), Sums(G, b, S)
  PROVE  F[S] \in Int /\ G[S] = F[S] + n
  <1> DEFINE More(s) == IF o \in s THEN n ELSE 0
             Good == {s \in SUBSET S : F[s] \in Int /\ G[s] = F[s] + More(s)}
  <1>d. /\ a \in [S -> Int] /\ b \in [S -> Int] /\ o \in S /\ n \in Int
        /\ b[o] = a[o] + n /\ \A x \in S \ {o} : b[x] = a[x]
    BY DEF OneDiffers
  <1>0. \A s \in SUBSET S : F[s] = SumOf(s, a, F) /\ G[s] = SumOf(s, b, G)
    BY DEF Sums
  <1>1. {} \in Good
    <2>1. F[{}] = 0 /\ G[{}] = 0 /\ More({}) = 0
      BY <1>0 DEF SumOf
    <2>2. QED
      BY <2>1
  <1>2. ASSUME NEW s \in SUBSET S, s # {}, s \ {Pick(s)} \in Good
        PROVE  s \in Good
    <2>0. PICK x, r : x = Pick(s) /\ r = s \ {x}
      OBVIOUS
    <2>1. /\ x \in s /\ x \in S /\ r \in SUBSET S
          /\ F[r] \in Int /\ G[r] = F[r] + More(r)
      BY <1>2, <2>0, FirstElement
    <2>2. F[s] = a[x] + F[r] /\ G[s] = b[x] + G[r]
      BY <1>0, <1>2, <2>0 DEF SumOf
    <2>3. CASE x = o
      <3>1. More(r) = 0 /\ More(s) = n /\ b[x] = a[x] + n /\ a[x] \in Int
        BY <1>d, <2>0, <2>1, <2>3
      <3>2. QED
        BY <1>d, <2>1, <2>2, <3>1
    <2>4. CASE x # o
      <3>1. More(r) = More(s) /\ b[x] = a[x] /\ a[x] \in Int /\ More(s) \in Int
        BY <1>d, <2>0, <2>1, <2>4
      <3>2. QED
        BY <1>d, <2>1, <2>2, <3>1
    <2>5. QED
      BY <2>3, <2>4
  <1>3. S \in Good
    <2> HIDE DEF Good
    <2>1. \A s \in SUBSET S : s \in Good
      BY <1>1, <1>2, SetInduction
    <2>2. QED
      BY <2>1
  <1>4. QED
    BY <1>d, <1>3

\* What holds of a set when it holds of all smaller ones holds of every subset.
LEMMA SizeInduction ==
  ASSUME NEW S, IsFiniteSet(S), NEW Good,
         \A s \in SUBSET S :
           (\A r \in SUBSET S : Cardinality(r) < Cardinality(s) => r \in Good) => s \in Good
  PROVE  \A s \in SUBSET S : s \in Good
  <1> DEFINE Bad == {s \in SUBSET S : s \notin Good}
             Sizes == {Cardinality(s) : s \in Bad}
  <1>1. SUFFICES ASSUME Bad # {} PROVE FALSE
    OBVIOUS
  <1>2. Sizes \in SUBSET Nat /\ Sizes # {}
    BY <1>1, SubsetSizes
  <1>3. PICK n \in Sizes : \A m \in Sizes : n =< m
    BY <1>2, LeastMember
  <1>4. PICK s \in Bad : Cardinality(s) = n
    BY <1>3
  <1>5. ASSUME NEW r \in SUBSET S, Cardinality(r) < Cardinality(s)
        PROVE  r \in Good
    <2>1. SUFFICES ASSUME r \in Bad PROVE FALSE
      OBVIOUS
    <2>2. Cardinality(s) =< Cardinality(r) /\ Cardinality(s) \in Nat /\ Cardinality(r) \in Nat
      BY <1>3, <1>4, <2>1, SubsetSizes
    <2>3. QED
      BY <1>5, <2>2
  <1>6. s \in SUBSET S /\ s \notin Good
    OBVIOUS
  <1>7. QED
    BY <1>5, <1>6

\* A sum is the same whatever element is taken first.
LEMMA SumTakes ==
  ASSUME NEW S, IsFiniteSet(S), NEW a \in [S -> Int], NEW F, Sums(F, a, S)
  PROVE  \A s \in SUBSET S : /\ F[s] \in Int
                             /\ \A x \in s : F[s] = a[x] + F[s \ {x}]
  <1> DEFINE Takes(s) == F[s] \in Int /\ \A x \in s : F[s] = a[x] + F[s \ {x}]
             Good == {s \in SUBSET S : Takes(s)}
  <1>0. \A s \in SUBSET S : F[s] = SumOf(s, a, F)
    BY DEF Sums
  <1>1. ASSUME NEW s \in SUBSET S,
               \A r \in SUBSET S : Cardinality(r) < Cardinality(s) => r \in Good
        PROVE  Takes(s)
    <2>1. CASE s = {}
      <3>1. F[s] = 0
        BY <1>0, <2>1, Zenon DEF SumOf
      <3>2. F[s] \in Int
        BY <3>1
      <3>3. QED
        BY <2>1, <3>2, Zenon
    <2>2. CASE s # {}
      <3>1. ASSUME NEW r \in SUBSET s, NEW x \in r
            PROVE  /\ r \ {x} \in SUBSET s /\ r \ {x} \in SUBSET S /\ r \in SUBSET S
                   /\ Cardinality(r \ {x}) < Cardinality(r)
                   /\ Cardinality(r) =< Cardinality(s)
                   /\ Cardinality(r \ {x}) \in Nat /\ Cardinality(s) \in Nat
        <4>1. IsFiniteSet(r) /\ IsFiniteSet(s) /\ r \ {x} \in SUBSET S /\ r \in SUBSET S
          BY SubsetSizes
        <4>2. Cardinality(r \ {x}) = Cardinality(r) - 1
          BY <4>1, FS_RemoveElement
        <4>3. Cardinality(r) =< Cardinality(s)
          BY <4>1, FS_Subset
        <4>4. Cardinality(r) \in Nat /\ Cardinality(s) \in Nat /\ Cardinality(r \ {x}) \in Nat
          BY <4>1, SubsetSizes
        <4>5. QED
          BY <4>1, <4>2, <4>3, <4>4
      <3>2. ASSUME NEW x \in s
            PROVE  s \ {x} \in SUBSET S /\ Takes(s \ {x}) /\ a[x] \in Int
        <4>1. s \ {x} \in SUBSET S /\ Cardinality(s \ {x}) < Cardinality(s)
          BY <3>1
        <4>2. s \ {x} \in Good
          BY <1>1, <4>1
        <4>3. QED
          BY <4>1, <4>2
      <3> HIDE DEF Good
      <3>3. PICK y : y = Pick(s)
        OBVIOUS
      <3>4. y \in s /\ F[s] = a[y] + F[s \ {y}]
        BY <1>0, <2>2, <3>3, FirstElement DEF SumOf
      <3>5. F[s] \in Int
        <4>1. F[s \ {y}] \in Int /\ a[y] \in Int
          BY <3>2, <3>4, Zenon
        <4>2. QED
          BY <3>4, <4>1
      <3>6. ASSUME NEW x \in s, x # y
            PROVE  F[s] = a[x] + F[s \ {x}]
        <4>1. PICK u, v, r : u = s \ {x} /\ v = s \ {y} /\ r = u \ {y}
          OBVIOUS
        <4>2. r = v \ {x} /\ y \in u /\ x \in v
          BY <3>4, <3>6, <4>1
        <4>3. Takes(u) /\ Takes(v) /\ a[x] \in Int /\ a[y] \in Int
          BY <3>2, <3>4, <4>1
        <4>4. F[u] = a[y] + F[r] /\ F[v] = a[x] + F[r]
          BY <4>1, <4>2, <4>3
        <4>5. F[r] \in Int
          <5>1. u \in SUBSET s /\ r \in SUBSET S
            BY <4>1
          <5>2. Cardinality(u) < Cardinality(s) /\ Cardinality(r) < Cardinality(u)
                /\ Cardinality(r) \in Nat /\ Cardinality(s) \in Nat /\ Cardinality(u) \in Nat
            BY <3>1, <4>1, <4>2, <5>1
          <5>3. r \in Good
            BY <1>1, <5>1, <5>2
          <5>4. QED
            BY <5>3 DEF Good
        <4>6. QED
          BY <3>4, <4>1, <4>3, <4>4, <4>5
      <3>7. QED
        BY <3>4, <3>5, <3>6
    <2>3. QED
      BY <2>1, <2>2
  <1>2. ASSUME NEW s \in SUBSET S,
               \A r \in SUBSET S : Cardinality(r) < Cardinality(s) => r \in Good
        PROVE  s \in Good
    <2>1. Takes(s)
      BY <1>1, <1>2
    <2>2. QED
      BY <2>1
  <1>3. \A s \in SUBSET S : s \in Good
    <2> HIDE DEF Good
    <2>1. QED
      BY <1>2, SizeInduction
  <1>4. QED
    BY <1>3

\* Elements whose term is nothing do not matter.
LEMMA SumOnSubset ==
  ASSUME NEW S, IsFiniteSet(S), NEW a \in [S -> Int], NEW F, Sums(F, a, S),
         NEW t \in SUBSET S, \A x \in S \ t : a[x] = 0
  PROVE  F[S] = F[t]
  <1> DEFINE Good == {s \in SUBSET S : F[s] = F[s \cap t]}
  <1>0. \A s \in SUBSET S : /\ F[s] \in Int
                            /\ \A x \in s : F[s] = a[x] + F[s \ {x}]
    BY SumTakes
  <1>1. {} \in Good
    <2>1. {} \cap t = {}
      OBVIOUS
    <2>2. QED
      BY <2>1
  <1>2. ASSUME NEW s \in SUBSET S, s # {}, s \ {Pick(s)} \in Good
        PROVE  s \in Good
    <2>0. PICK x, r, c : x = Pick(s) /\ r = s \ {x} /\ c = s \cap t
      OBVIOUS
    <2>1. x \in s /\ x \in S /\ F[r] = F[r \cap t]
      BY <1>2, <2>0, FirstElement
    <2>2. F[s] = a[x] + F[r] /\ F[r] \in Int /\ c \in SUBSET S
      BY <1>0, <2>0, <2>1
    <2>3. CASE x \in t
      <3>1. x \in c /\ c \ {x} = r \cap t
        BY <2>0, <2>1, <2>3
      <3>2. F[c] = a[x] + F[r \cap t]
        BY <1>0, <2>2, <3>1
      <3>3. QED
        BY <2>0, <2>1, <2>2, <3>2
    <2>4. CASE x \notin t
      <3>1. c = r \cap t /\ a[x] = 0
        BY <2>0, <2>1, <2>4
      <3>2. F[s] = F[r]
        BY <2>2, <3>1
      <3>3. F[s] = F[s \cap t]
        BY <2>0, <2>1, <3>1, <3>2, Zenon
      <3>4. QED
        BY <3>3
    <2>5. QED
      BY <2>3, <2>4
  <1>3. S \in Good
    <2> HIDE DEF Good
    <2>1. \A s \in SUBSET S : s \in Good
      BY <1>1, <1>2, SetInduction
    <2>2. QED
      BY <2>1
  <1>4. S \cap t = t
    OBVIOUS
  <1>5. QED
    BY <1>3, <1>4

\* A sum of larger terms is larger.
LEMMA SumAtMost ==
  ASSUME NEW S, IsFiniteSet(S), NEW a \in [S -> Int], NEW b \in [S -> Int],
         \A x \in S : a[x] =< b[x],
         NEW F, NEW G, Sums(F, a, S), Sums(G, b, S)
  PROVE  F[S] =< G[S]
  <1> DEFINE Good == {s \in SUBSET S : F[s] \in Int /\ G[s] \in Int /\ F[s] =< G[s]}
  <1>0. \A s \in SUBSET S : F[s] = SumOf(s, a, F) /\ G[s] = SumOf(s, b, G)
    BY DEF Sums
  <1>1. {} \in Good
    BY <1>0 DEF SumOf
  <1>2. ASSUME NEW s \in SUBSET S, s # {}, s \ {Pick(s)} \in Good
        PROVE  s \in Good
    <2>0. PICK x, r : x = Pick(s) /\ r = s \ {x}
      OBVIOUS
    <2>1. x \in S /\ F[r] \in Int /\ G[r] \in Int /\ F[r] =< G[r]
      BY <1>2, <2>0, FirstElement
    <2>2. F[s] = a[x] + F[r] /\ G[s] = b[x] + G[r]
      BY <1>0, <1>2, <2>0 DEF SumOf
    <2>3. QED
      BY <2>1, <2>2
  <1>3. S \in Good
    <2> HIDE DEF Good
    <2>1. \A s \in SUBSET S : s \in Good
      BY <1>1, <1>2, SetInduction
    <2>2. QED
      BY <2>1
  <1>4. QED
    BY <1>3

\* The sum of the sums of terms.
LEMMA SumOfTwo ==
  ASSUME NEW S, IsFiniteSet(S), NEW a \in [S -> Int], NEW b \in [S -> Int],
         NEW c \in [S -> Int], \A x \in S : c[x] = a[x] + b[x],
         NEW F, NEW G, NEW H, Sums(F, a, S), Sums(G, b, S), Sums(H, c, S)
  PROVE  H[S] = F[S] + G[S]
  <1> DEFINE Good == {s \in SUBSET S : F[s] \in Int /\ G[s] \in Int /\ H[s] = F[s] + G[s]}
  <1>0. \A s \in SUBSET S :
          F[s] = SumOf(s, a, F) /\ G[s] = SumOf(s, b, G) /\ H[s] = SumOf(s, c, H)
    BY DEF Sums
  <1>1. {} \in Good
    <2>1. F[{}] = 0 /\ G[{}] = 0 /\ H[{}] = 0
      BY <1>0, Zenon DEF SumOf
    <2>2. QED
      BY <2>1
  <1>2. ASSUME NEW s \in SUBSET S, s # {}, s \ {Pick(s)} \in Good
        PROVE  s \in Good
    <2>0. PICK x, r : x = Pick(s) /\ r = s \ {x}
      OBVIOUS
    <2>1. x \in S /\ F[r] \in Int /\ G[r] \in Int /\ H[r] = F[r] + G[r]
      BY <1>2, <2>0, FirstElement
    <2>2. F[s] = a[x] + F[r] /\ G[s] = b[x] + G[r] /\ H[s] = c[x] + H[r]
      BY <1>0, <1>2, <2>0 DEF SumOf
    <2>3. QED
      BY <2>1, <2>2
  <1>3. S \in Good
    <2> HIDE DEF Good
    <2>1. \A s \in SUBSET S : s \in Good
      BY <1>1, <1>2, SetInduction
    <2>2. QED
      BY <2>1
  <1>4. QED
    BY <1>3

\* Terms of at most m, all but one of them, give at most m each.
LEMMA SumOfOthers ==
  ASSUME NEW S, IsFiniteSet(S), NEW a \in [S -> Int], NEW m \in Nat,
         \A x \in S : a[x] =< m, NEW F, Sums(F, a, S), NEW o \in S
  PROVE  F[S] =< a[o] + (Cardinality(S) - 1) * m
  <1> DEFINE Good == {s \in SUBSET S : F[s] \in Int /\ F[s] =< Cardinality(s) * m}
  <1>0. \A s \in SUBSET S : F[s] = SumOf(s, a, F)
    BY DEF Sums
  <1>1. {} \in Good
    <2>1. F[{}] = 0 /\ Cardinality({}) = 0
      BY <1>0, FS_EmptySet DEF SumOf
    <2>2. QED
      BY <2>1
  <1>2. ASSUME NEW s \in SUBSET S, s # {}, s \ {Pick(s)} \in Good
        PROVE  s \in Good
    <2>0. PICK x, r : x = Pick(s) /\ r = s \ {x}
      OBVIOUS
    <2>1. PICK k, l : k = Cardinality(s) /\ l = Cardinality(r)
      OBVIOUS
    <2>2. x \in S /\ F[r] \in Int /\ F[r] =< l * m /\ l = k - 1 /\ k \in Nat
      BY <1>2, <2>0, <2>1, FirstElement, SubsetSizes
    <2>3. F[s] = a[x] + F[r]
      BY <1>0, <1>2, <2>0 DEF SumOf
    <2>4. l * m + m = k * m
      BY <2>2
    <2>5. F[s] \in Int /\ F[s] =< k * m
      BY <2>2, <2>3, <2>4
    <2>6. QED
      BY <2>1, <2>5
  <1>3. S \ {o} \in Good
    <2> HIDE DEF Good
    <2>1. \A s \in SUBSET S : s \in Good
      BY <1>1, <1>2, SetInduction
    <2>2. QED
      BY <2>1
  <1>4. F[S] = a[o] + F[S \ {o}]
    BY SumTakes
  <1>5. Cardinality(S \ {o}) = Cardinality(S) - 1
    BY FS_RemoveElement
  <1>6. F[S \ {o}] =< (Cardinality(S) - 1) * m /\ F[S \ {o}] \in Int
    BY <1>3, <1>5
  <1>7. (Cardinality(S) - 1) * m \in Int /\ a[o] \in Int
    BY SubsetSizes
  <1>8. QED
    BY <1>4, <1>6, <1>7

\* SumFunctionOnSet is this sum.
LEMMA SumIsSum ==
  ASSUME NEW S, IsFiniteSet(S), NEW a, NEW F, Sums(F, a, S), NEW t \in SUBSET S
  PROVE  SumFunctionOnSet(a, t) = F[t]
  <1> DEFINE I == CHOOSE G : Sums(G, a, t)
             Good == {s \in SUBSET t : I[s] = F[s]}
  <1>1. SumFunctionOnSet(a, t) = I[t]
    BY Zenon DEF SumFunctionOnSet, FoldFunctionOnSet, MapThenFoldSet, Sums, SumOf, Pick
  <1>2. Sums([s \in SUBSET t |-> F[s]], a, t)
    <2>1. \A s \in SUBSET t : F[s] = SumOf(s, a, F)
      BY DEF Sums
    <2>2. ASSUME NEW s \in SUBSET t
          PROVE  SumOf(s, a, F) = SumOf(s, a, [x \in SUBSET t |-> F[x]])
      <3>1. s \ {Pick(s)} \in SUBSET t
        OBVIOUS
      <3>2. QED
        BY <3>1 DEF SumOf
    <2>3. QED
      BY <2>1, <2>2, Zenon DEF Sums
  <1>3. Sums(I, a, t)
    BY <1>2, Zenon
  <1> HIDE DEF I
  <1>4. \A s \in SUBSET t : I[s] = SumOf(s, a, I) /\ F[s] = SumOf(s, a, F)
    BY <1>3 DEF Sums
  <1>5. {} \in Good
    BY <1>4 DEF SumOf
  <1>6. ASSUME NEW s \in SUBSET t, s # {}, s \ {Pick(s)} \in Good
        PROVE  s \in Good
    BY <1>4, <1>6, Zenon DEF SumOf
  <1>7. IsFiniteSet(t)
    BY SubsetSizes
  <1>8. t \in Good
    <2> HIDE DEF Good
    <2>1. \A s \in SUBSET t : s \in Good
      BY <1>5, <1>6, <1>7, SetInduction
    <2>2. QED
      BY <2>1
  <1>9. QED
    BY <1>1, <1>8

-----------------------------------------------------------------------------
(* The same for SumFunctionOnSet. *)

LEMMA TotalFollows ==
  ASSUME NEW S, IsFiniteSet(S), NEW a, NEW b, NEW o, NEW n, OneDiffers(a, b, o, n, S)
  PROVE  /\ SumFunctionOnSet(a, S) \in Int
         /\ SumFunctionOnSet(b, S) = SumFunctionOnSet(a, S) + n
  <1>1. a \in [S -> Int] /\ b \in [S -> Int]
    BY DEF OneDiffers
  <1>2. PICK F : Sums(F, a, S)
    BY <1>1, SumExists
  <1>3. PICK G : Sums(G, b, S)
    BY <1>1, SumExists
  <1>4. SumFunctionOnSet(a, S) = F[S] /\ SumFunctionOnSet(b, S) = G[S]
    BY <1>2, <1>3, SumIsSum
  <1>5. QED
    BY <1>2, <1>3, <1>4, SumFollows

LEMMA TotalAtMost ==
  ASSUME NEW S, IsFiniteSet(S), NEW a \in [S -> Int], NEW b \in [S -> Int],
         \A x \in S : a[x] =< b[x]
  PROVE  /\ SumFunctionOnSet(a, S) \in Int /\ SumFunctionOnSet(b, S) \in Int
         /\ SumFunctionOnSet(a, S) =< SumFunctionOnSet(b, S)
  <1>1. PICK F : Sums(F, a, S)
    BY SumExists
  <1>2. PICK G : Sums(G, b, S)
    BY SumExists
  <1>3. SumFunctionOnSet(a, S) = F[S] /\ SumFunctionOnSet(b, S) = G[S]
    BY <1>1, <1>2, SumIsSum
  <1>4. F[S] \in Int
    BY <1>1, SumTakes
  <1>5. G[S] \in Int
    BY <1>2, SumTakes
  <1>6. QED
    BY <1>1, <1>2, <1>3, <1>4, <1>5, SumAtMost

LEMMA TotalOfTwo ==
  ASSUME NEW S, IsFiniteSet(S), NEW a \in [S -> Int], NEW b \in [S -> Int]
  PROVE  SumFunctionOnSet([x \in S |-> a[x] + b[x]], S)
           = SumFunctionOnSet(a, S) + SumFunctionOnSet(b, S)
  <1> DEFINE c == [x \in S |-> a[x] + b[x]]
  <1>1. c \in [S -> Int] /\ \A x \in S : c[x] = a[x] + b[x]
    OBVIOUS
  <1> HIDE DEF c
  <1>2. PICK F : Sums(F, a, S)
    BY SumExists
  <1>3. PICK G : Sums(G, b, S)
    BY SumExists
  <1>4. PICK H : Sums(H, c, S)
    BY <1>1, SumExists
  <1>5. /\ SumFunctionOnSet(a, S) = F[S] /\ SumFunctionOnSet(b, S) = G[S]
        /\ SumFunctionOnSet(c, S) = H[S]
    BY <1>2, <1>3, <1>4, SumIsSum
  <1>6. H[S] = F[S] + G[S]
    BY <1>1, <1>2, <1>3, <1>4, SumOfTwo
  <1>7. QED
    BY <1>5, <1>6 DEF c

LEMMA TotalOfOthers ==
  ASSUME NEW S, IsFiniteSet(S), NEW a \in [S -> Int], NEW m \in Nat,
         \A x \in S : a[x] =< m, NEW o \in S
  PROVE  SumFunctionOnSet(a, S) =< a[o] + (Cardinality(S) - 1) * m
  <1>1. PICK F : Sums(F, a, S)
    BY SumExists
  <1>2. SumFunctionOnSet(a, S) = F[S]
    BY <1>1, SumIsSum
  <1>3. F[S] =< a[o] + (Cardinality(S) - 1) * m
    BY <1>1, SumOfOthers
  <1>4. QED
    BY <1>2, <1>3

LEMMA TotalOfSubset ==
  ASSUME NEW S, IsFiniteSet(S), NEW a \in [S -> Int], NEW t \in SUBSET S,
         \A x \in S \ t : a[x] = 0
  PROVE  SumFunctionOnSet(a, t) = SumFunctionOnSet(a, S)
  <1>1. PICK F : Sums(F, a, S)
    BY SumExists
  <1>2. SumFunctionOnSet(a, S) = F[S] /\ SumFunctionOnSet(a, t) = F[t]
    BY <1>1, SumIsSum
  <1>3. F[S] = F[t]
    BY <1>1, SumOnSubset
  <1>4. QED
    BY <1>2, <1>3

LEMMA TotalOfZeros ==
  ASSUME NEW S, IsFiniteSet(S), NEW a \in [S -> Int], \A x \in S : a[x] = 0
  PROVE  SumFunctionOnSet(a, S) = 0
  <1>1. PICK F : Sums(F, a, S)
    BY SumExists
  <1>2. QED
    BY <1>1, SumIsSum, SumOfZeros

-----------------------------------------------------------------------------
(* Sequences: RemoveAt, RemoveFirst and InsertAt of the community modules. *)

\* Where the element at place i of a sequence stood before the one at k went.
Skip(k, i) == IF i < k THEN i ELSE i + 1

\* And where one that stood at o is then.
Back(k, o) == IF o < k THEN o ELSE o - 1

LEMMA RemoveAtFacts ==
  ASSUME NEW S, NEW s \in Seq(S), NEW k \in 1..Len(s)
  PROVE  /\ RemoveAt(s, k) \in Seq(S) /\ Len(RemoveAt(s, k)) = Len(s) - 1
         /\ \A i \in 1..(Len(s) - 1) : RemoveAt(s, k)[i] = s[Skip(k, i)]
  <1> DEFINE a == SubSeq(s, 1, k - 1)
             b == SubSeq(s, k + 1, Len(s))
  <1>1. Len(s) \in Nat /\ \A i \in 1..Len(s) : s[i] \in S
    BY LenProperties, ElementOfSeq
  <1>2. /\ a \in Seq(S) /\ Len(a) = k - 1
        /\ \A i \in 1..(k - 1) : a[i] = s[i]
    <2>1. /\ a \in Seq(S) /\ Len(a) = (IF 1 <= k - 1 THEN k - 1 - 1 + 1 ELSE 0)
          /\ \A i \in 1..(k - 1 - 1 + 1) : a[i] = s[1 + i - 1]
      BY <1>1, SubSeqProperties
    <2>2. QED
      BY <2>1, <1>1
  <1>3. /\ b \in Seq(S) /\ Len(b) = Len(s) - k
        /\ \A i \in 1..(Len(s) - k) : b[i] = s[k + i]
    <2>1. /\ b \in Seq(S)
          /\ Len(b) = (IF k + 1 <= Len(s) THEN Len(s) - (k + 1) + 1 ELSE 0)
          /\ \A i \in 1..(Len(s) - (k + 1) + 1) : b[i] = s[k + 1 + i - 1]
      BY <1>1, SubSeqProperties
    <2>2. QED
      BY <2>1, <1>1
  <1> HIDE DEF a, b
  <1>4. /\ a \o b \in Seq(S) /\ Len(a \o b) = Len(a) + Len(b)
        /\ \A i \in 1..(Len(a) + Len(b)) :
             (a \o b)[i] = IF i <= Len(a) THEN a[i] ELSE b[i - Len(a)]
    BY <1>2, <1>3, ConcatProperties
  <1>5. RemoveAt(s, k) = a \o b
    BY DEF RemoveAt, a, b
  <1>6. ASSUME NEW i \in 1..(Len(s) - 1) PROVE (a \o b)[i] = s[Skip(k, i)]
    <2>1. CASE i < k
      BY <1>1, <1>2, <1>3, <1>4, <2>1 DEF Skip
    <2>2. CASE ~(i < k)
      <3>1. i - (k - 1) \in 1..(Len(s) - k)
        BY <1>1, <2>2
      <3>2. (a \o b)[i] = b[i - (k - 1)] /\ b[i - (k - 1)] = s[k + (i - (k - 1))]
        BY <1>1, <1>2, <1>3, <1>4, <2>2, <3>1
      <3>3. k + (i - (k - 1)) = i + 1
        BY <1>1
      <3>4. QED
        BY <3>2, <3>3, <2>2 DEF Skip
    <2>3. QED
      BY <2>1, <2>2
  <1>7. QED
    BY <1>1, <1>2, <1>3, <1>4, <1>5, <1>6

LEMMA ConsFacts ==
  ASSUME NEW S, NEW s \in Seq(S), NEW e \in S
  PROVE  /\ <<e>> \o s \in Seq(S) /\ Len(<<e>> \o s) = Len(s) + 1
         /\ (<<e>> \o s)[1] = e
         /\ \A i \in 2..(Len(s) + 1) : (<<e>> \o s)[i] = s[i - 1]
  <1>1. <<e>> \in Seq(S) /\ Len(<<e>>) = 1 /\ <<e>>[1] = e /\ Len(s) \in Nat
    BY LenProperties
  <1>2. PICK t : t = <<e>>
    OBVIOUS
  <1>3. /\ t \o s \in Seq(S) /\ Len(t \o s) = Len(t) + Len(s)
        /\ \A i \in 1..(Len(t) + Len(s)) :
             (t \o s)[i] = IF i <= Len(t) THEN t[i] ELSE s[i - Len(t)]
    BY <1>1, <1>2, ConcatProperties
  <1>4. QED
    BY <1>1, <1>2, <1>3

LEMMA InsertAtFacts ==
  ASSUME NEW S, NEW s \in Seq(S), NEW k \in 1..(Len(s) + 1), NEW e \in S
  PROVE  /\ InsertAt(s, k, e) \in Seq(S) /\ Len(InsertAt(s, k, e)) = Len(s) + 1
         /\ InsertAt(s, k, e)[k] = e
         /\ \A i \in 1..Len(s) : InsertAt(s, k, e)[Skip(k, i)] = s[i]
  <1> DEFINE a == SubSeq(s, 1, k - 1)
             b == SubSeq(s, k, Len(s))
             c == <<e>>
  <1>1. Len(s) \in Nat /\ \A i \in 1..Len(s) : s[i] \in S
    BY LenProperties, ElementOfSeq
  <1>2. /\ a \in Seq(S) /\ Len(a) = k - 1
        /\ \A i \in 1..(k - 1) : a[i] = s[i]
    <2>1. /\ a \in Seq(S) /\ Len(a) = (IF 1 <= k - 1 THEN k - 1 - 1 + 1 ELSE 0)
          /\ \A i \in 1..(k - 1 - 1 + 1) : a[i] = s[1 + i - 1]
      BY <1>1, SubSeqProperties
    <2>2. QED
      BY <2>1, <1>1
  <1>3. /\ b \in Seq(S) /\ Len(b) = Len(s) - k + 1
        /\ \A i \in 1..(Len(s) - k + 1) : b[i] = s[k + i - 1]
    <2>1. /\ b \in Seq(S)
          /\ Len(b) = (IF k <= Len(s) THEN Len(s) - k + 1 ELSE 0)
          /\ \A i \in 1..(Len(s) - k + 1) : b[i] = s[k + i - 1]
      BY <1>1, SubSeqProperties
    <2>2. QED
      BY <2>1, <1>1
  <1>c. c \in Seq(S) /\ Len(c) = 1 /\ c[1] = e
    OBVIOUS
  <1> HIDE DEF a, b, c
  <1>4. /\ a \o c \in Seq(S) /\ Len(a \o c) = k
        /\ \A i \in 1..k : (a \o c)[i] = IF i <= k - 1 THEN a[i] ELSE c[i - (k - 1)]
    <2>1. /\ a \o c \in Seq(S) /\ Len(a \o c) = Len(a) + Len(c)
          /\ \A i \in 1..(Len(a) + Len(c)) :
               (a \o c)[i] = IF i <= Len(a) THEN a[i] ELSE c[i - Len(a)]
      BY <1>2, <1>c, ConcatProperties
    <2>2. QED
      BY <2>1, <1>1, <1>2, <1>c
  <1>5. PICK h : h = a \o c
    OBVIOUS
  <1>6. /\ h \o b \in Seq(S) /\ Len(h \o b) = Len(s) + 1
        /\ \A i \in 1..(Len(s) + 1) : (h \o b)[i] = IF i <= k THEN h[i] ELSE b[i - k]
    <2>1. /\ h \o b \in Seq(S) /\ Len(h \o b) = Len(h) + Len(b)
          /\ \A i \in 1..(Len(h) + Len(b)) :
               (h \o b)[i] = IF i <= Len(h) THEN h[i] ELSE b[i - Len(h)]
      <3>1. h \in Seq(S) /\ b \in Seq(S)
        BY <1>3, <1>4, <1>5
      <3>2. QED
        BY <3>1, ConcatProperties
    <2>2. Len(h) = k /\ Len(h) + Len(b) = Len(s) + 1
      <3>1. Len(h) = k
        BY <1>4, <1>5, Zenon
      <3>2. Len(b) = Len(s) - k + 1
        BY <1>3
      <3>3. QED
        BY <1>1, <3>1, <3>2
    <2>3. ASSUME NEW i \in 1..(Len(s) + 1)
          PROVE  (h \o b)[i] = IF i <= k THEN h[i] ELSE b[i - k]
      BY <2>1, <2>2, Zenon
    <2>4. QED
      BY <2>1, <2>2, <2>3
  <1>7. InsertAt(s, k, e) = h \o b
    BY <1>5 DEF InsertAt, a, b, c
  <1>8. (h \o b)[k] = e
    BY <1>1, <1>4, <1>5, <1>6, <1>c
  <1>9. ASSUME NEW i \in 1..Len(s) PROVE (h \o b)[Skip(k, i)] = s[i]
    <2>1. CASE i < k
      <3>1. (h \o b)[i] = h[i] /\ h[i] = a[i] /\ a[i] = s[i]
        BY <1>1, <1>2, <1>4, <1>5, <1>6, <2>1
      <3>2. QED
        BY <3>1, <2>1 DEF Skip
    <2>2. CASE ~(i < k)
      <3>1. i + 1 - k \in 1..(Len(s) - k + 1) /\ i + 1 \in 1..(Len(s) + 1) /\ ~(i + 1 <= k)
        BY <1>1, <2>2
      <3>2. (h \o b)[i + 1] = b[i + 1 - k] /\ b[i + 1 - k] = s[k + (i + 1 - k) - 1]
        BY <1>1, <1>3, <1>6, <3>1
      <3>3. k + (i + 1 - k) - 1 = i
        BY <1>1
      <3>4. QED
        BY <3>2, <3>3, <2>2 DEF Skip
    <2>3. QED
      BY <2>1, <2>2
  <1>10. QED
    BY <1>6, <1>7, <1>8, <1>9

LEMMA InsertedElements ==
  ASSUME NEW S, NEW s \in Seq(S), NEW k \in 1..(Len(s) + 1), NEW e \in S,
         NEW j \in 1..(Len(s) + 1), j # k
  PROVE  Back(k, j) \in 1..Len(s) /\ InsertAt(s, k, e)[j] = s[Back(k, j)]
  <1>1. Len(s) \in Nat
    BY LenProperties
  <1>2. Back(k, j) \in 1..Len(s) /\ Skip(k, Back(k, j)) = j
    BY <1>1 DEF Back, Skip
  <1>3. \A i \in 1..Len(s) : InsertAt(s, k, e)[Skip(k, i)] = s[i]
    BY InsertAtFacts
  <1>4. QED
    BY <1>2, <1>3

LEMMA RemoveFirstIsRemoveAt ==
  ASSUME NEW s, NEW e, NEW k \in 1..Len(s), s[k] = e,
         \A i \in 1..Len(s) : s[i] = e => i = k
  PROVE  RemoveFirst(s, e) = RemoveAt(s, k)
  <1>1. {i \in 1..Len(s) : s[i] = e} = {k}
    OBVIOUS
  <1>2. Min({k}) = k
    BY DEF Min
  <1>3. SelectInSeq(s, LAMBDA v : v = e) = k
    BY <1>1, <1>2 DEF SelectInSeq
  <1>4. QED
    BY <1>3, Zenon DEF RemoveFirst

LEMMA RemoveFirstOfNone ==
  ASSUME NEW s, NEW e, \A i \in 1..Len(s) : s[i] # e
  PROVE  RemoveFirst(s, e) = s
  BY DEF RemoveFirst
=============================================================================
