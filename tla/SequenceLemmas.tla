------------------------- MODULE SequenceLemmas -------------------------
(***************************************************************************)
(* Facts about natural numbers and about the operators of SequencesExt     *)
(* and Functions that several of the proof modules need.  Induction over  *)
(* the natural numbers is derived from their well-foundedness, so that it  *)
(* is stated about a set and not about a predicate.                        *)
(***************************************************************************)
EXTENDS Integers, Sequences, SequencesExt, SequenceTheorems,
        WellFoundedInduction, FiniteSetTheorems, TLAPS

\* A set of natural numbers that is not empty has a least element.
LEMMA LeastNatural ==
    ASSUME NEW U, U \subseteq Nat, U # {}
    PROVE  \E x \in U : \A y \in U : x <= y
  <1> DEFINE R == OpToRel(<, Nat)
  <1>1. IsWellFoundedOn(R, Nat)
    BY NatLessThanWellFounded
  <1>2. PICK x \in U : \A y \in U : ~(<<y, x>> \in R)
    <2> HIDE DEF R
    <2> QED BY <1>1, WFMin
  <1>3. ASSUME NEW y \in U, ~(x <= y) PROVE FALSE
    <2>1. x \in Nat /\ y \in Nat /\ y < x
      BY <1>3
    <2>2. <<y, x>> \in R
      BY <2>1 DEF OpToRel
    <2> QED BY <1>2, <2>2
  <1> QED BY <1>3

\* Induction over the natural numbers.
LEMMA NatInductive ==
    ASSUME NEW T, 0 \in T, \A n \in Nat : n \in T => n + 1 \in T
    PROVE  Nat \subseteq T
  <1> DEFINE U == Nat \ T
  <1>1. ASSUME U # {} PROVE FALSE
    <2>1. PICK x \in U : \A y \in U : x <= y
      BY <1>1, LeastNatural
    <2>2. x \in Nat /\ x # 0
      OBVIOUS
    <2>3. x - 1 \in Nat
      BY <2>2
    <2>4. x - 1 \in U
      BY <2>2, <2>3
    <2> QED BY <2>1, <2>2, <2>4
  <1> QED BY <1>1

\* A non-empty set of the first natural numbers has a greatest element.
LEMMA MaxOfInterval ==
    ASSUME NEW n \in Nat, NEW U, U \subseteq 1 .. n, U # {}
    PROVE  Max(U) \in U /\ \A y \in U : Max(U) >= y
  <1> DEFINE V == {k \in 0 .. n : \A y \in U : y <= k}
  <1>1. V \subseteq Nat /\ n \in V
    OBVIOUS
  <1>2. PICK v \in V : \A k \in V : v <= k
    <2> HIDE DEF V
    <2> QED BY <1>1, LeastNatural
  <1>3. v \in 0 .. n /\ \A y \in U : y <= v
    BY <1>2
  <1>4. v \in U
    <2>1. ASSUME v \notin U PROVE FALSE
      <3>1. PICK u \in U : TRUE
        OBVIOUS
      <3>2. u \in 1 .. n /\ u <= v
        BY <1>3
      <3>3. v - 1 \in 0 .. n /\ ~(v <= v - 1)
        BY <1>3, <3>2
      <3>4. \A y \in U : y <= v - 1
        BY <1>3, <2>1
      <3>5. v - 1 \in V
        BY <3>3, <3>4
      <3> QED BY <1>2, <3>3, <3>5
    <2> QED BY <2>1
  <1>5. \E x \in U : \A y \in U : x >= y
    BY <1>3, <1>4
  <1> QED BY <1>5, Zenon DEF Max

\* t is s without its k-th element, the first that is e.
ClosesGap(t, s, k, e, S) ==
    /\ s[k] = e
    /\ \A j \in 1 .. (k - 1) : s[j] # e
    /\ t \in Seq(S)
    /\ Len(t) = Len(s) - 1
    /\ \A j \in 1 .. (Len(s) - 1) : t[j] = IF j < k THEN s[j] ELSE s[j + 1]

\* RemoveFirst of an element that is there closes the gap it leaves.
LEMMA RemoveFirstProperties ==
    ASSUME NEW S, NEW s \in Seq(S), NEW e, \E i \in 1 .. Len(s) : s[i] = e
    PROVE  \E k \in 1 .. Len(s) : ClosesGap(RemoveFirst(s, e), s, k, e, S)
  <1> DEFINE I == {i \in 1 .. Len(s) : s[i] = e}
             k == Min(I)
             left == SubSeq(s, 1, k - 1)
             right == SubSeq(s, k + 1, Len(s))
  <1>1. I # {} /\ I \subseteq Nat
    OBVIOUS
  <1>2. \E x \in I : \A y \in I : x <= y
    <2> HIDE DEF I
    <2> QED BY <1>1, LeastNatural
  <1>3. k \in I /\ \A y \in I : k <= y
    <2> HIDE DEF I
    <2> QED BY <1>2, Zenon DEF Min
  <1>4. RemoveFirst(s, e) = left \o right
    BY <1>1, Zenon DEF RemoveFirst, RemoveAt, SelectInSeq
  <1> HIDE DEF k
  <1>5. k \in 1 .. Len(s) /\ s[k] = e /\ \A j \in 1 .. (k - 1) : s[j] # e
    BY <1>3
  <1>6. /\ left \in Seq(S) /\ Len(left) = k - 1
        /\ \A i \in 1 .. (k - 1) : left[i] = s[i]
    <2>1. \A i \in 1 .. (k - 1) : s[i] \in S
      BY <1>5
    <2> QED BY <1>5, <2>1
  <1>7. /\ right \in Seq(S) /\ Len(right) = Len(s) - k
        /\ \A i \in 1 .. (Len(s) - k) : right[i] = s[k + i]
    <2>1. \A i \in (k + 1) .. Len(s) : s[i] \in S
      BY <1>5
    <2> QED BY <1>5, <2>1
  <1> HIDE DEF left, right
  <1>8. /\ left \o right \in Seq(S) /\ Len(left \o right) = Len(s) - 1
        /\ \A j \in 1 .. (Len(s) - 1) :
              (left \o right)[j] = IF j < k THEN s[j] ELSE s[j + 1]
    <2>0. Len(s) \in Nat /\ k \in Int /\ Len(left) + Len(right) = Len(s) - 1
      BY <1>5, <1>6, <1>7
    <2>1. left \o right \in Seq(S) /\ Len(left \o right) = Len(s) - 1
      BY <1>6, <1>7, <2>0, ConcatProperties
    <2>2. ASSUME NEW j \in 1 .. (Len(s) - 1)
          PROVE  (left \o right)[j] = IF j < k THEN s[j] ELSE s[j + 1]
      <3>1. CASE j < k
        BY <1>5, <1>6, <1>7, <3>1
      <3>2. CASE ~(j < k)
        <4>1. j - (k - 1) \in 1 .. (Len(s) - k) /\ k + (j - (k - 1)) = j + 1
          BY <1>5, <3>2
        <4>2. (left \o right)[j] = right[j - (k - 1)]
          BY <1>5, <1>6, <1>7, <3>2
        <4> QED BY <1>7, <3>2, <4>1, <4>2
      <3> QED BY <3>1, <3>2
    <2> QED BY <2>1, <2>2
  <1> QED BY <1>4, <1>5, <1>8 DEF ClosesGap

\* Removing an element leaves a sequence of what was there.
LEMMA RemoveFirstType ==
    ASSUME NEW S, NEW s \in Seq(S), NEW e
    PROVE  RemoveFirst(s, e) \in Seq(S)
  <1>1. CASE \E i \in 1 .. Len(s) : s[i] = e
    BY <1>1, RemoveFirstProperties DEF ClosesGap
  <1>2. CASE ~\E i \in 1 .. Len(s) : s[i] = e
    BY <1>2 DEF RemoveFirst
  <1> QED BY <1>1, <1>2

\* What is at the head stays there when something is appended.
LEMMA HeadOfAppend ==
    ASSUME NEW S, NEW s \in Seq(S), NEW e \in S, s # <<>>
    PROVE  Append(s, e) # <<>> /\ Head(Append(s, e)) = Head(s)
  <1>1. Len(s) \in Nat \ {0}
    BY EmptySeq
  <1>2. Append(s, e) \in Seq(S) /\ Len(Append(s, e)) = Len(s) + 1
    OBVIOUS
  <1>3. Append(s, e)[1] = s[1]
    BY <1>1
  <1> QED BY <1>1, <1>2, <1>3

\* It stays there, too, when something else is removed.
LEMMA HeadOfRemoveFirst ==
    ASSUME NEW S, NEW s \in Seq(S), NEW e, s # <<>>, Head(s) # e
    PROVE  RemoveFirst(s, e) # <<>> /\ Head(RemoveFirst(s, e)) = Head(s)
  <1>0. Len(s) \in Nat \ {0} /\ Head(s) = s[1]
    BY EmptySeq
  <1>1. CASE \E i \in 1 .. Len(s) : s[i] = e
    <2> DEFINE t == RemoveFirst(s, e)
    <2>1. PICK k \in 1 .. Len(s) :
              /\ s[k] = e
              /\ t \in Seq(S)
              /\ Len(t) = Len(s) - 1
              /\ \A j \in 1 .. (Len(s) - 1) : t[j] = IF j < k THEN s[j] ELSE s[j + 1]
      BY <1>1, RemoveFirstProperties DEF ClosesGap
    <2> HIDE DEF t
    <2>2. k > 1 /\ Len(s) > 1
      BY <1>0, <2>1
    <2>3. t[1] = s[1] /\ Len(t) > 0
      BY <1>0, <2>1, <2>2
    <2>4. t # <<>> /\ Head(t) = Head(s)
      BY <1>0, <2>1, <2>3
    <2> QED BY <2>4 DEF t
  <1>2. CASE ~\E i \in 1 .. Len(s) : s[i] = e
    BY <1>2 DEF RemoveFirst
  <1> QED BY <1>1, <1>2

-----------------------------------------------------------------------------
(* SumFunction adds up the values of a function with a finite domain in the  *)
(* order in which CHOOSE takes the arguments.  The sum does not depend on it.*)

Taken(s) == CHOOSE x \in s : TRUE

\* g[s] is the sum of f over s, for the subsets s of D.
PartialSums(g, f, D) ==
    /\ g[{}] = 0
    /\ \A s \in SUBSET D : s # {} => g[s] = f[Taken(s)] + g[s \ {Taken(s)}]

Summable(f, D) == IsFiniteSet(D) /\ \A x \in D : f[x] \in Int

\* h on E has the values of f on D, and perhaps more.
Extends(h, E, f, D) ==
    IsFiniteSet(E) /\ D \subseteq E /\ \A x \in D : f[x] = h[x]

\* The arguments that are left when one has been taken.
LEMMA TakenFacts ==
    ASSUME NEW D, IsFiniteSet(D), NEW s \in SUBSET D, s # {}
    PROVE  /\ Taken(s) \in s
           /\ IsFiniteSet(s)
           /\ Cardinality(s) \in Nat \ {0}
           /\ \A x \in s : Cardinality(s \ {x}) = Cardinality(s) - 1
  <1>1. Taken(s) \in s
    BY Zenon DEF Taken
  <1>2. IsFiniteSet(s)
    BY FS_Subset
  <1>3. Cardinality(s) \in Nat /\ Cardinality(s) # 0
    BY <1>2, FS_CardinalityType, FS_EmptySet
  <1>4. \A x \in s : Cardinality(s \ {x}) = Cardinality(s) - 1
    BY <1>2, FS_RemoveElement
  <1> QED BY <1>1, <1>2, <1>3, <1>4

\* A sum over a finite set is reached term by term.
LEMMA SumSteps ==
    ASSUME NEW f, NEW D, IsFiniteSet(D)
    PROVE  \E g : PartialSums(g, f, D) /\ SumFunctionOnSet(f, D) = g[D]
  <1> DEFINE Small(k) == {s \in SUBSET D : Cardinality(s) <= k}
             Body(g, s) == IF s = {} THEN 0 ELSE f[Taken(s)] + g[s \ {Taken(s)}]
             Iter(g, Q) == g = [s \in Q |-> Body(g, s)]
             T == {k \in Nat : \E g : Iter(g, Small(k))}
  <1>0. Cardinality({}) = 0 /\ \A s \in SUBSET D : Cardinality(s) \in Nat
    BY FS_Subset, FS_CardinalityType, FS_EmptySet
  <1>1. 0 \in T
    <2>1. \A s \in Small(0) : s = {}
      <3>1. \A s \in SUBSET D : s # {} => Cardinality(s) \in Nat \ {0}
        BY TakenFacts
      <3> QED BY <3>1
    <2>2. PICK g : g = [s \in Small(0) |-> 0]
      OBVIOUS
    <2> HIDE DEF Small
    <2>3. Iter(g, Small(0))
      BY <2>1, <2>2
    <2> QED BY <2>3
  <1>2. ASSUME NEW k \in Nat, k \in T PROVE k + 1 \in T
    <2>1. PICK g : Iter(g, Small(k))
      BY <1>2
    <2> DEFINE w == [s \in Small(k + 1) |->
                        IF s \in Small(k) THEN g[s] ELSE Body(g, s)]
    <2>2. \A s \in Small(k) : g[s] = Body(g, s) /\ s \in Small(k + 1)
      <3>1. Small(k) \subseteq Small(k + 1)
        BY <1>0
      <3> HIDE DEF Small, Body
      <3>2. \A s \in Small(k) : g[s] = Body(g, s)
        BY <2>1, Zenon
      <3> QED BY <3>1, <3>2
    <2>3. /\ \A s \in Small(k + 1) : w[s] = IF s \in Small(k) THEN g[s] ELSE Body(g, s)
          /\ w = [s \in Small(k + 1) |-> w[s]]
      <3> HIDE DEF Small, Body
      <3> QED OBVIOUS
    <2>4. \A s \in Small(k + 1) : s # {} => s \ {Taken(s)} \in Small(k)
      <3>1. ASSUME NEW s \in Small(k + 1), s # {} PROVE s \ {Taken(s)} \in Small(k)
        <4>1. /\ Taken(s) \in s
              /\ Cardinality(s) \in Nat \ {0}
              /\ \A x \in s : Cardinality(s \ {x}) = Cardinality(s) - 1
          BY <3>1, TakenFacts
        <4> QED BY <4>1
      <3> QED BY <3>1
    <2> HIDE DEF Small, w, Iter
    <2>5. ASSUME NEW s \in Small(k + 1) PROVE w[s] = Body(w, s)
      <3>1. w[s] = Body(g, s)
        BY <2>2, <2>3
      <3>2. s # {} => w[s \ {Taken(s)}] = g[s \ {Taken(s)}]
        <4>1. ASSUME s # {} PROVE w[s \ {Taken(s)}] = g[s \ {Taken(s)}]
          <5>1. s \ {Taken(s)} \in Small(k) /\ s \ {Taken(s)} \in Small(k + 1)
            BY <2>2, <2>4, <4>1
          <5> HIDE DEF Body
          <5> QED BY <2>3, <5>1, Zenon
        <4> QED BY <4>1
      <3> QED BY <3>1, <3>2
    <2> HIDE DEF Body
    <2>6. w = [s \in Small(k + 1) |-> Body(w, s)]
      BY <2>3, <2>5, Zenon
    <2>7. Iter(w, Small(k + 1))
      BY <2>6 DEF Iter
    <2> QED BY <2>7 DEF T
  <1>3. Cardinality(D) \in T
    <2>1. Cardinality(D) \in Nat
      BY FS_CardinalityType
    <2> HIDE DEF T
    <2> QED BY <1>1, <1>2, <2>1, NatInductive
  <1>4. Small(Cardinality(D)) = SUBSET D
    BY FS_Subset
  <1> DEFINE iter == CHOOSE g : Iter(g, SUBSET D)
  <1>5. Iter(iter, SUBSET D)
    BY <1>3, <1>4
  <1>6. SumFunctionOnSet(f, D) = iter[D]
    BY Zenon DEF SumFunctionOnSet, FoldFunctionOnSet, MapThenFoldSet, Taken
  <1> HIDE DEF iter
  <1>7. PartialSums(iter, f, D)
    <2>1. \A s \in SUBSET D : iter[s] = Body(iter, s)
      <3> HIDE DEF Body
      <3> QED BY <1>5, Zenon
    <2> QED BY <2>1 DEF PartialSums
  <1> QED BY <1>6, <1>7, Zenon

\* Any argument may be taken first.
FreeOrder(g, f, D) ==
    \A s \in SUBSET D : g[s] \in Int /\ \A x \in s : g[s] = f[x] + g[s \ {x}]

\* The order of the terms does not matter.
LEMMA AnyOrder ==
    ASSUME NEW f, NEW D, Summable(f, D), NEW g, PartialSums(g, f, D)
    PROVE  FreeOrder(g, f, D)
  <1> USE DEF Summable
  <1> DEFINE Good(s) == g[s] \in Int /\ \A x \in s : g[s] = f[x] + g[s \ {x}]
             T == {k \in Nat : \A s \in SUBSET D : Cardinality(s) <= k => Good(s)}
  <1>0. \A s \in SUBSET D : s # {} =>
            /\ Taken(s) \in s
            /\ Cardinality(s) \in Nat \ {0}
            /\ \A x \in s : Cardinality(s \ {x}) = Cardinality(s) - 1
    BY TakenFacts
  <1>1. 0 \in T
    <2>1. Good({})
      BY DEF PartialSums
    <2>2. \A s \in SUBSET D : Cardinality(s) <= 0 => s = {}
      BY <1>0
    <2> HIDE DEF Good
    <2> QED BY <2>1, <2>2
  <1>2. ASSUME NEW k \in Nat, k \in T PROVE k + 1 \in T
    <2> SUFFICES ASSUME NEW s \in SUBSET D, Cardinality(s) <= k + 1, s # {}
                 PROVE  Good(s)
      <3>1. Good({})
        BY DEF PartialSums
      <3> HIDE DEF Good
      <3> QED BY <3>1
    <2> DEFINE c == Taken(s)
    <2>1. /\ c \in s
          /\ Cardinality(s) \in Nat \ {0}
          /\ \A x \in s : Cardinality(s \ {x}) = Cardinality(s) - 1
      BY <1>0
    <2>2. g[s] = f[c] + g[s \ {c}]
      BY DEF PartialSums
    <2>3. \A x \in s : Cardinality(s \ {x}) <= k
      BY <2>1
    <2> HIDE DEF c, Good
    <2>4. \A x \in s : Good(s \ {x})
      BY <1>2, <2>3
    <2> USE DEF Good
    <2>5. g[s] \in Int
      <3>1. f[c] \in Int /\ g[s \ {c}] \in Int
        BY <2>1, <2>4
      <3> QED BY <2>2, <3>1
    <2>6. ASSUME NEW x \in s PROVE g[s] = f[x] + g[s \ {x}]
      <3>1. CASE x = c
        BY <2>2, <3>1
      <3>2. CASE x # c
        <4>1. (s \ {c}) \ {x} = (s \ {x}) \ {c}
          OBVIOUS
        <4>2. PICK r : r = (s \ {x}) \ {c}
          OBVIOUS
        <4>3. g[s \ {c}] = f[x] + g[r]
          <5>1. x \in s \ {c} /\ Good(s \ {c})
            BY <2>1, <2>4, <3>2
          <5> QED BY <4>1, <4>2, <5>1
        <4>4. g[s \ {x}] = f[c] + g[r]
          <5>1. c \in s \ {x} /\ Good(s \ {x})
            BY <2>1, <2>4, <3>2
          <5> QED BY <4>2, <5>1
        <4>5. g[r] \in Int
          <5>1. s \ {x} \in SUBSET D /\ s \ {x} # {} /\ c \in s \ {x}
            BY <2>1, <3>2
          <5>2. Cardinality(r) = Cardinality(s \ {x}) - 1 /\ Cardinality(s \ {x}) \in Nat
            BY <1>0, <4>2, <5>1
          <5>3. r \in SUBSET D /\ Cardinality(r) <= k
            BY <2>3, <4>2, <5>2
          <5>4. Good(r)
            <6> HIDE DEF Good
            <6> QED BY <1>2, <5>3
          <5> QED BY <5>4
        <4>6. f[x] \in Int /\ f[c] \in Int
          BY <2>1
        <4> QED BY <2>2, <4>3, <4>4, <4>5, <4>6
      <3> QED BY <3>1, <3>2
    <2> QED BY <2>5, <2>6
  <1>3. ASSUME NEW s \in SUBSET D PROVE Good(s)
    <2>1. Cardinality(s) \in Nat
      BY FS_Subset, FS_CardinalityType
    <2>2. Cardinality(s) \in T
      <3> HIDE DEF T
      <3> QED BY <1>1, <1>2, <2>1, NatInductive
    <2> HIDE DEF Good
    <2> QED BY <2>1, <2>2
  <1> QED BY <1>3 DEF FreeOrder

\* The sum over a set depends on the values there only.
LEMMA SameSums ==
    ASSUME NEW f, NEW h, NEW D, NEW E, Extends(h, E, f, D),
           NEW g, PartialSums(g, f, D), NEW w, PartialSums(w, h, E)
    PROVE  \A s \in SUBSET D : g[s] = w[s]
  <1> USE DEF Extends
  <1> DEFINE T == {k \in Nat : \A s \in SUBSET D : Cardinality(s) <= k => g[s] = w[s]}
  <1>0. \A s \in SUBSET D : s # {} =>
            /\ Taken(s) \in s
            /\ Cardinality(s) \in Nat \ {0}
            /\ \A x \in s : Cardinality(s \ {x}) = Cardinality(s) - 1
    BY TakenFacts
  <1>1. 0 \in T
    <2>1. \A s \in SUBSET D : Cardinality(s) <= 0 => s = {}
      BY <1>0
    <2> QED BY <2>1 DEF PartialSums
  <1>2. ASSUME NEW k \in Nat, k \in T PROVE k + 1 \in T
    <2> SUFFICES ASSUME NEW s \in SUBSET D, Cardinality(s) <= k + 1, s # {}
                 PROVE  g[s] = w[s]
      <3>1. g[{}] = w[{}]
        BY DEF PartialSums
      <3> QED BY <3>1
    <2> DEFINE c == Taken(s)
    <2>1. /\ c \in s
          /\ Cardinality(s) \in Nat \ {0}
          /\ Cardinality(s \ {c}) = Cardinality(s) - 1
      BY <1>0
    <2>2. g[s] = f[c] + g[s \ {c}] /\ w[s] = h[c] + w[s \ {c}]
      BY DEF PartialSums
    <2> HIDE DEF c
    <2>3. s \ {c} \in SUBSET D /\ Cardinality(s \ {c}) <= k
      BY <2>1
    <2>4. g[s \ {c}] = w[s \ {c}]
      BY <1>2, <2>3
    <2> QED BY <2>1, <2>2, <2>4
  <1>3. ASSUME NEW s \in SUBSET D PROVE g[s] = w[s]
    <2>1. Cardinality(s) \in Nat
      BY FS_Subset, FS_CardinalityType
    <2>2. Cardinality(s) \in T
      <3> HIDE DEF T
      <3> QED BY <1>1, <1>2, <2>1, NatInductive
    <2> QED BY <2>1, <2>2
  <1> QED BY <1>3

\* One more argument adds its value, and no argument at all gives zero.
LEMMA SumOfOneMore ==
    ASSUME NEW f, IsFiniteSet(DOMAIN f), \A y \in DOMAIN f : f[y] \in Int,
           NEW h, NEW x, x \notin DOMAIN f, DOMAIN h = DOMAIN f \cup {x},
           \A y \in DOMAIN f : h[y] = f[y], h[x] \in Int
    PROVE  SumFunction(h) = SumFunction(f) + h[x] /\ SumFunction(f) \in Int
  <1> DEFINE D == DOMAIN f
             E == DOMAIN h
  <1>1. IsFiniteSet(E) /\ D \subseteq E /\ E \ {x} = D /\ x \in E
    BY FS_AddElement
  <1> HIDE DEF E, D
  <1>2. PICK g : PartialSums(g, f, D) /\ SumFunctionOnSet(f, D) = g[D]
    BY SumSteps DEF D
  <1>3. PICK w : PartialSums(w, h, E) /\ SumFunctionOnSet(h, E) = w[E]
    BY <1>1, SumSteps
  <1>4. g[D] = w[D]
    <2>1. Extends(h, E, f, D)
      BY <1>1 DEF D, Extends
    <2>2. \A s \in SUBSET D : g[s] = w[s]
      BY <1>2, <1>3, <2>1, SameSums
    <2> QED BY <2>2
  <1>5. w[E] = h[x] + w[D] /\ w[D] \in Int
    <2>1. Summable(h, E)
      BY <1>1 DEF D, E, Summable
    <2>2. D \in SUBSET E /\ E \in SUBSET E
      BY <1>1
    <2>3. FreeOrder(w, h, E)
      BY <1>3, <2>1, AnyOrder
    <2> QED BY <1>1, <2>2, <2>3, Zenon DEF FreeOrder
  <1>6. SumFunction(f) = g[D] /\ SumFunction(h) = w[E]
    BY <1>2, <1>3 DEF SumFunction, D, E
  <1>7. h[x] \in Int
    OBVIOUS
  <1> QED BY <1>1, <1>4, <1>5, <1>6, <1>7

\* A sum of no terms is zero.
LEMMA SumOfNothing ==
    ASSUME NEW f, DOMAIN f = {}
    PROVE  SumFunction(f) = 0
  <1>1. PICK g : PartialSums(g, f, {}) /\ SumFunctionOnSet(f, {}) = g[{}]
    BY SumSteps, FS_EmptySet
  <1> QED BY <1>1 DEF PartialSums, SumFunction

\* A sum of integers is an integer.
LEMMA SumType ==
    ASSUME NEW f, IsFiniteSet(DOMAIN f), \A y \in DOMAIN f : f[y] \in Int
    PROVE  SumFunction(f) \in Int
  <1>1. PICK D : D = DOMAIN f
    OBVIOUS
  <1>2. PICK g : PartialSums(g, f, D) /\ SumFunctionOnSet(f, D) = g[D]
    BY <1>1, SumSteps
  <1>3. g[D] \in Int
    <2>1. D \in SUBSET D /\ Summable(f, D)
      BY <1>1 DEF Summable
    <2>2. FreeOrder(g, f, D)
      BY <1>2, <2>1, AnyOrder
    <2> QED BY <2>1, <2>2 DEF FreeOrder
  <1> QED BY <1>1, <1>2, <1>3 DEF SumFunction

\* A sum of zeros is zero.
LEMMA SumOfZeros ==
    ASSUME NEW f, IsFiniteSet(DOMAIN f), \A y \in DOMAIN f : f[y] = 0
    PROVE  SumFunction(f) = 0
  <1>1. PICK D : D = DOMAIN f
    OBVIOUS
  <1>2. PICK g : PartialSums(g, f, D) /\ SumFunctionOnSet(f, D) = g[D]
    BY <1>1, SumSteps
  <1> DEFINE T == {k \in Nat : \A s \in SUBSET D : Cardinality(s) <= k => g[s] = 0}
  <1>3. \A s \in SUBSET D : s # {} =>
            /\ Taken(s) \in s
            /\ Cardinality(s) \in Nat \ {0}
            /\ Cardinality(s \ {Taken(s)}) = Cardinality(s) - 1
    BY <1>1, TakenFacts
  <1>4. g[{}] = 0
    BY <1>2 DEF PartialSums
  <1>5. \A s \in SUBSET D : s # {} => g[s] = f[Taken(s)] + g[s \ {Taken(s)}]
    BY <1>2, Zenon DEF PartialSums
  <1>6. 0 \in T
    <2>1. ASSUME NEW s \in SUBSET D, Cardinality(s) <= 0 PROVE s = {}
      <3>1. ASSUME s # {} PROVE FALSE
        <4>1. Cardinality(s) \in Nat \ {0}
          BY <1>3, <3>1
        <4> QED BY <2>1, <4>1
      <3> QED BY <3>1
    <2> QED BY <1>4, <2>1
  <1>7. ASSUME NEW k \in Nat, k \in T PROVE k + 1 \in T
    <2>1. ASSUME NEW s \in SUBSET D, Cardinality(s) <= k + 1, s # {} PROVE g[s] = 0
      <3>1. Taken(s) \in D /\ s \ {Taken(s)} \in SUBSET D
        BY <1>3, <2>1
      <3>2. Cardinality(s \ {Taken(s)}) <= k
        BY <1>3, <2>1
      <3>3. g[s \ {Taken(s)}] = 0
        BY <1>7, <3>1, <3>2
      <3>4. f[Taken(s)] = 0
        BY <1>1, <3>1
      <3>5. g[s] = f[Taken(s)] + g[s \ {Taken(s)}]
        BY <1>5, <2>1
      <3> QED BY <3>3, <3>4, <3>5
    <2>2. \A s \in SUBSET D : Cardinality(s) <= k + 1 => g[s] = 0
      BY <1>4, <2>1
    <2> QED BY <2>2
  <1>8. Cardinality(D) \in T
    <2>1. Cardinality(D) \in Nat
      BY <1>1, FS_CardinalityType
    <2> HIDE DEF T
    <2> QED BY <1>6, <1>7, <2>1, NatInductive
  <1>9. g[D] = 0
    <2>1. Cardinality(D) \in Nat
      BY <1>1, FS_CardinalityType
    <2> QED BY <1>8, <2>1
  <1> QED BY <1>1, <1>2, <1>9 DEF SumFunction

\* Changing one value changes the sum by the difference.
LEMMA SumOfChange ==
    ASSUME NEW f, IsFiniteSet(DOMAIN f), \A y \in DOMAIN f : f[y] \in Int,
           NEW h, DOMAIN h = DOMAIN f, NEW x \in DOMAIN f, h[x] \in Int,
           \A y \in DOMAIN f \ {x} : h[y] = f[y]
    PROVE  SumFunction(h) = SumFunction(f) - f[x] + h[x]
  <1>1. PICK r : r = [y \in DOMAIN f \ {x} |-> f[y]]
    OBVIOUS
  <1>2. /\ DOMAIN r = DOMAIN f \ {x} /\ \A y \in DOMAIN r : r[y] = f[y] /\ r[y] \in Int
        /\ DOMAIN f = DOMAIN r \cup {x} /\ x \notin DOMAIN r
    BY <1>1
  <1>3. IsFiniteSet(DOMAIN r)
    BY <1>2, FS_Subset
  <1>4. SumFunction(f) = SumFunction(r) + f[x] /\ SumFunction(r) \in Int
    BY <1>2, <1>3, SumOfOneMore
  <1>5. SumFunction(h) = SumFunction(r) + h[x]
    BY <1>2, <1>3, SumOfOneMore
  <1> QED BY <1>4, <1>5

\* h is f without its first value.
Shifted(h, f, n) ==
    /\ DOMAIN f = 1 .. (n + 1) /\ DOMAIN h = 1 .. n
    /\ \A i \in 1 .. (n + 1) : f[i] \in Int
    /\ \A i \in 1 .. n : h[i] = f[i + 1]

\* The sum without the first value of a sequence is less by that value.
LEMMA SumOfShifted ==
    ASSUME NEW n \in Nat, NEW f, NEW h, Shifted(h, f, n)
    PROVE  SumFunction(f) = f[1] + SumFunction(h) /\ SumFunction(h) \in Int
  <1> USE DEF Shifted
  <1> DEFINE Sums(k) == \A f0, h0 : Shifted(h0, f0, k) =>
                            /\ SumFunction(f0) = f0[1] + SumFunction(h0)
                            /\ SumFunction(h0) \in Int
             T == {k \in Nat : Sums(k)}
  <1>1. Sums(0)
    <2> SUFFICES ASSUME NEW f0, NEW h0, Shifted(h0, f0, 0)
                 PROVE  /\ SumFunction(f0) = f0[1] + SumFunction(h0)
                        /\ SumFunction(h0) \in Int
      OBVIOUS
    <2>1. DOMAIN h0 = {} /\ DOMAIN f0 = {1} /\ f0[1] \in Int
      OBVIOUS
    <2>2. IsFiniteSet(DOMAIN h0)
      BY <2>1, FS_EmptySet
    <2>3. SumFunction(f0) = SumFunction(h0) + f0[1] /\ SumFunction(h0) \in Int
      BY <2>1, <2>2, SumOfOneMore
    <2> QED BY <2>1, <2>3
  <1>2. ASSUME NEW k \in Nat, Sums(k) PROVE Sums(k + 1)
    <2> SUFFICES ASSUME NEW f0, NEW h0, Shifted(h0, f0, k + 1)
                 PROVE  /\ SumFunction(f0) = f0[1] + SumFunction(h0)
                        /\ SumFunction(h0) \in Int
      OBVIOUS
    <2>1. PICK f1 : f1 = [i \in 1 .. (k + 1) |-> f0[i]]
      OBVIOUS
    <2>2. PICK h1 : h1 = [i \in 1 .. k |-> h0[i]]
      OBVIOUS
    <2>a. /\ DOMAIN f0 = 1 .. (k + 2) /\ DOMAIN h0 = 1 .. (k + 1)
          /\ \A i \in 1 .. (k + 2) : f0[i] \in Int
          /\ \A i \in 1 .. (k + 1) : i + 1 \in 1 .. (k + 2) /\ h0[i] = f0[i + 1]
      OBVIOUS
    <2>b. \A i \in 1 .. (k + 1) : i \in 1 .. (k + 2) /\ h0[i] \in Int
      BY <2>a
    <2>c. \A i \in 1 .. k : i \in 1 .. (k + 1)
      OBVIOUS
    <2>3. /\ DOMAIN f1 = 1 .. (k + 1) /\ \A i \in DOMAIN f1 : f1[i] = f0[i] /\ f1[i] \in Int
          /\ DOMAIN h1 = 1 .. k /\ \A i \in DOMAIN h1 : h1[i] = h0[i] /\ h1[i] \in Int
      <3> HIDE DEF Shifted
      <3>1. DOMAIN f1 = 1 .. (k + 1) /\ \A i \in DOMAIN f1 : f1[i] = f0[i] /\ f1[i] \in Int
        BY <2>1, <2>a, <2>b
      <3>2. DOMAIN h1 = 1 .. k /\ \A i \in DOMAIN h1 : h1[i] = h0[i] /\ h1[i] \in Int
        BY <2>2, <2>b, <2>c
      <3> QED BY <3>1, <3>2
    <2>4. /\ DOMAIN f0 = DOMAIN f1 \cup {k + 2} /\ k + 2 \notin DOMAIN f1
          /\ DOMAIN h0 = DOMAIN h1 \cup {k + 1} /\ k + 1 \notin DOMAIN h1
          /\ f0[k + 2] \in Int /\ h0[k + 1] = f0[k + 2]
      <3> HIDE DEF Shifted
      <3>1. /\ 1 .. (k + 2) = (1 .. (k + 1)) \cup {k + 2} /\ k + 2 \notin 1 .. (k + 1)
            /\ 1 .. (k + 1) = (1 .. k) \cup {k + 1} /\ k + 1 \notin 1 .. k
            /\ k + 1 \in 1 .. (k + 1) /\ (k + 1) + 1 = k + 2 /\ k + 2 \in 1 .. (k + 2)
        OBVIOUS
      <3>2. f0[k + 2] \in Int /\ h0[k + 1] = f0[k + 2]
        BY <2>a, <3>1
      <3> QED BY <2>3, <2>a, <3>1, <3>2
    <2>5. IsFiniteSet(DOMAIN f1) /\ IsFiniteSet(DOMAIN h1)
      BY <2>3, FS_Interval
    <2>6. SumFunction(f0) = SumFunction(f1) + f0[k + 2]
      <3>1. \A i \in DOMAIN f1 : f1[i] \in Int /\ f0[i] = f1[i]
        BY <2>3
      <3> HIDE DEF Shifted
      <3> QED BY <2>4, <2>5, <3>1, SumOfOneMore
    <2>7. SumFunction(h0) = SumFunction(h1) + h0[k + 1]
      <3>1. \A i \in DOMAIN h1 : h1[i] \in Int /\ h0[i] = h1[i]
        BY <2>3
      <3> HIDE DEF Shifted
      <3> QED BY <2>4, <2>5, <3>1, SumOfOneMore
    <2>8. Shifted(h1, f1, k)
      <3>1. \A i \in 1 .. k : i \in 1 .. (k + 1) /\ i + 1 \in 1 .. (k + 1)
        OBVIOUS
      <3>2. \A i \in 1 .. (k + 1) : h0[i] = f0[i + 1]
        OBVIOUS
      <3>3. \A i \in 1 .. k : h1[i] = f1[i + 1]
        BY <2>3, <3>1, <3>2
      <3> QED BY <2>3, <3>3
    <2>9. SumFunction(f1) = f1[1] + SumFunction(h1) /\ SumFunction(h1) \in Int
      <3> HIDE DEF Shifted
      <3> QED BY <1>2, <2>8
    <2>10. f1[1] = f0[1] /\ f0[1] \in Int
      BY <2>3
    <2> QED BY <2>4, <2>6, <2>7, <2>9, <2>10
  <1>3. n \in T
    <2>1. 0 \in T /\ \A k \in Nat : k \in T => k + 1 \in T
      <3> HIDE DEF Sums
      <3> QED BY <1>1, <1>2
    <2> HIDE DEF T
    <2> QED BY <2>1, NatInductive
  <1>4. Sums(n)
    <2> HIDE DEF Sums
    <2> QED BY <1>3
  <1> QED
    <2> HIDE DEF Shifted
    <2> QED BY <1>4

==========================================================================
