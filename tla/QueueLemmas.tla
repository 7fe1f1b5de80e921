------------------------------ MODULE QueueLemmas ------------------------------
(***************************************************************************)
(* What appending, taking the head and removing at an index do to a queue   *)
(* without repetitions and to the set of its elements: the three changes    *)
(* scheduling.py makes to `pending'.  And induction on a finite set, with   *)
(* the recursion a fold over a sequence stands for.                         *)
(*                                                                         *)
(* The library's induction theorems take a predicate as an operator, which  *)
(* the provers cannot instantiate, so the induction is stated for a set of  *)
(* sets, and the recursion for a function.                                  *)
(***************************************************************************)
EXTENDS Sequences, SequencesExt, SequenceTheorems, FiniteSetTheorems,
        WellFoundedInduction, TLAPS

\* pending.pop(i): one element shorter, the later ones moved down.
LEMMA RemoveAtFacts ==
  ASSUME NEW S, NEW s \in Seq(S), NEW i \in 1 .. Len(s)
  PROVE  /\ RemoveAt(s, i) \in Seq(S)
         /\ Len(RemoveAt(s, i)) = Len(s) - 1
         /\ \A j \in 1 .. Len(s) - 1 :
              RemoveAt(s, i)[j] = IF j < i THEN s[j] ELSE s[j + 1]
<1> DEFINE before == SubSeq(s, 1, i - 1)
           after == SubSeq(s, i + 1, Len(s))
<1>1. /\ before \in Seq(S) /\ Len(before) = i - 1
      /\ \A j \in 1 .. i - 1 : before[j] = s[j]
  OBVIOUS
<1>2. /\ after \in Seq(S) /\ Len(after) = Len(s) - i
      /\ \A j \in 1 .. Len(s) - i : after[j] = s[i + j]
  OBVIOUS
<1> HIDE DEF before, after
<1>a. /\ before \o after \in Seq(S)
      /\ Len(before \o after) = Len(before) + Len(after)
      /\ \A j \in 1 .. Len(before) + Len(after) : (before \o after)[j] =
           IF j <= Len(before) THEN before[j] ELSE after[j - Len(before)]
  BY <1>1, <1>2, ConcatProperties
<1>3. Len(s) \in Nat /\ i \in Nat /\ 1 <= i /\ i <= Len(s)
  OBVIOUS
<1> DEFINE both == before \o after
<1>4. Len(both) = Len(s) - 1
  BY <1>a, <1>1, <1>2, <1>3
<1>5. ASSUME NEW j \in 1 .. Len(s) - 1
      PROVE  both[j] = IF j < i THEN s[j] ELSE s[j + 1]
  <2> HIDE DEF both
  <2>1. both[j] = IF j <= i - 1 THEN before[j] ELSE after[j - (i - 1)]
    BY <1>a, <1>1, <1>2, <1>3 DEF both
  <2>2. CASE j < i
    BY <2>1, <2>2, <1>1, <1>3
  <2>3. CASE j >= i
    <3>1. both[j] = after[j - (i - 1)]
      BY <2>1, <2>3, <1>3
    <3>2. j - (i - 1) \in 1 .. Len(s) - i /\ i + (j - (i - 1)) = j + 1
      BY <2>3, <1>3
    <3> QED
      BY <3>1, <3>2, <2>3, <1>2, <1>3
  <2> QED
    BY <2>2, <2>3, <1>3
<1> QED
  BY <1>a, <1>4, <1>5 DEF before, after, RemoveAt

\* pending.pop(i) takes out just that element.
LEMMA RemoveAtSet ==
  ASSUME NEW S, NEW s \in Seq(S), NEW i \in 1 .. Len(s), IsInjective(s)
  PROVE  /\ IsInjective(RemoveAt(s, i))
         /\ ToSet(RemoveAt(s, i)) = ToSet(s) \ {s[i]}
<1> DEFINE r == RemoveAt(s, i)
           Old(j) == IF j < i THEN j ELSE j + 1
<1>1. /\ r \in Seq(S) /\ Len(r) = Len(s) - 1
      /\ \A j \in 1 .. Len(s) - 1 : r[j] = IF j < i THEN s[j] ELSE s[j + 1]
  BY RemoveAtFacts
<1>2. Len(s) \in Nat /\ i \in Nat /\ DOMAIN s = 1 .. Len(s) /\ DOMAIN r = 1 .. Len(s) - 1
  BY <1>1
<1>3. \A j \in DOMAIN r : Old(j) \in DOMAIN s /\ Old(j) # i /\ r[j] = s[Old(j)]
  BY <1>1, <1>2
<1>4. \A j \in DOMAIN s : j # i => \E k \in DOMAIN r : j = Old(k)
  <2> SUFFICES ASSUME NEW j \in DOMAIN s, j # i
               PROVE  \E k \in DOMAIN r : j = Old(k)
    OBVIOUS
  <2>1. CASE j < i
    BY <2>1, <1>2
  <2>2. CASE j > i
    <3>1. j - 1 \in DOMAIN r /\ j = Old(j - 1)
      BY <2>2, <1>2
    <3> QED
      BY <3>1
  <2> QED
    BY <2>1, <2>2, <1>2
<1>5. \A j, k \in DOMAIN r : Old(j) = Old(k) => j = k
  BY <1>2
<1> HIDE DEF r, Old
<1>6. IsInjective(r)
  BY <1>3, <1>5 DEF IsInjective
<1>7. ToSet(r) = ToSet(s) \ {s[i]}
  BY <1>2, <1>3, <1>4 DEF ToSet, IsInjective
<1> QED
  BY <1>6, <1>7 DEF r

\* pending.pop(0) takes out the head.
LEMMA TailSet ==
  ASSUME NEW S, NEW s \in Seq(S), s # <<>>, IsInjective(s)
  PROVE  /\ Tail(s) \in Seq(S) /\ Head(s) \in ToSet(s)
         /\ IsInjective(Tail(s))
         /\ ToSet(Tail(s)) = ToSet(s) \ {Head(s)}
<1>1. /\ Tail(s) \in Seq(S) /\ Len(Tail(s)) = Len(s) - 1
      /\ \A i \in 1 .. Len(Tail(s)) : Tail(s)[i] = s[i + 1]
  BY HeadTailProperties
<1>2. /\ Len(s) \in Nat \ {0} /\ DOMAIN s = 1 .. Len(s) /\ Head(s) = s[1]
      /\ DOMAIN Tail(s) = 1 .. Len(s) - 1
  BY <1>1
<1>3. Head(s) \in ToSet(s)
  BY <1>2 DEF ToSet
<1>4. IsInjective(Tail(s))
  BY <1>1, <1>2 DEF IsInjective
<1>5. \A j \in DOMAIN s : j # 1 => \E k \in DOMAIN Tail(s) : Tail(s)[k] = s[j]
  <2>1. \A j \in DOMAIN s : j # 1 => j - 1 \in DOMAIN Tail(s) /\ Tail(s)[j - 1] = s[j]
    BY <1>1, <1>2
  <2> QED
    BY <2>1
<1>6. \A k \in DOMAIN Tail(s) : \E j \in DOMAIN s : j # 1 /\ Tail(s)[k] = s[j]
  <2>1. \A k \in DOMAIN Tail(s) : k + 1 \in DOMAIN s /\ k + 1 # 1 /\ Tail(s)[k] = s[k + 1]
    BY <1>1, <1>2
  <2> QED
    BY <2>1
<1>7. ToSet(Tail(s)) \subseteq ToSet(s) \ {Head(s)}
  <2> SUFFICES ASSUME NEW k \in DOMAIN Tail(s)
               PROVE  Tail(s)[k] \in ToSet(s) \ {Head(s)}
    BY DEF ToSet
  <2>1. PICK j \in DOMAIN s : j # 1 /\ Tail(s)[k] = s[j]
    BY <1>6
  <2>2. 1 \in DOMAIN s /\ s[j] # s[1]
    BY <2>1, <1>2 DEF IsInjective
  <2> QED
    BY <2>1, <2>2, <1>2 DEF ToSet
<1>8. ToSet(s) \ {Head(s)} \subseteq ToSet(Tail(s))
  <2> SUFFICES ASSUME NEW j \in DOMAIN s, s[j] # s[1]
               PROVE  s[j] \in ToSet(Tail(s))
    BY <1>2 DEF ToSet
  <2>1. PICK k \in DOMAIN Tail(s) : Tail(s)[k] = s[j]
    BY <1>5
  <2> QED
    BY <2>1 DEF ToSet
<1> QED
  BY <1>1, <1>3, <1>4, <1>7, <1>8

\* The elements of a sequence with one more at the end.
LEMMA AppendedSet ==
  ASSUME NEW S, NEW s \in Seq(S), NEW e \in S
  PROVE  Append(s, e) \in Seq(S) /\ ToSet(Append(s, e)) = ToSet(s) \cup {e}
<1>1. /\ Len(s) \in Nat /\ DOMAIN s = 1 .. Len(s)
      /\ DOMAIN Append(s, e) = 1 .. Len(s) + 1
      /\ Append(s, e)[Len(s) + 1] = e
      /\ \A j \in 1 .. Len(s) : Append(s, e)[j] = s[j]
  OBVIOUS
<1>2. \A j \in DOMAIN Append(s, e) : j = Len(s) + 1 \/ j \in DOMAIN s
  BY <1>1
<1>3. \A j \in DOMAIN s : j \in DOMAIN Append(s, e)
  BY <1>1
<1>4. Len(s) + 1 \in DOMAIN Append(s, e)
  BY <1>1
<1> QED BY <1>1, <1>2, <1>3, <1>4 DEF ToSet

\* pending.append(e) adds one element.
LEMMA AppendSet ==
  ASSUME NEW S, NEW s \in Seq(S), NEW e \in S, e \notin ToSet(s), IsInjective(s)
  PROVE  /\ IsInjective(Append(s, e))
         /\ ToSet(Append(s, e)) = ToSet(s) \cup {e}
<1>1. /\ Len(s) \in Nat /\ DOMAIN s = 1 .. Len(s)
      /\ DOMAIN Append(s, e) = 1 .. Len(s) + 1
      /\ Append(s, e)[Len(s) + 1] = e
      /\ \A j \in 1 .. Len(s) : Append(s, e)[j] = s[j]
  OBVIOUS
<1>2. IsInjective(Append(s, e))
  BY <1>1 DEF IsInjective, ToSet
<1> QED
  BY <1>2, AppendedSet

\* The enclosing calls, once the innermost has returned.
LEMMA FrontType ==
  ASSUME NEW S, NEW s \in Seq(S), s # <<>>
  PROVE  Front(s) \in Seq(S)
  BY DEF Front

-------------------------------------------------------------------------------
(* Induction *)

\* A non-empty set of numbers has a least one.
LEMMA LeastNat ==
  ASSUME NEW T \in SUBSET Nat, T # {}
  PROVE  \E n \in T : \A m \in T : n <= m
<1> DEFINE R == {ss \in Nat \X Nat : ss[1] < ss[2]}
<1>1. IsWellFoundedOn(R, Nat)
  BY NatLessThanWellFounded DEF OpToRel
<1> HIDE DEF R
<1>2. PICK n \in T : \A m \in T : ~ (<<m, n>> \in R)
  BY <1>1, WFMin
<1>3. \A m, k \in Nat : <<m, k>> \in R <=> m < k
  BY DEF R
<1>4. \A m \in T : ~ (m < n)
  BY <1>2, <1>3, Zenon
<1>5. \A m \in T : n <= m
  <2> SUFFICES ASSUME NEW m \in T PROVE n <= m
    OBVIOUS
  <2>1. m \in Nat /\ n \in Nat /\ ~ (m < n)
    BY <1>4
  <2> QED
    BY <2>1
<1> QED
  BY <1>5

\* Induction on a finite set: P has S if it has the empty set, and every other
\* part of S of which it has all the parts with one element less.
LEMMA SetInduction ==
  ASSUME NEW S, IsFiniteSet(S), NEW P, {} \in P,
         \A s \in SUBSET S : s # {} /\ (\A x \in s : s \ {x} \in P) => s \in P
  PROVE  S \in P
<1> DEFINE T == {n \in Nat : \E s \in SUBSET S : Cardinality(s) = n /\ s \notin P}
<1> SUFFICES ASSUME S \notin P PROVE FALSE
  OBVIOUS
<1>1. Cardinality(S) \in T
  BY FS_CardinalityType
<1> HIDE DEF T
<1>2. PICK n \in T : \A m \in T : n <= m
  <2>1. T \subseteq Nat
    BY DEF T
  <2> QED
    BY <1>1, <2>1, LeastNat
<1>3. PICK s \in SUBSET S : Cardinality(s) = n /\ s \notin P
  BY <1>2 DEF T
<1>4. PICK x \in s : s \ {x} \notin P
  BY <1>3
<1>5. IsFiniteSet(s) /\ n \in Nat
  BY <1>2, FS_Subset DEF T
<1>6. IsFiniteSet(s \ {x}) /\ Cardinality(s \ {x}) = n - 1
  BY <1>3, <1>4, <1>5, FS_RemoveElement
<1>7. Cardinality(s \ {x}) \in T
  BY <1>4, <1>6, FS_CardinalityType DEF T
<1> QED
  BY <1>2, <1>5, <1>6, <1>7

\* A part of the first L numbers has a greatest element, if any.
LEMMA MaxIsIn ==
  ASSUME NEW L \in Nat, NEW s \in SUBSET (1 .. L), s # {}
  PROVE  Max(s) \in s /\ \A x \in s : x <= Max(s)
<1> DEFINE T == {n \in Nat : \E x \in s : n + x = L}
<1>1. \A x \in s : x \in Nat /\ L - x \in Nat /\ (L - x) + x = L
  OBVIOUS
<1>2. T \in SUBSET Nat /\ T # {}
  BY <1>1
<1> HIDE DEF T
<1>3. PICK n \in T : \A m \in T : n <= m
  BY <1>2, LeastNat
<1>4. PICK x \in s : n + x = L
  BY <1>3 DEF T
<1>5. \A y \in s : x >= y
  <2> SUFFICES ASSUME NEW y \in s PROVE x >= y
    OBVIOUS
  <2>1. L - y \in T
    BY <1>1 DEF T
  <2>2. n <= L - y /\ n \in Nat
    BY <2>1, <1>2, <1>3
  <2> QED BY <1>1, <1>4, <2>2
<1>6. Max(s) \in s /\ \A y \in s : Max(s) >= y
  BY <1>5 DEF Max
<1> QED BY <1>1, <1>6

\* What a recursion over the parts of S, one element less at a time, may define.
Folds(S, A, base, G, pick) ==
  {g \in [SUBSET S -> A] : \A s \in SUBSET S :
     g[s] = IF s = {} THEN base ELSE G[<<s, g[s \ {pick[s]}]>>]}

\* On a finite set it does define a function.
LEMMA FoldExists ==
  ASSUME NEW S, IsFiniteSet(S), NEW A, NEW base \in A,
         NEW G \in [(SUBSET S) \X A -> A],
         NEW pick, \A s \in SUBSET S : s # {} => pick[s] \in s
  PROVE  Folds(S, A, base, G, pick) # {}
<1> DEFINE Small(n) == {s \in SUBSET S : Cardinality(s) <= n}
           Step(g, s) == IF s = {} THEN base ELSE G[<<s, g[s \ {pick[s]}]>>]
           Made(n) == {g \in [Small(n) -> A] : \A s \in Small(n) : g[s] = Step(g, s)}
           T == {n \in Nat : Made(n) = {}}
<1>1. ASSUME NEW n \in T, \A m \in T : n <= m
      PROVE  FALSE
  <2>1. CASE n = 0
    <3> DEFINE g == [s \in Small(0) |-> base]
    <3>1. \A s \in Small(0) : s = {}
      BY FS_Subset, FS_CardinalityType, FS_EmptySet
    <3>2. g \in Made(n)
      BY <2>1, <3>1
    <3> QED BY <3>2
  <2>2. CASE n > 0
    <3>1. n \in Nat /\ n - 1 \in Nat /\ ~ (n <= n - 1)
      BY <2>2
    <3>2. n - 1 \notin T
      BY <1>1, <3>1
    <3>3. PICK g \in [Small(n - 1) -> A] : \A s \in Small(n - 1) : g[s] = Step(g, s)
      BY <3>1, <3>2
    <3> DEFINE h == [s \in Small(n) |-> Step(g, s)]
    <3>4. ASSUME NEW s \in Small(n), s # {}
          PROVE  s \ {pick[s]} \in Small(n - 1) /\ s \ {pick[s]} \in Small(n)
      <4>1. IsFiniteSet(s) /\ pick[s] \in s
        BY <3>4, FS_Subset
      <4>2. /\ Cardinality(s \ {pick[s]}) = Cardinality(s) - 1
            /\ Cardinality(s) \in Nat /\ Cardinality(s) <= n
        BY <4>1, FS_RemoveElement, FS_CardinalityType
      <4> QED BY <4>2, <3>1
    <3>5. \A s \in Small(n) : h[s] \in A
      <4> SUFFICES ASSUME NEW s \in Small(n) PROVE Step(g, s) \in A
        OBVIOUS
      <4>1. CASE s = {}
        BY <4>1
      <4>2. CASE s # {}
        <5>1. g[s \ {pick[s]}] \in A /\ s \in SUBSET S
          BY <3>3, <3>4, <4>2
        <5> QED BY <4>2, <5>1
      <4> QED BY <4>1, <4>2
    <3>6. \A s \in Small(n - 1) : s \in Small(n) /\ h[s] = g[s]
      <4> SUFFICES ASSUME NEW s \in Small(n - 1) PROVE s \in Small(n) /\ h[s] = g[s]
        OBVIOUS
      <4>1. IsFiniteSet(s)
        BY FS_Subset
      <4>2. Cardinality(s) \in Nat /\ Cardinality(s) <= n - 1
        BY <4>1, FS_CardinalityType
      <4>3. s \in Small(n)
        BY <4>2, <3>1
      <4> QED BY <4>3, <3>3
    <3>7. \A s \in Small(n) : Step(h, s) = Step(g, s)
      <4> SUFFICES ASSUME NEW s \in Small(n) PROVE Step(h, s) = Step(g, s)
        OBVIOUS
      <4>1. CASE s = {}
        BY <4>1
      <4>2. CASE s # {}
        <5>1. h[s \ {pick[s]}] = g[s \ {pick[s]}]
          <6>1. s \ {pick[s]} \in Small(n - 1)
            BY <3>4, <4>2
          <6> HIDE DEF Small, Step, h
          <6> QED BY <6>1, <3>6
        <5> HIDE DEF Small, h
        <5> QED BY <4>2, <5>1
      <4> QED BY <4>1, <4>2
    <3>8. h \in Made(n)
      BY <3>5, <3>7
    <3> QED BY <3>8
  <2> QED BY <2>1, <2>2
<1>2. T = {}
  <2>1. T \subseteq Nat
    OBVIOUS
  <2> HIDE DEF T
  <2> QED BY <2>1, <1>1, LeastNat
<1>3. Cardinality(S) \in Nat
  BY FS_CardinalityType
<1>4. PICK g \in Made(Cardinality(S)) : TRUE
  BY <1>2, <1>3
<1>5. Small(Cardinality(S)) = SUBSET S
  BY FS_Subset, FS_CardinalityType
<1> HIDE DEF Small
<1> QED BY <1>4, <1>5 DEF Folds
===============================================================================
