---------------------------- MODULE EvictionProofs ----------------------------
(***************************************************************************)
(* Theorems about the eviction policy: what EvictionChoices yields, for any *)
(* models and sizes.  They rest on what the sum of vram_mib() over a set of *)
(* models is: Held of Eviction, a fold of the community modules.            *)
(***************************************************************************)
EXTENDS Eviction, QueueLemmas, FiniteSetTheorems, TLAPS

-------------------------------------------------------------------------------
(* The recursion behind the fold.                                          *)

\* The sum of a set, given the sums of smaller ones.
SumStep(mem, g, s) ==
  IF s = {} THEN 0 ELSE LET x == CHOOSE x \in s : TRUE IN mem[x] + g[s \ {x}]

IsSum(mem, D, g) == g = [s \in D |-> SumStep(mem, g, s)]

LEMMA HeldUnfold ==
  ASSUME NEW mem, NEW S
  PROVE  Held(mem, S) = (CHOOSE g : IsSum(mem, SUBSET S, g))[S]
  BY Zenon DEF Held, SumFunctionOnSet, FoldFunctionOnSet, MapThenFoldSet, IsSum, SumStep

LEMMA SumExists ==
  ASSUME NEW mem, NEW S, IsFiniteSet(S)
  PROVE  \E g : IsSum(mem, SUBSET S, g)
<1> DEFINE Small(n) == {s \in SUBSET S : Cardinality(s) <= n}
           T == {n \in Nat : ~ \E g : IsSum(mem, Small(n), g)}
<1>1. ASSUME NEW n \in T, \A m \in T : n <= m
      PROVE  FALSE
  <2>1. CASE n = 0
    <3> DEFINE g == [s \in Small(0) |-> 0]
    <3>1. \A s \in Small(0) : s = {}
      BY FS_Subset, FS_CardinalityType, FS_EmptySet
    <3>2. \A s \in Small(0) : SumStep(mem, g, s) = 0
      BY <3>1 DEF SumStep
    <3>3. g = [s \in Small(0) |-> SumStep(mem, g, s)]
      BY <3>2
    <3>4. IsSum(mem, Small(n), g)
      BY <2>1, <3>3 DEF IsSum
    <3> QED
      BY <3>4
  <2>2. CASE n > 0
    <3>1. n \in Nat /\ n - 1 \in Nat /\ ~ (n <= n - 1)
      BY <2>2
    <3>2. PICK g : IsSum(mem, Small(n - 1), g)
      BY <1>1, <3>1
    <3> DEFINE h == [s \in Small(n) |-> SumStep(mem, g, s)]
    <3>3. ASSUME NEW s \in Small(n), s # {}, NEW x \in s
          PROVE  /\ s \ {x} \in Small(n - 1) /\ s \ {x} \in Small(n)
                 /\ h[s \ {x}] = g[s \ {x}]
      <4>1. IsFiniteSet(s)
        BY FS_Subset
      <4>2. Cardinality(s \ {x}) = Cardinality(s) - 1 /\ Cardinality(s) \in Nat
        BY <4>1, <3>3, FS_RemoveElement, FS_CardinalityType
      <4>3. Cardinality(s) <= n
        OBVIOUS
      <4>4. s \ {x} \in Small(n - 1) /\ s \ {x} \in Small(n)
        BY <4>2, <4>3, <3>1
      <4>5. h[s \ {x}] = SumStep(mem, g, s \ {x})
        BY <4>4
      <4> HIDE DEF Small
      <4>6. g[s \ {x}] = SumStep(mem, g, s \ {x})
        BY <3>2, <4>4 DEF IsSum
      <4> QED
        BY <4>4, <4>5, <4>6
    <3> HIDE DEF Small
    <3>4. ASSUME NEW s \in Small(n)
          PROVE  SumStep(mem, h, s) = SumStep(mem, g, s)
      <4>1. CASE s = {}
        BY <4>1 DEF SumStep
      <4>2. CASE s # {}
        <5> DEFINE x == CHOOSE x \in s : TRUE
        <5>1. x \in s
          BY <4>2
        <5>2. h[s \ {x}] = g[s \ {x}]
          BY <4>2, <5>1, <3>3
        <5> QED
          BY <4>2, <5>2 DEF SumStep
      <4> QED
        BY <4>1, <4>2
    <3>5. h = [s \in Small(n) |-> SumStep(mem, h, s)]
      BY <3>4
    <3>6. IsSum(mem, Small(n), h)
      BY <3>5 DEF IsSum
    <3> QED
      BY <3>6
  <2> QED
    BY <2>1, <2>2
<1>2. T = {}
  <2>1. T \subseteq Nat
    OBVIOUS
  <2> HIDE DEF T
  <2> QED
    BY <2>1, <1>1, LeastNat
<1>3. Small(Cardinality(S)) = SUBSET S
  BY FS_Subset, FS_CardinalityType
<1> HIDE DEF Small
<1>4. Cardinality(S) \in Nat
  BY FS_CardinalityType
<1>5. Cardinality(S) \notin T
  BY <1>2
<1>6. \E g : IsSum(mem, Small(Cardinality(S)), g)
  BY <1>4, <1>5
<1> QED
  BY <1>3, <1>6, Zenon

\* Two such functions agree where both are defined.
LEMMA SumUnique ==
  ASSUME NEW mem, NEW S, IsFiniteSet(S), NEW D, NEW E, SUBSET S \subseteq D,
         SUBSET S \subseteq E, NEW g, NEW h, IsSum(mem, D, g), IsSum(mem, E, h)
  PROVE  g[S] = h[S]
<1> DEFINE P == {s \in SUBSET S : g[s] = h[s]}
<1>1. \A s \in SUBSET S : g[s] = SumStep(mem, g, s) /\ h[s] = SumStep(mem, h, s)
  BY DEF IsSum
<1>2. {} \in P
  BY <1>1 DEF SumStep
<1>3. ASSUME NEW s \in SUBSET S, s # {}, \A x \in s : s \ {x} \in P
      PROVE  s \in P
  <2> DEFINE x == CHOOSE x \in s : TRUE
  <2>1. g[s \ {x}] = h[s \ {x}]
    BY <1>3
  <2>2. SumStep(mem, g, s) = SumStep(mem, h, s)
    BY <1>3, <2>1 DEF SumStep
  <2> QED
    BY <1>1, <2>2
<1> HIDE DEF P
<1>4. S \in P
  BY <1>2, <1>3, SetInduction
<1> QED
  BY <1>4 DEF P

\* The fold is that recursion, whatever the set.
LEMMA HeldStep ==
  ASSUME NEW mem, NEW S, IsFiniteSet(S), S # {}
  PROVE  \E x \in S : Held(mem, S) = mem[x] + Held(mem, S \ {x})
<1> DEFINE x == CHOOSE x \in S : TRUE
           g == CHOOSE g : IsSum(mem, SUBSET S, g)
           h == CHOOSE h : IsSum(mem, SUBSET (S \ {x}), h)
<1>1. x \in S
  OBVIOUS
<1> HIDE DEF x
<1>2. IsFiniteSet(S \ {x})
  BY FS_Subset
<1>3. IsSum(mem, SUBSET S, g) /\ IsSum(mem, SUBSET (S \ {x}), h)
  BY <1>2, SumExists
<1>4. Held(mem, S) = g[S] /\ Held(mem, S \ {x}) = h[S \ {x}]
  BY HeldUnfold
<1> HIDE DEF g, h
<1>5. g[S \ {x}] = h[S \ {x}]
  BY <1>2, <1>3, SumUnique
<1>6. g[S] = mem[x] + g[S \ {x}]
  <2>1. g[S] = SumStep(mem, g, S)
    BY <1>3 DEF IsSum
  <2> QED
    BY <2>1 DEF SumStep, x
<1> QED
  BY <1>1, <1>4, <1>5, <1>6

LEMMA HeldEmpty ==
  ASSUME NEW mem
  PROVE  Held(mem, {}) = 0
<1> DEFINE g == CHOOSE g : IsSum(mem, SUBSET {}, g)
<1>1. IsSum(mem, SUBSET {}, g)
  BY SumExists, FS_EmptySet
<1>2. Held(mem, {}) = g[{}]
  BY HeldUnfold
<1> HIDE DEF g
<1>3. g[{}] = SumStep(mem, g, {})
  BY <1>1 DEF IsSum
<1> QED
  BY <1>2, <1>3 DEF SumStep

-------------------------------------------------------------------------------
(* The sum, for sizes that are numbers.                                    *)

HasSizes(mem, S) == \A x \in S : mem[x] \in Nat

LEMMA HeldType ==
  ASSUME NEW mem, NEW S, IsFiniteSet(S), HasSizes(mem, S)
  PROVE  Held(mem, S) \in Nat
<1> DEFINE P == {s \in SUBSET S : Held(mem, s) \in Nat}
<1>1. {} \in P
  BY HeldEmpty
<1>2. ASSUME NEW s \in SUBSET S, s # {}, \A x \in s : s \ {x} \in P
      PROVE  s \in P
  <2>1. IsFiniteSet(s)
    BY FS_Subset
  <2>2. PICK x \in s : Held(mem, s) = mem[x] + Held(mem, s \ {x})
    BY <1>2, <2>1, HeldStep
  <2>3. mem[x] \in Nat /\ Held(mem, s \ {x}) \in Nat
    BY <1>2 DEF HasSizes
  <2> QED
    BY <2>2, <2>3
<1> HIDE DEF P
<1>3. S \in P
  BY <1>1, <1>2, SetInduction
<1> QED
  BY <1>3 DEF P

\* Any element can be taken out first.
LEMMA HeldRemove ==
  ASSUME NEW mem, NEW S, IsFiniteSet(S), HasSizes(mem, S), NEW x \in S
  PROVE  Held(mem, S) = mem[x] + Held(mem, S \ {x})
<1> DEFINE P == {s \in SUBSET S : \A y \in s : Held(mem, s) = mem[y] + Held(mem, s \ {y})}
<1>1. {} \in P
  OBVIOUS
<1>2. ASSUME NEW s \in SUBSET S, s # {}, \A z \in s : s \ {z} \in P
      PROVE  s \in P
  <2> SUFFICES ASSUME NEW y \in s PROVE Held(mem, s) = mem[y] + Held(mem, s \ {y})
    OBVIOUS
  <2>1. IsFiniteSet(s) /\ HasSizes(mem, s)
    BY FS_Subset DEF HasSizes
  <2>2. PICK c \in s : Held(mem, s) = mem[c] + Held(mem, s \ {c})
    BY <1>2, <2>1, HeldStep
  <2>3. CASE c = y
    BY <2>2, <2>3
  <2>4. CASE c # y
    <3> DEFINE rest == (s \ {c}) \ {y}
    <3>1. Held(mem, s \ {c}) = mem[y] + Held(mem, rest)
      BY <1>2, <2>4
    <3>2. rest = (s \ {y}) \ {c}
      OBVIOUS
    <3>3. Held(mem, s \ {y}) = mem[c] + Held(mem, rest)
      BY <1>2, <2>4, <3>2
    <3>4. IsFiniteSet(rest) /\ HasSizes(mem, rest)
      BY <2>1, FS_Subset DEF HasSizes
    <3> HIDE DEF rest
    <3>5. Held(mem, rest) \in Nat /\ mem[c] \in Nat /\ mem[y] \in Nat
      BY <2>1, <3>4, HeldType DEF HasSizes
    <3> QED
      BY <2>2, <3>1, <3>3, <3>5
  <2> QED
    BY <2>3, <2>4
<1> HIDE DEF P
<1>3. S \in P
  BY <1>1, <1>2, SetInduction
<1> QED
  BY <1>3 DEF P

LEMMA HeldAdd ==
  ASSUME NEW mem, NEW S, IsFiniteSet(S), HasSizes(mem, S), NEW x, x \notin S, mem[x] \in Nat
  PROVE  Held(mem, S \cup {x}) = Held(mem, S) + mem[x]
<1>1. IsFiniteSet(S \cup {x}) /\ HasSizes(mem, S \cup {x}) /\ (S \cup {x}) \ {x} = S
  BY FS_AddElement DEF HasSizes
<1>2. Held(mem, S \cup {x}) = mem[x] + Held(mem, S)
  BY <1>1, HeldRemove
<1> QED
  BY <1>2, HeldType

\* A set is the sum of a part and the rest.
LEMMA HeldSplit ==
  ASSUME NEW mem, NEW S, IsFiniteSet(S), HasSizes(mem, S), NEW T \in SUBSET S
  PROVE  Held(mem, S) = Held(mem, T) + Held(mem, S \ T)
<1> DEFINE P == {s \in SUBSET S : Held(mem, s) = Held(mem, s \cap T) + Held(mem, s \ T)}
<1>1. {} \in P
  <2>1. {} \cap T = {} /\ {} \ T = {}
    OBVIOUS
  <2> QED
    BY <2>1, HeldEmpty
<1>2. ASSUME NEW s \in SUBSET S, s # {}, \A z \in s : s \ {z} \in P
      PROVE  s \in P
  <2>1. PICK x \in s : TRUE
    BY <1>2
  <2> DEFINE in == s \cap T
             out == s \ T
             r == s \ {x}
  <2>2. /\ IsFiniteSet(s) /\ HasSizes(mem, s)
        /\ IsFiniteSet(in) /\ HasSizes(mem, in)
        /\ IsFiniteSet(out) /\ HasSizes(mem, out)
        /\ IsFiniteSet(r) /\ HasSizes(mem, r)
    BY FS_Subset DEF HasSizes
  <2>3. Held(mem, s) = mem[x] + Held(mem, r)
    BY <2>2, HeldRemove
  <2>4. Held(mem, r) = Held(mem, r \cap T) + Held(mem, r \ T)
    BY <1>2
  <2>5. mem[x] \in Nat /\ Held(mem, in) \in Nat /\ Held(mem, out) \in Nat
        /\ Held(mem, r) \in Nat
    BY <2>2, HeldType DEF HasSizes
  <2> HIDE DEF in, out, r
  <2> SUFFICES Held(mem, s) = Held(mem, in) + Held(mem, out)
    BY DEF in, out
  <2>6. CASE x \in T
    <3>1. r \cap T = in \ {x} /\ r \ T = out /\ x \in in
      BY <2>6 DEF in, out, r
    <3>2. Held(mem, in) = mem[x] + Held(mem, in \ {x})
      BY <2>2, <3>1, HeldRemove
    <3>3. Held(mem, in \ {x}) \in Nat
      BY <2>2, FS_Subset, HeldType DEF HasSizes
    <3>4. Held(mem, r) = Held(mem, in \ {x}) + Held(mem, out)
      BY <2>4, <3>1
    <3> QED
      BY <2>3, <2>5, <3>2, <3>3, <3>4
  <2>7. CASE x \notin T
    <3>1. r \cap T = in /\ r \ T = out \ {x} /\ x \in out
      BY <2>7 DEF in, out, r
    <3>2. Held(mem, out) = mem[x] + Held(mem, out \ {x})
      BY <2>2, <3>1, HeldRemove
    <3>3. Held(mem, out \ {x}) \in Nat
      BY <2>2, FS_Subset, HeldType DEF HasSizes
    <3>4. Held(mem, r) = Held(mem, in) + Held(mem, out \ {x})
      BY <2>4, <3>1
    <3> QED
      BY <2>3, <2>5, <3>2, <3>3, <3>4
  <2> QED
    BY <2>6, <2>7
<1> HIDE DEF P
<1>3. S \in P
  BY <1>1, <1>2, SetInduction
<1>4. S \cap T = T
  OBVIOUS
<1> QED
  BY <1>3, <1>4 DEF P

\* A part weighs no more than the whole, nor does an element.
LEMMA HeldMonotone ==
  ASSUME NEW mem, NEW S, IsFiniteSet(S), HasSizes(mem, S), NEW T \in SUBSET S
  PROVE  Held(mem, T) <= Held(mem, S)
<1>1. IsFiniteSet(T) /\ HasSizes(mem, T) /\ IsFiniteSet(S \ T) /\ HasSizes(mem, S \ T)
  BY FS_Subset DEF HasSizes
<1> QED
  BY <1>1, HeldSplit, HeldType

LEMMA HeldElement ==
  ASSUME NEW mem, NEW S, IsFiniteSet(S), HasSizes(mem, S), NEW x \in S
  PROVE  mem[x] <= Held(mem, S)
<1>1. IsFiniteSet(S \ {x}) /\ HasSizes(mem, S \ {x})
  BY FS_Subset DEF HasSizes
<1> QED
  BY <1>1, HeldRemove, HeldType DEF HasSizes

LEMMA HeldSingle ==
  ASSUME NEW mem, NEW x, mem[x] \in Nat
  PROVE  Held(mem, {x}) = mem[x]
<1>1. IsFiniteSet({x}) /\ HasSizes(mem, {x}) /\ {x} \ {x} = {}
  BY FS_Singleton DEF HasSizes
<1> QED
  BY <1>1, HeldRemove, HeldEmpty

\* Only the sizes of the elements matter; under names of their own, too.
LEMMA HeldRenamed ==
  ASSUME NEW mem, NEW size, NEW S, IsFiniteSet(S), HasSizes(mem, S), NEW id,
         \A x \in S : mem[x] = size[id[x]],
         \A x, y \in S : id[x] = id[y] => x = y
  PROVE  Held(mem, S) = Held(size, {id[x] : x \in S})
<1> DEFINE Image(s) == {id[x] : x \in s}
           P == {s \in SUBSET S : /\ IsFiniteSet(Image(s)) /\ HasSizes(size, Image(s))
                                  /\ Held(mem, s) = Held(size, Image(s))}
<1>1. {} \in P
  <2>1. Image({}) = {}
    OBVIOUS
  <2> QED
    BY <2>1, HeldEmpty, FS_EmptySet DEF HasSizes
<1>2. ASSUME NEW s \in SUBSET S, s # {}, \A z \in s : s \ {z} \in P
      PROVE  s \in P
  <2>1. PICK x \in s : TRUE
    BY <1>2
  <2>2. IsFiniteSet(s) /\ HasSizes(mem, s)
    BY FS_Subset DEF HasSizes
  <2>3. Held(mem, s) = mem[x] + Held(mem, s \ {x})
    BY <2>2, HeldRemove
  <2> DEFINE rest == Image(s \ {x})
             all == Image(s)
  <2>4. /\ IsFiniteSet(rest) /\ HasSizes(size, rest)
        /\ Held(mem, s \ {x}) = Held(size, rest)
    BY <1>2
  <2>5. id[x] \notin rest /\ all = rest \cup {id[x]}
    OBVIOUS
  <2>6. mem[x] = size[id[x]] /\ mem[x] \in Nat
    BY DEF HasSizes
  <2> SUFFICES IsFiniteSet(all) /\ HasSizes(size, all) /\ Held(mem, s) = Held(size, all)
    OBVIOUS
  <2> HIDE DEF rest, all
  <2>7. size[id[x]] \in Nat
    BY <2>6
  <2>8. Held(size, all) = Held(size, rest) + size[id[x]]
    BY <2>4, <2>5, <2>7, HeldAdd
  <2>9. Held(size, rest) \in Nat
    BY <2>4, HeldType
  <2>10. IsFiniteSet(all) /\ HasSizes(size, all)
    BY <2>4, <2>5, <2>7, FS_AddElement DEF HasSizes
  <2> QED
    BY <2>3, <2>4, <2>6, <2>7, <2>8, <2>9, <2>10
<1> HIDE DEF P
<1>3. S \in P
  BY <1>1, <1>2, SetInduction
<1> QED
  BY <1>3 DEF P

\* Two sizes that agree on S have one sum.
LEMMA HeldAgree ==
  ASSUME NEW mem, NEW size, NEW S, IsFiniteSet(S), HasSizes(mem, S),
         \A x \in S : mem[x] = size[x]
  PROVE  Held(mem, S) = Held(size, S)
<1> DEFINE id == [x \in S |-> x]
<1>1. /\ \A x \in S : mem[x] = size[id[x]]
      /\ \A x, y \in S : id[x] = id[y] => x = y
      /\ {id[x] : x \in S} = S
  OBVIOUS
<1> HIDE DEF id
<1>2. Held(mem, S) = Held(size, {id[x] : x \in S})
  BY <1>1, HeldRenamed
<1> QED
  BY <1>1, <1>2

-------------------------------------------------------------------------------
(* The greedy candidates.  Which of several models of one size are taken     *)
(* depends on the list; how much is freed does not.                         *)

\* Sets of models of one size: their sums differ by at least that size.
LEMMA EqualSizes ==
  ASSUME NEW mem, NEW A, NEW B, IsFiniteSet(A), IsFiniteSet(B), NEW c \in Nat,
         \A m \in A \cup B : mem[m] = c, Held(mem, A) < Held(mem, B)
  PROVE  Held(mem, A) + c <= Held(mem, B)
<1> DEFINE P == {s \in SUBSET A : \A t \in SUBSET B :
                   Held(mem, s) < Held(mem, t) => Held(mem, s) + c <= Held(mem, t)}
<1>1. ASSUME NEW s, s \in SUBSET A \/ s \in SUBSET B
      PROVE  IsFiniteSet(s) /\ HasSizes(mem, s) /\ Held(mem, s) \in Nat
  <2>1. IsFiniteSet(s) /\ HasSizes(mem, s)
    BY <1>1, FS_Subset DEF HasSizes
  <2> QED
    BY <2>1, HeldType
<1>2. ASSUME NEW t \in SUBSET B, 0 < Held(mem, t)
      PROVE  \E y \in t : Held(mem, t) = c + Held(mem, t \ {y})
  <2>1. t # {}
    BY <1>2, HeldEmpty
  <2>2. PICK y \in t : TRUE
    BY <2>1
  <2>3. Held(mem, t) = mem[y] + Held(mem, t \ {y})
    BY <1>1, HeldRemove
  <2> QED
    BY <2>3
<1>3. {} \in P
  <2> SUFFICES ASSUME NEW t \in SUBSET B, 0 < Held(mem, t) PROVE c <= Held(mem, t)
    BY HeldEmpty
  <2>1. PICK y \in t : Held(mem, t) = c + Held(mem, t \ {y})
    BY <1>2
  <2>2. t \ {y} \in SUBSET B
    OBVIOUS
  <2>3. Held(mem, t \ {y}) \in Nat
    BY <2>2, <1>1
  <2> QED
    BY <2>1, <2>3
<1>4. ASSUME NEW s \in SUBSET A, s # {}, \A x \in s : s \ {x} \in P
      PROVE  s \in P
  <2> SUFFICES ASSUME NEW t \in SUBSET B, Held(mem, s) < Held(mem, t)
               PROVE  Held(mem, s) + c <= Held(mem, t)
    OBVIOUS
  <2>1. PICK x \in s : TRUE
    BY <1>4
  <2>2. Held(mem, s) = c + Held(mem, s \ {x})
    <3>1. Held(mem, s) = mem[x] + Held(mem, s \ {x})
      BY <1>1, HeldRemove
    <3> QED
      BY <3>1
  <2>3. Held(mem, s) \in Nat /\ Held(mem, t) \in Nat
    BY <1>1
  <2>4. PICK y \in t : Held(mem, t) = c + Held(mem, t \ {y})
    BY <1>2, <2>3
  <2>5. s \ {x} \in SUBSET A /\ t \ {y} \in SUBSET B
    OBVIOUS
  <2>6. Held(mem, s \ {x}) \in Nat /\ Held(mem, t \ {y}) \in Nat
    BY <2>5, <1>1
  <2>7. Held(mem, s \ {x}) < Held(mem, t \ {y})
    BY <2>2, <2>4, <2>6
  <2>8. Held(mem, s \ {x}) + c <= Held(mem, t \ {y})
    BY <1>4, <2>5, <2>7
  <2> QED
    BY <2>2, <2>4, <2>6, <2>8
<1> HIDE DEF P
<1>5. A \in P
  BY <1>3, <1>4, SetInduction
<1> QED
  BY <1>5 DEF P

\* One greedy candidate never frees less than another.
LEMMA GreedyNotLess ==
  ASSUME NEW mem, NEW S, IsFiniteSet(S), HasSizes(mem, S), NEW n \in Int,
         NEW G \in GreedyChoices(mem, S, n), NEW H \in GreedyChoices(mem, S, n)
  PROVE  ~ (Held(mem, G) < Held(mem, H))
<1> SUFFICES ASSUME Held(mem, G) < Held(mem, H) PROVE FALSE
  OBVIOUS
<1> DEFINE A == G \ H
           B == H \ G
           both == G \cap H
<1>1. /\ G \subseteq S /\ H \subseteq S
      /\ \A m \in A, o \in B : mem[m] <= mem[o] /\ mem[o] <= mem[m]
      /\ \A m \in A, o \in H : mem[o] <= mem[m]
      /\ \A m \in B, o \in G : mem[o] <= mem[m]
      /\ Held(mem, G) >= n
  BY DEF GreedyChoices, Sized
<1>2. PICK last \in H : (\A m \in H : mem[m] <= mem[last]) /\ Held(mem, H \ {last}) < n
  BY DEF GreedyChoices
<1>3. ASSUME NEW s \in SUBSET S
      PROVE  IsFiniteSet(s) /\ HasSizes(mem, s) /\ Held(mem, s) \in Nat
  <2>1. IsFiniteSet(s) /\ HasSizes(mem, s)
    BY FS_Subset DEF HasSizes
  <2> QED
    BY <2>1, HeldType
<1>4. /\ Held(mem, G) = Held(mem, both) + Held(mem, A)
      /\ Held(mem, H) = Held(mem, both) + Held(mem, B)
  <2>1. G \ both = A /\ H \ both = B
    OBVIOUS
  <2>2. Held(mem, G) = Held(mem, both) + Held(mem, G \ both)
    BY <1>1, <1>3, HeldSplit
  <2>3. Held(mem, H) = Held(mem, both) + Held(mem, H \ both)
    BY <1>1, <1>3, HeldSplit
  <2> QED
    BY <2>1, <2>2, <2>3
<1>5. A \in SUBSET S /\ B \in SUBSET S /\ both \in SUBSET S /\ H \in SUBSET S /\ last \in S
      /\ H \ {last} \in SUBSET S /\ G \in SUBSET S
  BY <1>1
<1>6. Held(mem, H) = mem[last] + Held(mem, H \ {last})
  BY <1>3, <1>5, HeldRemove
<1>7. /\ Held(mem, A) \in Nat /\ Held(mem, B) \in Nat /\ Held(mem, both) \in Nat
      /\ Held(mem, H) \in Nat /\ Held(mem, H \ {last}) \in Nat /\ Held(mem, G) \in Nat
      /\ mem[last] \in Nat
  BY <1>3, <1>5 DEF HasSizes
<1>8. Held(mem, A) < Held(mem, B)
  BY <1>4, <1>7
<1>9. PICK o \in B : TRUE
  <2>1. B # {}
    BY <1>7, <1>8, HeldEmpty
  <2> QED
    BY <2>1
<1>10. \A m \in A \cup B : mem[m] = mem[last]
  <2> SUFFICES ASSUME NEW m \in A \cup B PROVE mem[m] = mem[last]
    OBVIOUS
  <2>1. mem[m] \in Nat /\ mem[o] \in Nat
    BY <1>5 DEF HasSizes
  <2>2. mem[last] <= mem[m]
    <3>1. CASE m \in A
      BY <3>1, <1>1
    <3>2. CASE m \in B /\ last \in G
      BY <3>2, <1>1
    <3>3. CASE m \in B /\ last \in B
      \* The last of H is outside G.  If it were larger than m, H without it
      \* would still hold all of G and m.
      <4>1. CASE A = {}
        <5>1. G \subseteq H \ {last}
          BY <3>3, <4>1
        <5>2. Held(mem, G) <= Held(mem, H \ {last})
          BY <5>1, <1>3, <1>5, HeldMonotone
        <5> QED
          BY <5>2, <1>1, <1>2, <1>7
      <4>2. CASE A # {}
        <5>1. PICK a \in A : TRUE
          BY <4>2
        <5>2. mem[last] <= mem[a] /\ mem[a] <= mem[m] /\ mem[a] \in Nat
          BY <3>3, <5>1, <1>1, <1>5 DEF HasSizes
        <5> QED
          BY <5>2, <2>1, <1>7
      <4> QED
        BY <4>1, <4>2
    <3> QED
      BY <3>1, <3>2, <3>3
  <2>3. mem[m] <= mem[last]
    <3>1. CASE m \in B
      BY <3>1, <1>2
    <3>2. CASE m \in A
      <4>1. mem[m] <= mem[o] /\ mem[o] <= mem[last]
        BY <3>2, <1>1, <1>2, <1>9
      <4> QED
        BY <4>1, <2>1, <1>7
    <3> QED
      BY <3>1, <3>2
  <2> QED
    BY <2>1, <2>2, <2>3, <1>7
<1>11. Held(mem, A) + mem[last] <= Held(mem, B)
  <2> HIDE DEF A, B
  <2> QED
    BY <1>3, <1>5, <1>7, <1>8, <1>10, EqualSizes
<1> QED
  BY <1>1, <1>2, <1>4, <1>6, <1>7, <1>11

\* What the greedy loop frees does not depend on the order of the list.
THEOREM GreedySumsAgree ==
  ASSUME NEW mem, NEW S, IsFiniteSet(S), HasSizes(mem, S), NEW n \in Int,
         NEW G \in GreedyChoices(mem, S, n), NEW H \in GreedyChoices(mem, S, n)
  PROVE  Held(mem, G) = Held(mem, H)
<1>1. ~ (Held(mem, G) < Held(mem, H)) /\ ~ (Held(mem, H) < Held(mem, G))
  BY GreedyNotLess
<1>2. G \subseteq S /\ H \subseteq S
  BY DEF GreedyChoices, Sized
<1>3. Held(mem, G) \in Nat /\ Held(mem, H) \in Nat
  BY <1>2, FS_Subset, HeldType DEF HasSizes
<1> QED
  BY <1>1, <1>3

\* A finite set of models has a largest.
LEMMA Largest ==
  ASSUME NEW mem, NEW S, IsFiniteSet(S), HasSizes(mem, S), S # {}
  PROVE  \E last \in S : \A m \in S : mem[m] <= mem[last]
<1> DEFINE P == {s \in SUBSET S : s # {} => \E last \in s : \A m \in s : mem[m] <= mem[last]}
<1>1. {} \in P
  OBVIOUS
<1>2. ASSUME NEW s \in SUBSET S, s # {}, \A x \in s : s \ {x} \in P
      PROVE  s \in P
  <2> SUFFICES \E last \in s : \A m \in s : mem[m] <= mem[last]
    OBVIOUS
  <2>1. PICK x \in s : TRUE
    BY <1>2
  <2>2. \A m \in s : mem[m] \in Nat
    BY DEF HasSizes
  <2>3. CASE s \ {x} = {}
    <3>1. \A m \in s : m = x
      BY <2>3
    <3> QED
      BY <3>1, <2>1, <2>2
  <2>4. CASE s \ {x} # {}
    <3>1. PICK y \in s \ {x} : \A m \in s \ {x} : mem[m] <= mem[y]
      BY <1>2, <2>4
    <3>2. CASE mem[x] <= mem[y]
      <4>1. \A m \in s : mem[m] <= mem[y]
        BY <3>1, <3>2
      <4> QED
        BY <4>1
    <3>3. CASE ~ (mem[x] <= mem[y])
      <4>1. \A m \in s : mem[m] <= mem[x]
        <5> SUFFICES ASSUME NEW m \in s PROVE mem[m] <= mem[x]
          OBVIOUS
        <5>1. m = x \/ mem[m] <= mem[y]
          BY <3>1
        <5>2. mem[m] \in Nat /\ mem[x] \in Nat /\ mem[y] \in Nat
          BY <2>2
        <5> QED
          BY <5>1, <5>2, <3>3
      <4> QED
        BY <4>1
    <3> QED
      BY <3>2, <3>3
  <2> QED
    BY <2>3, <2>4
<1> HIDE DEF P
<1>3. S \in P
  BY <1>1, <1>2, SetInduction
<1> QED
  BY <1>3 DEF P

\* The models that report no memory add nothing.
LEMMA HeldSized ==
  ASSUME NEW mem, NEW S, IsFiniteSet(S), HasSizes(mem, S)
  PROVE  /\ IsFiniteSet(Sized(mem, S)) /\ HasSizes(mem, Sized(mem, S))
         /\ Held(mem, S) = Held(mem, Sized(mem, S))
<1> DEFINE sized == Sized(mem, S)
           none == S \ sized
<1>1. sized \in SUBSET S /\ none \in SUBSET S
  BY DEF Sized
<1>2. \A m \in none : mem[m] = 0
  BY DEF Sized, HasSizes
<1>3. /\ IsFiniteSet(sized) /\ HasSizes(mem, sized)
      /\ IsFiniteSet(none) /\ HasSizes(mem, none)
  BY <1>1, FS_Subset DEF HasSizes
<1> HIDE DEF sized
<1>4. Held(mem, S) = Held(mem, sized) + Held(mem, none)
  BY <1>1, HeldSplit
<1>5. Held(mem, none) = 0
  <2> HIDE DEF none
  <2> DEFINE P == {s \in SUBSET none : Held(mem, s) = 0}
  <2>1. {} \in P
    BY HeldEmpty
  <2>2. ASSUME NEW s \in SUBSET none, s # {}, \A x \in s : s \ {x} \in P
        PROVE  s \in P
    <3>1. IsFiniteSet(s)
      BY <1>3, FS_Subset
    <3>2. PICK x \in s : Held(mem, s) = mem[x] + Held(mem, s \ {x})
      BY <3>1, <2>2, HeldStep
    <3> QED
      BY <3>2, <2>2, <1>2
  <2> HIDE DEF P
  <2>3. none \in P
    BY <1>3, <2>1, <2>2, SetInduction
  <2> QED
    BY <2>3 DEF P
<1>6. Held(mem, sized) \in Nat
  BY <1>3, HeldType
<1> QED
  BY <1>3, <1>4, <1>5, <1>6 DEF sized

-------------------------------------------------------------------------------
(* The policy.                                                             *)

\* select_evictions: "free shortfall" — what it returns covers the shortfall,
\* and is never nothing.
THEOREM ChoicesCover ==
  ASSUME NEW mem, NEW S, IsFiniteSet(S), HasSizes(mem, S), NEW n \in Nat \ {0},
         NEW E \in EvictionChoices(mem, S, n)
  PROVE  E \subseteq S /\ E # {} /\ Held(mem, E) >= n
<1>1. CASE E \in GreedyChoices(mem, S, n)
  <2>1. E \subseteq S /\ Held(mem, E) >= n
    BY <1>1 DEF GreedyChoices, Sized
  <2>2. E # {}
    BY <2>1, HeldEmpty
  <2> QED
    BY <2>1, <2>2
<1>2. CASE \E a \in SingleChoices(mem, S, n) : E = {a}
  <2>1. PICK a \in S : E = {a} /\ mem[a] >= n
    BY <1>2 DEF SingleChoices, Sized
  <2>2. Held(mem, E) = mem[a]
    BY <2>1, HeldSingle DEF HasSizes
  <2> QED
    BY <2>1, <2>2
<1> QED
  BY <1>1, <1>2 DEF EvictionChoices

\* select_evictions raises exactly where all the models together are not
\* enough.
THEOREM RaisesExactlyIfHopeless ==
  ASSUME NEW mem, NEW S, IsFiniteSet(S), HasSizes(mem, S), NEW n \in Nat \ {0}
  PROVE  EvictionChoices(mem, S, n) = {} <=> Held(mem, S) < n
<1> DEFINE sized == Sized(mem, S)
<1>1. /\ IsFiniteSet(sized) /\ HasSizes(mem, sized) /\ Held(mem, S) = Held(mem, sized)
      /\ Held(mem, S) \in Nat
  BY HeldSized, HeldType
<1>2. ASSUME Held(mem, S) < n, NEW E \in EvictionChoices(mem, S, n)
      PROVE  FALSE
  <2>1. E \subseteq S /\ Held(mem, E) >= n
    BY <1>2, ChoicesCover
  <2>2. Held(mem, E) <= Held(mem, S) /\ Held(mem, E) \in Nat
    BY <2>1, FS_Subset, HeldMonotone, HeldType DEF HasSizes
  <2> QED
    BY <1>1, <1>2, <2>1, <2>2
<1>3. ASSUME Held(mem, S) >= n
      PROVE  \E G : G \in GreedyChoices(mem, S, n)
  \* The shortest prefix that is enough.
  <2> DEFINE Prefix(G) == \A m \in G, o \in sized \ G : mem[m] <= mem[o]
             T == {k \in Nat : \E G \in SUBSET sized :
                     Cardinality(G) = k /\ Prefix(G) /\ Held(mem, G) >= n}
  <2>1. Cardinality(sized) \in T
    BY <1>1, <1>3, FS_CardinalityType
  <2>2. PICK k \in T : \A j \in T : k <= j
    <3>1. T \subseteq Nat
      OBVIOUS
    <3> HIDE DEF T
    <3> QED
      BY <2>1, <3>1, LeastNat
  <2>3. PICK G \in SUBSET sized : Cardinality(G) = k /\ Prefix(G) /\ Held(mem, G) >= n
    BY <2>2
  <2>4. IsFiniteSet(G) /\ HasSizes(mem, G) /\ G # {}
    <3>1. IsFiniteSet(G) /\ HasSizes(mem, G)
      BY <1>1, FS_Subset DEF HasSizes
    <3>2. G # {}
      BY <2>3, HeldEmpty
    <3> QED
      BY <3>1, <3>2
  <2>5. PICK last \in G : \A m \in G : mem[m] <= mem[last]
    BY <2>4, Largest
  <2>6. Prefix(G \ {last})
    BY <2>3, <2>5
  <2>7. Cardinality(G \ {last}) = k - 1 /\ k \in Nat /\ Cardinality(G \ {last}) \in Nat
    BY <2>3, <2>4, FS_RemoveElement, FS_Subset, FS_CardinalityType
  <2>8. Held(mem, G \ {last}) \in Int
    BY <2>4, FS_Subset, HeldType DEF HasSizes
  <2>9. Held(mem, G \ {last}) < n
    <3>1. ASSUME Held(mem, G \ {last}) >= n
          PROVE  FALSE
      <4>1. Cardinality(G \ {last}) \in T
        BY <2>6, <2>7, <3>1
      <4> HIDE DEF T
      <4> QED
        BY <4>1, <2>2, <2>7
    <3> QED
      BY <3>1, <2>8
  <2>10. G \in GreedyChoices(mem, S, n)
    BY <2>3, <2>5, <2>9 DEF GreedyChoices
  <2> QED
    BY <2>10
<1>4. ASSUME NEW G \in GreedyChoices(mem, S, n)
      PROVE  EvictionChoices(mem, S, n) # {}
  BY <1>4 DEF EvictionChoices
<1> QED
  BY <1>1, <1>2, <1>3, <1>4
===============================================================================
