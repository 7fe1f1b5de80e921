-------------------------- MODULE EvictionLoopProofs --------------------------
(***************************************************************************)
(* Theorems about EvictionLoop: the loops of select_evictions compute what  *)
(* EvictionChoices of Eviction defines, for any models and sizes.           *)
(***************************************************************************)
EXTENDS EvictionLoop, EvictionProofs

-------------------------------------------------------------------------------
(* The loops.  What the properties need is what each loop knows midway: the  *)
(* scan has the best of the models it has seen, and the greedy loop has a    *)
(* prefix by size that was not enough before its last model.                *)

SingleBest ==
  /\ single # None => size[single] >= need
  /\ \A i \in 1 .. at - 1 :
       size[list[i]] >= need => single # None /\ size[single] <= size[list[i]]

Greedy ==
  /\ taken \subseteq Sized(size, Models)
  /\ \A m \in taken, o \in Sized(size, Models) \ taken : size[m] <= size[o]
  /\ taken # {} => \E last \in taken : /\ \A m \in taken : size[m] <= size[last]
                                       /\ Held(size, taken \ {last}) < need
  /\ total = Held(size, taken)

\* Where each loop has got to when a later one runs.
Order ==
  /\ step = "single" => taken = {}
  /\ step # "single" => at = Len(list) + 1
  /\ step \in {"choose", "done", "raised"} =>
       (taken # {} /\ total >= need) \/ taken = Sized(size, Models)

Outcome ==
  /\ step = "done" => /\ single # None \/ total >= need
                      /\ result = IF PickSingle THEN {single} ELSE taken
  /\ step = "raised" => single = None /\ total < need

LoopInv == TypeOK /\ SingleBest /\ Greedy /\ Order /\ Outcome

LEMMA LoopSizes ==
  ASSUME TypeOK, NEW S \in SUBSET Models
  PROVE  IsFiniteSet(S) /\ HasSizes(size, S) /\ Held(size, S) \in Nat
<1>1. IsFiniteSet(S) /\ HasSizes(size, S)
  BY EvictionAssumption, FS_Subset DEF TypeOK, HasSizes
<1> QED
  BY <1>1, HeldType

\* An order of the models has each of them in it.
LEMMA OrderHasAll ==
  ASSUME NEW s \in SetToSeqs(Models)
  PROVE  s \in Seq(Models) /\ ToSet(s) = Models
<1> DEFINE n == Cardinality(Models)
<1>1. n \in Nat /\ IsFiniteSet(Models)
  BY EvictionAssumption, FS_CardinalityType
<1>2. s \in [1 .. n -> Models] /\ \A i, j \in 1 .. n : i # j => s[i] # s[j]
  BY DEF SetToSeqs
<1> HIDE DEF n
<1>3. s \in Seq(Models) /\ DOMAIN s = 1 .. n
  BY <1>1, <1>2
<1>4. s \in Injection(1 .. n, Models)
  BY <1>2 DEF Injection, IsInjective
<1>5. Cardinality(1 .. n) = n
  BY <1>1, FS_Interval
<1>6. s \in Surjection(1 .. n, Models)
  BY <1>1, <1>4, <1>5, FS_Injection DEF n
<1> QED
  BY <1>2, <1>3, <1>6 DEF Surjection, ToSet

LEMMA LoopInit ==
  ASSUME Init
  PROVE  LoopInv
<1>1. TypeOK
  BY OrderHasAll, EvictionAssumption DEF Init, TypeOK
<1> QED
  BY <1>1, HeldEmpty DEF Init, LoopInv, SingleBest, Greedy, Order, Outcome, TypeOK

LEMMA ScanSingleInv ==
  ASSUME LoopInv, ScanSingle
  PROVE  LoopInv'
<1> USE DEF LoopInv, TypeOK, ScanSingle, inputs
<1>1. at \in 1 .. Len(list) /\ list[at] \in Models /\ None \notin Models
  BY EvictionAssumption
<1>2. TypeOK'
  BY <1>1
<1>3. SingleBest'
  <2>1. \A i \in 1 .. at' - 1 : i \in 1 .. at - 1 \/ i = at
    BY <1>1
  <2>2. \A i \in 1 .. at : list[i] \in Models /\ size[list[i]] \in Nat
    BY <1>1
  <2>3. CASE BetterSingle(list[at])
    <3>1. single' = list[at] /\ single' # None /\ size[list[at]] >= need
          /\ (single = None \/ size[list[at]] < size[single])
      BY <1>1, <2>3 DEF BetterSingle
    <3>2. single # None => size[single] \in Nat
      OBVIOUS
    <3> QED
      BY <1>1, <2>1, <2>2, <3>1, <3>2 DEF SingleBest
  <2>4. CASE ~ BetterSingle(list[at])
    <3>1. single' = single
      BY <2>4
    <3>2. size[list[at]] >= need => single # None /\ size[single] <= size[list[at]]
      <4>1. single # None => size[single] \in Nat
        OBVIOUS
      <4> QED
        BY <1>1, <2>2, <2>4, <4>1 DEF BetterSingle
    <3> QED
      BY <2>1, <3>1, <3>2 DEF SingleBest
  <2> QED
    BY <2>3, <2>4
<1>4. Greedy' /\ Order' /\ Outcome'
  BY DEF Greedy, Order, Outcome
<1> QED
  BY <1>2, <1>3, <1>4

LEMMA TakeNextInv ==
  ASSUME LoopInv, TakeNext
  PROVE  LoopInv'
<1> USE DEF LoopInv, TypeOK, TakeNext, inputs
<1>1. PICK m \in Models : NextSmallest(m) /\ taken' = taken \cup {m} /\ total' = total + size[m]
  OBVIOUS
<1> DEFINE sized == Sized(size, Models)
<1>2. m \in sized \ taken /\ \A o \in sized \ taken : size[m] <= size[o]
  <2>1. /\ m \in sized \ taken
        /\ \A o \in sized \ taken : o = m \/ size[m] < size[o] \/ size[m] = size[o]
    BY <1>1, Zenon DEF NextSmallest
  <2>2. \A o \in sized : size[o] \in Nat
    BY DEF Sized
  <2> HIDE DEF sized
  <2> QED
    BY <2>1, <2>2
<1>3. size[m] \in Nat
  OBVIOUS
<1>4. TypeOK'
  BY <1>1, <1>3
<1>5. total' = Held(size, taken')
  <2>1. Held(size, taken \cup {m}) = Held(size, taken) + size[m]
    BY <1>2, <1>3, LoopSizes, HeldAdd
  <2> QED
    BY <2>1, <1>1 DEF Greedy
<1>6. Held(size, taken) < need
  <2>1. CASE taken = {}
    <3>1. Held(size, taken) = 0
      BY <2>1, HeldEmpty, Zenon
    <3> QED
      BY <3>1
  <2>2. CASE total < need
    BY <2>2 DEF Greedy
  <2> QED
    BY <2>1, <2>2
<1>7. \A k \in taken : size[k] <= size[m]
  BY <1>2 DEF Greedy
<1>8. taken' \ {m} = taken
  BY <1>1, <1>2
<1>9. Greedy'
  <2> HIDE DEF sized
  <2>1. taken' \subseteq sized
    BY <1>1, <1>2 DEF Greedy, sized
  <2>2. \A k \in taken', o \in sized \ taken' : size[k] <= size[o]
    BY <1>1, <1>2 DEF Greedy, sized
  <2>3. \A k \in taken' : size[k] <= size[m]
    BY <1>1, <1>3, <1>7
  <2>4. m \in taken' /\ Held(size, taken' \ {m}) < need
    BY <1>1, <1>6, <1>8
  <2> QED
    BY <1>5, <2>1, <2>2, <2>3, <2>4 DEF Greedy, sized
<1>10. SingleBest' /\ Order' /\ Outcome'
  BY DEF SingleBest, Order, Outcome
<1> QED
  BY <1>4, <1>9, <1>10

LEMMA ChooseInv ==
  ASSUME LoopInv, Choose
  PROVE  LoopInv'
<1> USE DEF LoopInv, TypeOK, Choose, inputs
<1>1. TypeOK'
  BY DEF PickSingle
<1>2. SingleBest' /\ Greedy' /\ Order'
  BY DEF SingleBest, Greedy, Order
<1>3. Outcome'
  BY DEF Outcome, PickSingle
<1> QED
  BY <1>1, <1>2, <1>3

LEMMA LoopStep ==
  ASSUME LoopInv, [Next]_vars
  PROVE  LoopInv'
<1>1. CASE ScanEnds \/ TakenEnough \/ GiveUp
  <2> USE DEF LoopInv, TypeOK, ScanEnds, TakenEnough, GiveUp, inputs
  <2>1. TypeOK' /\ SingleBest' /\ Greedy'
    BY <1>1 DEF SingleBest, Greedy
  <2>2. Order' /\ Outcome'
    BY <1>1 DEF Order, Outcome
  <2> QED
    BY <2>1, <2>2
<1>2. CASE Returned \/ UNCHANGED vars
  BY <1>2 DEF LoopInv, TypeOK, SingleBest, Greedy, Order, Outcome, PickSingle, Returned,
    vars, inputs
<1> QED
  BY <1>1, <1>2, ScanSingleInv, TakeNextInv, ChooseInv DEF Next

-------------------------------------------------------------------------------
(* What the call returns.                                                  *)

\* After the scan, single is a smallest model that is enough, if any is.
LEMMA ScanResult ==
  ASSUME LoopInv, step # "single"
  PROVE  \A m \in Models : size[m] >= need => single # None /\ size[single] <= size[m]
<1> USE DEF LoopInv, TypeOK
<1> SUFFICES ASSUME NEW m \in Models, size[m] >= need
             PROVE  single # None /\ size[single] <= size[m]
  OBVIOUS
<1>1. PICK i \in DOMAIN list : list[i] = m
  BY DEF ToSet
<1>2. i \in 1 .. at - 1
  BY DEF Order
<1> QED
  BY <1>1, <1>2 DEF SingleBest

\* Where one model is enough alone, the greedy loop gets there too.
LEMMA GreedyGetsThere ==
  ASSUME LoopInv, step \in {"choose", "done", "raised"}, single # None
  PROVE  total >= need
<1> USE DEF LoopInv, TypeOK
<1>1. CASE taken = Sized(size, Models)
  <2>1. single \in taken
    BY <1>1 DEF SingleBest, Sized
  <2>2. size[single] <= Held(size, taken)
    BY <2>1, LoopSizes, HeldElement
  <2> QED
    BY <2>2, LoopSizes DEF SingleBest, Greedy
<1> QED
  BY <1>1 DEF Order

\* What the greedy loop took is one of the candidates.
LEMMA TakenIsGreedy ==
  ASSUME LoopInv, total >= need
  PROVE  taken \in GreedyChoices(size, Models, need)
<1> USE DEF LoopInv, TypeOK
<1>1. taken # {}
  <2> SUFFICES ASSUME taken = {} PROVE FALSE
    OBVIOUS
  <2>1. Held(size, taken) = 0
    BY HeldEmpty, Zenon
  <2> QED
    BY <2>1 DEF Greedy
<1> QED
  BY <1>1 DEF Greedy, GreedyChoices

LEMMA LoopAlways == Spec => []LoopInv
<1>1. Init => LoopInv
  BY LoopInit
<1>2. LoopInv /\ [Next]_vars => LoopInv'
  BY LoopStep
<1> QED
  BY <1>1, <1>2, PTL DEF Spec

\* Every variable of the call keeps its type.
THEOREM LoopTypes == Spec => []TypeOK
<1>1. LoopInv => TypeOK
  BY DEF LoopInv
<1> QED
  BY <1>1, LoopAlways, PTL

\* scheduling.py:101-102: the single model is never returned for want of a
\* greedy set.
THEOREM SingleIsNeverLastResort == Spec => []GreedyCoversSingle
<1>1. LoopInv => GreedyCoversSingle
  BY GreedyGetsThere DEF GreedyCoversSingle
<1> QED
  BY <1>1, LoopAlways, PTL

\* A call that returns has taken one of the choices.
LEMMA DoneIsAChoice ==
  ASSUME LoopInv, step = "done"
  PROVE  result \in EvictionChoices(size, Models, need)
<1> USE DEF LoopInv, TypeOK
<1>1. total >= need
  BY GreedyGetsThere DEF Outcome
<1>2. taken \in GreedyChoices(size, Models, need)
  BY <1>1, TakenIsGreedy
<1>3. total = Held(size, taken)
  BY DEF Greedy
<1>4. single # None =>
        /\ single \in SingleChoices(size, Models, need)
        /\ \A a \in SingleChoices(size, Models, need) : size[a] = size[single]
  <2> SUFFICES ASSUME single # None
               PROVE  /\ single \in SingleChoices(size, Models, need)
                      /\ \A a \in SingleChoices(size, Models, need) : size[a] = size[single]
    OBVIOUS
  <2>1. \A m \in Models : size[m] >= need => size[single] <= size[m]
    BY ScanResult
  <2>2. single \in SingleChoices(size, Models, need)
    BY <2>1 DEF SingleBest, SingleChoices, Sized
  <2>3. ASSUME NEW a \in SingleChoices(size, Models, need)
        PROVE  size[a] = size[single]
    <3>1. a \in Models /\ size[a] >= need /\ size[a] <= size[single]
      BY <2>2 DEF SingleChoices, Sized
    <3> QED
      BY <2>1, <3>1
  <2> QED
    BY <2>2, <2>3
<1>5. single = None => SingleChoices(size, Models, need) = {}
  BY ScanResult DEF SingleChoices, Sized
<1>6. CASE PickSingle
  <2>1. single # None /\ size[single] <= total /\ result = {single}
    BY <1>1, <1>6 DEF PickSingle, Outcome
  <2> QED
    BY <1>2, <1>3, <1>4, <2>1 DEF EvictionChoices
<1>7. CASE ~ PickSingle
  <2>1. result = taken /\ (single = None \/ ~ (size[single] <= total))
    BY <1>1, <1>7 DEF PickSingle, Outcome
  <2>2. \A G \in GreedyChoices(size, Models, need) : Held(size, G) = total
    <3>1. IsFiniteSet(Models) /\ HasSizes(size, Models) /\ need \in Int
      BY LoopSizes
    <3> QED
      BY <1>2, <1>3, <3>1, GreedySumsAgree
  <2>3. ~ \E a \in SingleChoices(size, Models, need), G \in GreedyChoices(size, Models, need) :
            size[a] <= Held(size, G)
    BY <1>4, <1>5, <2>1, <2>2
  <2> QED
    BY <1>2, <2>1, <2>3 DEF EvictionChoices
<1> QED
  BY <1>6, <1>7

\* A call that raises had no choice.
LEMMA RaisedIsHopeless ==
  ASSUME LoopInv, step = "raised"
  PROVE  EvictionChoices(size, Models, need) = {} /\ Held(size, Models) < need
<1> USE DEF LoopInv, TypeOK
<1>1. taken = Sized(size, Models) /\ Held(size, taken) < need
  BY DEF Outcome, Order, Greedy
<1>2. Held(size, Models) = Held(size, Sized(size, Models))
  BY LoopSizes, HeldSized
<1>3. Held(size, Models) < need
  BY <1>1, <1>2
<1> QED
  BY <1>3, LoopSizes, RaisesExactlyIfHopeless

\* The loops of select_evictions return what EvictionChoices allows, and
\* raise where it allows nothing.
THEOREM LoopsMakeAChoice == Spec => []ReturnsAChoice
<1>1. LoopInv => ReturnsAChoice
  BY DoneIsAChoice, RaisedIsHopeless DEF ReturnsAChoice
<1> QED
  BY <1>1, LoopAlways, PTL

\* What is evicted covers the shortfall.
THEOREM EvictionFreesEnough == Spec => []FreesEnough
<1>1. LoopInv => FreesEnough
  <2> SUFFICES ASSUME LoopInv, step = "done" PROVE Held(size, result) >= need
    BY DEF FreesEnough
  <2>1. need \in Nat \ {0} /\ IsFiniteSet(Models) /\ HasSizes(size, Models)
    BY LoopSizes DEF LoopInv, TypeOK
  <2> QED
    BY <2>1, DoneIsAChoice, ChoicesCover
<1> QED
  BY <1>1, LoopAlways, PTL

\* The call raises only if all the models together are not enough.
THEOREM RaisesOnlyWhenHopeless == Spec => []RaisesOnlyIfHopeless
<1>1. LoopInv => RaisesOnlyIfHopeless
  BY RaisedIsHopeless DEF RaisesOnlyIfHopeless
<1> QED
  BY <1>1, LoopAlways, PTL

\* Where one model is enough, no more than the smallest such is given up.
THEOREM NoSingleIsBetter == Spec => []NeverBeatenBySingle
<1>1. ASSUME LoopInv, step = "done", NEW m \in Models, size[m] >= need
      PROVE  Held(size, result) <= size[m]
  <2> USE <1>1 DEF LoopInv, TypeOK
  <2>1. single # None /\ size[single] <= size[m] /\ single \in Models
    BY ScanResult
  <2>2. total >= need /\ total = Held(size, taken)
    BY <2>1, GreedyGetsThere DEF Greedy
  <2>3. CASE PickSingle
    <3>1. result = {single} /\ Held(size, {single}) = size[single]
      BY <2>1, <2>3, HeldSingle DEF Outcome
    <3> QED
      BY <2>1, <3>1
  <2>4. CASE ~ PickSingle
    <3>1. result = taken /\ ~ (size[single] <= total)
      BY <2>1, <2>2, <2>4 DEF Outcome, PickSingle
    <3> QED
      BY <2>1, <2>2, <3>1
  <2> QED
    BY <2>3, <2>4
<1>2. LoopInv => NeverBeatenBySingle
  BY <1>1 DEF NeverBeatenBySingle
<1> QED
  BY <1>2, LoopAlways, PTL
===============================================================================
