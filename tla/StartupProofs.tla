----------------------------- MODULE StartupProofs ----------------------------
(***************************************************************************)
(* The memo of ds4 footprints, whatever threads do to it: it stays bounded, *)
(* and nobody is told another instance's footprint.  The ids it teaches     *)
(* come back from the upstream unchanged, name the gguf of their instance   *)
(* and reach that instance; a recalled dflash footprint is the one measured *)
(* for its own entry; and nothing is served before it is priced.            *)
(*                                                                         *)
(* The bound counts, with the entries, the callers that are about to add    *)
(* one: only a caller that found room, or made some, adds an entry.  The    *)
(* lists of the program, what it links and what it warms, are folds: they   *)
(* are typed by induction on the set of positions folded.                   *)
(***************************************************************************)
EXTENDS Startup, QueueLemmas, FiniteSetTheorems, TLAPS

\* The memo is a sequence and every caller has a record of where it is.
CallsOf(R) == [Callers -> [pc : Stages, inst : R, ctx : R, result : R, victim : R]]
Shape == memo \in Seq(ToSet(memo)) /\ \E R : call \in CallsOf(R)

Adding == {c \in Callers : call[c].pc = "put"}
RoomKept == Len(memo) + Cardinality(Adding) <= Limit + Cardinality(Callers) - 1

\* Footprints of the instance and the context they are told for.
RightFor(i, ctx, e) ==
  e = FromDs4(i, ctx) \/ (MayFallBack(i) /\ e = Fallback(i, ctx))

Priced == {"check", "oldest", "drop", "put", "adopt", "ids", "answered"}
RightMemo ==
  \A n \in DOMAIN memo : \A i, ctx :
    memo[n].key = Signature(i, ctx) => RightFor(i, ctx, memo[n].result)
RightCalls ==
  \A c \in Callers : call[c].pc \in Priced =>
    RightFor(call[c].inst, call[c].ctx, call[c].result)

----------------------------------------------------------------------------
(* Shape *)

\* A sequence is one of its own elements.
LEMMA SeqOfItself ==
  ASSUME NEW S, NEW s \in Seq(S) PROVE s \in Seq(ToSet(s))
<1>1. Len(s) \in Nat /\ DOMAIN s = 1 .. Len(s) /\ s = [n \in 1 .. Len(s) |-> s[n]]
  OBVIOUS
<1>2. \A n \in 1 .. Len(s) : s[n] \in ToSet(s)
  BY <1>1 DEF ToSet
<1> QED BY <1>1, <1>2, SeqDef

\* What a caller's step does to the calls.
LEMMA CallShape ==
  ASSUME Shape, NEW c \in Callers, NEW i, NEW ctx,
         Ask(c, i, ctx) \/ Inside(c) \/ Return(c)
  PROVE  /\ \E R : call' \in CallsOf(R)
         /\ \A d \in Callers \ {c} : call'[d] = call[d]
<1>1. PICK R : call \in CallsOf(R)
  BY DEF Shape
<1> USE <1>1 DEF CallsOf, Stages
<1>2. CASE Ask(c, i, ctx)
  <2> DEFINE hit == Memoised(Signature(i, ctx))
             r == memo[CHOOSE n \in hit : TRUE].result
             T == R \cup {i, ctx, r, None}
             asked == [Idle EXCEPT !.inst = i, !.ctx = ctx]
             new == IF hit = {} THEN [asked EXCEPT !.pc = "run"]
                    ELSE [asked EXCEPT !.pc = "adopt", !.result = r]
  <2>1. call' = [call EXCEPT ![c] = new]
    BY <1>2 DEF Ask
  <2>2. new \in [pc : Stages, inst : T, ctx : T, result : T, victim : T]
    BY DEF Idle
  <2>3. call' \in CallsOf(T) /\ \A d \in Callers \ {c} : call'[d] = call[d]
    <3> HIDE DEF new, T
    <3>1. \A x \in R : x \in T
      BY DEF T
    <3> QED BY <2>1, <2>2, <3>1
  <2> QED BY <2>3
<1>3. CASE Return(c)
  <2> DEFINE T == R \cup {0, None}
  <2>1. call' = [call EXCEPT ![c] = Idle]
    BY <1>3 DEF Return
  <2>2. call' \in CallsOf(T) /\ \A d \in Callers \ {c} : call'[d] = call[d]
    BY <2>1 DEF Idle
  <2> QED BY <2>2
<1>4. CASE Measure(c) \/ FallBack(c)
  <2>1. PICK e : call' = [call EXCEPT ![c].pc = "check", ![c].result = e]
    BY <1>4 DEF Measure, FallBack, Computed
  <2> DEFINE T == R \cup {e}
  <2>2. e \in T /\ \A x \in R : x \in T
    OBVIOUS
  <2>3. call' \in CallsOf(T) /\ \A d \in Callers \ {c} : call'[d] = call[d]
    <3> HIDE DEF T
    <3> QED BY <2>1, <2>2
  <2> QED BY <2>3
<1>5. CASE Oldest(c)
  <2>1. PICK v : call' = [call EXCEPT ![c].pc = "drop", ![c].victim = v]
    BY <1>5 DEF Oldest
  <2> DEFINE T == R \cup {v}
  <2>2. v \in T /\ \A x \in R : x \in T
    OBVIOUS
  <2>3. call' \in CallsOf(T) /\ \A d \in Callers \ {c} : call'[d] = call[d]
    <3> HIDE DEF T
    <3> QED BY <2>1, <2>2
  <2> QED BY <2>3
<1>6. CASE Drop(c)
  <2> DEFINE T == R \cup {None}
  <2>1. call' = [call EXCEPT ![c].pc = "put", ![c].victim = None]
    BY <1>6 DEF Drop
  <2>2. call' \in CallsOf(T) /\ \A d \in Callers \ {c} : call'[d] = call[d]
    BY <2>1
  <2> QED BY <2>2
<1>7. CASE Refuse(c) \/ CheckFull(c) \/ DropGone(c) \/ Put(c) \/ Adopt(c) \/ SetIds(c)
  <2>1. \E pc \in Stages : call' = [call EXCEPT ![c].pc = pc]
    BY <1>7 DEF Refuse, CheckFull, DropGone, Put, Adopt, SetIds, Goto
  <2>2. call' \in CallsOf(R) /\ \A d \in Callers \ {c} : call'[d] = call[d]
    BY <2>1
  <2> QED BY <2>2
<1> QED BY <1>2, <1>3, <1>4, <1>5, <1>6, <1>7 DEF Inside

\* Dropping an entry takes one out; putting one adds one, or replaces it.
LEMMA MemoShape ==
  ASSUME Shape, NEW c \in Callers, NEW i, NEW ctx,
         Ask(c, i, ctx) \/ Inside(c) \/ Return(c)
  PROVE  /\ memo' \in Seq(ToSet(memo'))
         /\ \/ memo' = memo /\ ~Drop(c) /\ ~Put(c)
            \/ Drop(c) /\ Len(memo') = Len(memo) - 1
            \/ Put(c) /\ Len(memo') <= Len(memo) + 1
         /\ \A n \in DOMAIN memo' :
              \/ \E o \in DOMAIN memo : memo'[n] = memo[o]
              \/ Put(c) /\ memo'[n] = [key |-> Signature(call[c].inst, call[c].ctx),
                                       result |-> call[c].result]
<1> DEFINE S == ToSet(memo)
<1>0. /\ memo \in Seq(S) /\ Len(memo) \in Nat /\ DOMAIN memo = 1 .. Len(memo)
  BY DEF Shape
<1>1. CASE Drop(c)
  <2>1. PICK n \in Memoised(call[c].victim) : memo' = RemoveAt(memo, n)
    BY <1>1 DEF Drop
  <2>2. n \in 1 .. Len(memo)
    BY <1>0 DEF Memoised
  <2>3. /\ memo' \in Seq(S) /\ Len(memo') = Len(memo) - 1
        /\ \A j \in 1 .. Len(memo) - 1 :
             memo'[j] = IF j < n THEN memo[j] ELSE memo[j + 1]
    <3> HIDE DEF S
    <3> QED BY <1>0, <2>1, <2>2, RemoveAtFacts
  <2>4. \A j \in DOMAIN memo' : \E o \in DOMAIN memo : memo'[j] = memo[o]
    <3> SUFFICES ASSUME NEW j \in DOMAIN memo'
                 PROVE  \E o \in DOMAIN memo : memo'[j] = memo[o]
      OBVIOUS
    <3>1. j \in 1 .. Len(memo) - 1
      BY <1>0, <2>3
    <3>2. j \in DOMAIN memo /\ j + 1 \in DOMAIN memo
      BY <1>0, <3>1
    <3> QED BY <2>3, <3>1, <3>2
  <2>5. memo' \in Seq(ToSet(memo'))
    BY <2>3, SeqOfItself
  <2> QED BY <1>1, <2>3, <2>4, <2>5
<1>2. CASE Put(c)
  <2> DEFINE entry == [key |-> Signature(call[c].inst, call[c].ctx),
                       result |-> call[c].result]
             there == Memoised(entry.key)
             T == S \cup {entry}
  <2>1. memo' = With(entry)
    BY <1>2 DEF Put
  <2>2. there \subseteq DOMAIN memo
    BY DEF Memoised
  <2>3. /\ memo' \in Seq(T) /\ Len(memo') <= Len(memo) + 1
        /\ \A n \in DOMAIN memo' :
             memo'[n] = entry \/ \E o \in DOMAIN memo : memo'[n] = memo[o]
    <3>1. CASE there = {}
      <4>1. memo' = Append(memo, entry)
        BY <2>1, <3>1 DEF With
      <4>2. memo \in Seq(T)
        BY <1>0
      <4> HIDE DEF S, T, entry, there
      <4>3. entry \in T
        BY DEF T
      <4> QED BY <1>0, <4>1, <4>2, <4>3
    <3>2. CASE there # {}
      <4>1. PICK k \in DOMAIN memo : memo' = [memo EXCEPT ![k] = entry]
        BY <2>1, <2>2, <3>2 DEF With
      <4>2. memo \in Seq(T)
        BY <1>0
      <4> HIDE DEF S, T, entry, there
      <4>3. entry \in T
        BY DEF T
      <4> QED BY <1>0, <4>1, <4>2, <4>3
    <3> QED BY <3>1, <3>2
  <2>4. memo' \in Seq(ToSet(memo'))
    <3> HIDE DEF T
    <3> QED BY <2>3, SeqOfItself
  <2> QED BY <1>2, <2>3, <2>4
<1>3. CASE ~Drop(c) /\ ~Put(c)
  <2>1. memo' = memo
    BY <1>3 DEF Ask, Return, Inside, Measure, FallBack, Refuse, CheckFull, Oldest,
       DropGone, Adopt, SetIds
  <2> QED BY <1>0, <1>3, <2>1
<1> QED BY <1>1, <1>2, <1>3

----------------------------------------------------------------------------
(* The bound *)

\* A caller begins to add when it found room, or made some.
LEMMA RoomStep ==
  ASSUME Shape, RoomKept, NEW c \in Callers, NEW i, NEW ctx,
         Ask(c, i, ctx) \/ Inside(c) \/ Return(c)
  PROVE  RoomKept'
<1>1. PICK R : call \in CallsOf(R)
  BY DEF Shape
<1>2. PICK Q : call' \in CallsOf(Q)
  BY CallShape
<1>3. \A d \in Callers \ {c} : call'[d] = call[d]
  BY CallShape
<1>4. /\ Len(memo) \in Nat /\ Len(memo') \in Nat
      /\ \/ memo' = memo /\ ~Drop(c) /\ ~Put(c)
         \/ Drop(c) /\ Len(memo') = Len(memo) - 1
         \/ Put(c) /\ Len(memo') <= Len(memo) + 1
  BY MemoShape DEF Shape
<1>5. /\ IsFiniteSet(Adding) /\ IsFiniteSet(Adding') /\ IsFiniteSet(Callers)
      /\ Cardinality(Adding) \in Nat /\ Cardinality(Adding') \in Nat
      /\ Cardinality(Callers) \in Nat /\ Cardinality(Adding') <= Cardinality(Callers)
  BY CallersAssumption, FS_Subset, FS_CardinalityType DEF Adding
<1>6. Limit \in Nat \ {0}
  BY LimitAssumption
<1>7. Adding' \subseteq Adding \cup {c}
  BY <1>3 DEF Adding
<1>8. CASE Drop(c)
  <2>1. Cardinality(Adding') <= Cardinality(Adding) + 1
    <3>1. /\ IsFiniteSet(Adding \cup {c})
          /\ Cardinality(Adding \cup {c}) =
               IF c \in Adding THEN Cardinality(Adding) ELSE Cardinality(Adding) + 1
      BY <1>5, FS_AddElement
    <3>2. Cardinality(Adding') <= Cardinality(Adding \cup {c})
      BY <1>7, <3>1, FS_Subset
    <3> QED BY <1>5, <3>1, <3>2, FS_CardinalityType
  <2>2. Len(memo') = Len(memo) - 1
    BY <1>4, <1>8 DEF Drop, Put, At
  <2> QED BY <1>4, <1>5, <1>6, <2>1, <2>2 DEF RoomKept
<1>9. CASE Put(c)
  <2>1. call[c].pc = "put" /\ call'[c].pc = "adopt"
    BY <1>1, <1>9 DEF Put, At, Goto, CallsOf
  <2>2. c \in Adding /\ Adding' = Adding \ {c}
    BY <1>3, <2>1 DEF Adding
  <2>3. Cardinality(Adding') = Cardinality(Adding) - 1
    BY <1>5, <2>2, FS_RemoveElement
  <2>4. Len(memo') <= Len(memo) + 1
    BY <1>4
  <2> QED BY <1>4, <1>5, <1>6, <2>3, <2>4 DEF RoomKept
<1>10. CASE CheckFull(c)
  <2>1. memo' = memo
    BY <1>10 DEF CheckFull
  <2>2. CASE Full
    <3>1. call'[c].pc = "oldest"
      BY <1>1, <1>10, <2>2 DEF CheckFull, Goto, CallsOf
    <3>2. Adding' \subseteq Adding
      BY <1>3, <3>1 DEF Adding
    <3>3. Cardinality(Adding') <= Cardinality(Adding)
      BY <1>5, <3>2, FS_Subset
    <3> QED BY <1>4, <1>5, <1>6, <2>1, <3>3 DEF RoomKept
  <2>3. CASE ~Full
    <3>1. Len(memo') <= Limit - 1
      BY <1>4, <1>6, <2>1, <2>3 DEF Full
    <3> QED BY <1>4, <1>5, <1>6, <3>1 DEF RoomKept
  <2> QED BY <2>2, <2>3
<1>11. CASE ~Drop(c) /\ ~Put(c) /\ ~CheckFull(c)
  <2>1. call'[c].pc # "put"
    <3>1. CASE Ask(c, i, ctx)
      BY <1>1, <3>1 DEF Ask, Idle, CallsOf
    <3>2. CASE Return(c)
      BY <1>1, <3>2 DEF Return, Idle, CallsOf
    <3>3. CASE Measure(c) \/ FallBack(c) \/ Refuse(c) \/ Oldest(c)
      BY <1>1, <3>3 DEF Measure, FallBack, Computed, Refuse, Oldest, Goto, CallsOf
    <3>4. CASE DropGone(c) \/ Adopt(c) \/ SetIds(c)
      BY <1>1, <3>4 DEF DropGone, Adopt, SetIds, Goto, CallsOf
    <3> QED BY <1>11, <3>1, <3>2, <3>3, <3>4 DEF Inside
  <2>2. Adding' \subseteq Adding
    BY <1>3, <2>1 DEF Adding
  <2>3. Cardinality(Adding') <= Cardinality(Adding)
    BY <1>5, <2>2, FS_Subset
  <2>4. memo' = memo
    BY <1>4, <1>11
  <2> QED BY <1>4, <1>5, <1>6, <2>3, <2>4 DEF RoomKept
<1> QED BY <1>8, <1>9, <1>10, <1>11

----------------------------------------------------------------------------
(* The footprints *)

\* Equal keys stand for equal footprints: nothing else goes into them.
FootprintsByKey ==
  \A i, j, x, y : Signature(i, x) = Signature(j, y) =>
    Measured(i, x) = Measured(j, y) /\ FileBytes(i) = FileBytes(j)

LEMMA RightForSameKey ==
  ASSUME FootprintsByKey, NEW i, NEW j, NEW x, NEW y, NEW e,
         Signature(i, x) = Signature(j, y), RightFor(i, x, e)
  PROVE  RightFor(j, y, e)
<1>1. Measured(i, x) = Measured(j, y) /\ FileBytes(i) = FileBytes(j)
  BY DEF FootprintsByKey
<1>2. x = y /\ i.options = j.options /\ i.profile = j.profile
  BY DEF Signature
<1>3. FromDs4(i, x) = FromDs4(j, y)
  BY <1>1, <1>2 DEF FromDs4, UnknownSpecGraph
<1>4. MayFallBack(i) = MayFallBack(j) /\ Fallback(i, x) = Fallback(j, y)
  BY <1>1, <1>2 DEF MayFallBack, Fallback
<1> QED BY <1>3, <1>4 DEF RightFor

\* A hit is right for whoever hits it, and so is what is put.
LEMMA RightStep ==
  ASSUME FootprintsByKey, Shape, RightMemo, RightCalls,
         NEW c \in Callers, NEW i, NEW ctx,
         Ask(c, i, ctx) \/ Inside(c) \/ Return(c)
  PROVE  RightMemo' /\ RightCalls'
<1>1. PICK R : call \in CallsOf(R)
  BY DEF Shape
<1>2. \A d \in Callers \ {c} : call'[d] = call[d]
  BY CallShape
<1>3. RightMemo'
  <2> SUFFICES ASSUME NEW n \in DOMAIN memo', NEW j, NEW x,
                      memo'[n].key = Signature(j, x)
               PROVE  RightFor(j, x, memo'[n].result)
    BY DEF RightMemo, RightFor, FromDs4, UnknownSpecGraph, Fallback, MayFallBack, Signature
  <2>1. CASE \E o \in DOMAIN memo : memo'[n] = memo[o]
    BY <2>1 DEF RightMemo
  <2>2. CASE /\ Put(c)
             /\ memo'[n] = [key |-> Signature(call[c].inst, call[c].ctx),
                            result |-> call[c].result]
    <3>1. RightFor(call[c].inst, call[c].ctx, call[c].result)
      BY <2>2 DEF RightCalls, Put, At, Priced
    <3>2. Signature(call[c].inst, call[c].ctx) = Signature(j, x)
          /\ memo'[n].result = call[c].result
      BY <2>2
    <3> QED BY <3>1, <3>2, RightForSameKey
  <2> QED BY <2>1, <2>2, MemoShape
<1>4. call'[c].pc \in Priced =>
        RightFor(call'[c].inst, call'[c].ctx, call'[c].result)
  <2> USE <1>1 DEF CallsOf
  <2>1. CASE Ask(c, i, ctx)
    <3> DEFINE hit == Memoised(Signature(i, ctx))
               n == CHOOSE k \in hit : TRUE
    <3>1. CASE hit = {}
      <4>1. call'[c].pc = "run"
        BY <2>1, <3>1 DEF Ask, Idle
      <4> QED BY <4>1 DEF Priced
    <3>2. CASE hit # {}
      <4>1. n \in DOMAIN memo /\ memo[n].key = Signature(i, ctx)
        BY <3>2 DEF Memoised
      <4> HIDE DEF n
      <4>2. RightFor(i, ctx, memo[n].result)
        BY <4>1 DEF RightMemo
      <4>3. call'[c].inst = i /\ call'[c].ctx = ctx /\ call'[c].result = memo[n].result
        BY <2>1, <3>2 DEF Ask, Idle, n
      <4> QED BY <4>2, <4>3
    <3> QED BY <3>1, <3>2
  <2>2. CASE Return(c)
    BY <2>2 DEF Return, Idle, Priced
  <2>3. CASE Measure(c)
    <3>1. PICK e : /\ e = FromDs4(call[c].inst, call[c].ctx)
                   /\ call' = [call EXCEPT ![c].pc = "check", ![c].result = e]
      BY <2>3 DEF Measure, Computed
    <3>2. call'[c].inst = call[c].inst /\ call'[c].ctx = call[c].ctx /\ call'[c].result = e
      BY <3>1
    <3> QED BY <3>1, <3>2 DEF RightFor
  <2>4. CASE FallBack(c)
    <3>1. PICK e : /\ e = Fallback(call[c].inst, call[c].ctx)
                   /\ call' = [call EXCEPT ![c].pc = "check", ![c].result = e]
      BY <2>4 DEF FallBack, Computed
    <3>2. call'[c].inst = call[c].inst /\ call'[c].ctx = call[c].ctx /\ call'[c].result = e
      BY <3>1
    <3>3. MayFallBack(call[c].inst)
      BY <2>4 DEF FallBack
    <3> QED BY <3>1, <3>2, <3>3 DEF RightFor
  <2>5. CASE \/ CheckFull(c) \/ Oldest(c) \/ Drop(c) \/ Put(c) \/ Adopt(c) \/ SetIds(c)
    <3>1. call[c].pc \in Priced
      BY <2>5 DEF CheckFull, Oldest, Drop, Put, Adopt, SetIds, At, Priced
    <3>2. call'[c].inst = call[c].inst /\ call'[c].ctx = call[c].ctx
          /\ call'[c].result = call[c].result
      BY <2>5 DEF CheckFull, Oldest, Drop, Put, Adopt, SetIds, Goto
    <3> QED BY <3>1, <3>2 DEF RightCalls
  <2>6. CASE Refuse(c) \/ DropGone(c)
    <3>1. call'[c].pc = "raised"
      BY <2>6 DEF Refuse, DropGone, Goto
    <3> QED BY <3>1 DEF Priced
  <2> QED BY <2>1, <2>2, <2>3, <2>4, <2>5, <2>6 DEF Inside
<1>5. RightCalls'
  <2> SUFFICES ASSUME NEW d \in Callers, call'[d].pc \in Priced
               PROVE  RightFor(call'[d].inst, call'[d].ctx, call'[d].result)
    BY DEF RightCalls, RightFor, FromDs4, UnknownSpecGraph, Fallback, MayFallBack
  <2> QED BY <1>2, <1>4 DEF RightCalls
<1> QED BY <1>3, <1>5

----------------------------------------------------------------------------
(* What holds of every run *)

\* A process that has asked for nothing.
Fresh == memo = << >> /\ call = [c \in Callers |-> Idle]

\* A step leaves the memo and the callers alone, loses them with the process,
\* or is one caller's.
LEMMA StepKinds ==
  ASSUME [Next]_vars
  PROVE  \/ UNCHANGED <<memo, call>>
         \/ Fresh'
         \/ \E c \in Callers : Inside(c) \/ Return(c) \/ \E i, ctx : Ask(c, i, ctx)
<1>1. CASE \/ CacheFails \/ BuildFails \/ WarmRaises \/ Kill
  BY <1>1 DEF CacheFails, BuildFails, WarmRaises, Kill, Off, Ds4Lost, Fresh
<1>2. CASE WarmAsk \/ Warmed
  BY <1>2, LoopAssumption DEF WarmAsk, Warmed
<1>3. ASSUME NEW c \in Callers, Price(c) \/ Estimate(c)
      PROVE  Inside(c) \/ Return(c) \/ \E i, ctx : Ask(c, i, ctx)
  BY <1>3 DEF Price, Estimate
<1>4. CASE \/ Start \/ ResolveRefs \/ RecallCache \/ SkipCache \/ ComputeCache
           \/ OpenCache \/ DumpCache \/ BuildTree \/ Built \/ Serve \/ User
           \/ UNCHANGED vars
  BY <1>4 DEF Start, ResolveRefs, RecallCache, SkipCache, ComputeCache, OpenCache,
     DumpCache, BuildTree, Built, Serve, User, vars, ds4Vars
<1> QED BY <1>1, <1>2, <1>3, <1>4 DEF Next

IInv == Shape /\ RoomKept

LEMMA FreshIInv == Fresh => IInv /\ RightMemo /\ RightCalls
<1> SUFFICES ASSUME Fresh PROVE IInv /\ RightMemo /\ RightCalls
  OBVIOUS
<1> USE DEF Fresh
<1>1. memo \in Seq(ToSet(memo)) /\ Len(memo) = 0 /\ DOMAIN memo = {}
  OBVIOUS
<1>2. call \in CallsOf({None, 0})
  BY DEF CallsOf, Idle, Stages
<1>3. Adding = {}
  BY DEF Adding, Idle
<1>4. Cardinality({}) = 0
  BY FS_EmptySet
<1>5. Cardinality(Callers) \in Nat
  BY CallersAssumption, FS_CardinalityType
<1>6. RoomKept
  BY <1>1, <1>3, <1>4, <1>5, LimitAssumption DEF RoomKept
<1>7. RightMemo /\ RightCalls
  BY <1>1 DEF RightMemo, RightCalls, Idle, Priced
<1> QED BY <1>1, <1>2, <1>6, <1>7 DEF IInv, Shape

LEMMA InitIInv == Init => IInv
BY FreshIInv DEF Init, Ds4Fresh, Fresh

LEMMA LostIInv == Fresh' => (IInv /\ RightMemo /\ RightCalls)'
BY FreshIInv, PTL

LEMMA StepIInv == IInv /\ [Next]_vars => IInv'
<1> SUFFICES ASSUME IInv, [Next]_vars PROVE IInv'
  OBVIOUS
<1>1. CASE UNCHANGED <<memo, call>>
  BY <1>1 DEF IInv, Shape, RoomKept, Adding, CallsOf
<1>2. CASE Fresh'
  BY <1>2, LostIInv
<1>3. ASSUME NEW c \in Callers, NEW i, NEW ctx, Ask(c, i, ctx) \/ Inside(c) \/ Return(c)
      PROVE  IInv'
  BY <1>3, CallShape, MemoShape, RoomStep DEF IInv, Shape
<1> QED BY <1>1, <1>2, <1>3, StepKinds

LEMMA InvariantThroughout == Spec => []IInv
BY InitIInv, StepIInv, PTL DEF Spec

\* However many threads miss the memo at once, it passes its limit by no more
\* than one entry for each other thread.
THEOREM MemoStaysBounded == Spec => []MemoBounded
<1>1. IInv => MemoBounded
  <2> SUFFICES ASSUME IInv PROVE MemoBounded
    OBVIOUS
  <2>1. Cardinality(Adding) \in Nat /\ Cardinality(Callers) \in Nat
    <3>1. IsFiniteSet(Adding)
      BY CallersAssumption, FS_Subset DEF Adding
    <3> QED BY <3>1, CallersAssumption, FS_CardinalityType
  <2>2. Len(memo) \in Nat
    BY DEF IInv, Shape
  <2> QED BY <2>1, <2>2, LimitAssumption DEF IInv, RoomKept, MemoBounded
<1> QED BY <1>1, InvariantThroughout, PTL

\* Nobody is told another instance's footprint, or its own at another context,
\* when the key holds everything the estimate depends on.
THEOREM EveryPriceIsItsOwn ==
  ASSUME FootprintsByKey PROVE Spec => []PricesItsOwn
<1>1. Init => RightMemo /\ RightCalls
  BY FreshIInv DEF Init, Ds4Fresh, Fresh
<1>2. IInv /\ RightMemo /\ RightCalls /\ [Next]_vars => (RightMemo /\ RightCalls)'
  <2> SUFFICES ASSUME IInv, RightMemo, RightCalls, [Next]_vars
               PROVE  RightMemo' /\ RightCalls'
    OBVIOUS
  <2>1. CASE UNCHANGED <<memo, call>>
    BY <2>1 DEF RightMemo, RightCalls, RightFor, FromDs4, UnknownSpecGraph, Fallback,
       MayFallBack, Signature
  <2>2. CASE Fresh'
    BY <2>2, LostIInv
  <2>3. ASSUME NEW c \in Callers, NEW i, NEW ctx, Ask(c, i, ctx) \/ Inside(c) \/ Return(c)
        PROVE  RightMemo' /\ RightCalls'
    BY <2>3, RightStep DEF IInv
  <2> QED BY <2>1, <2>2, <2>3, StepKinds
<1>3. RightCalls => PricesItsOwn
  <2> SUFFICES ASSUME RightCalls, NEW c \in Callers,
                      call[c].pc \in {"adopt", "ids", "answered"}
               PROVE  LET i == call[c].inst
                          Mib(e) == EstimateMib(e, i.sessions)
                      IN  \/ Mib(call[c].result) = Mib(FromDs4(i, call[c].ctx))
                          \/ /\ MayFallBack(i)
                             /\ Mib(call[c].result) = Mib(Fallback(i, call[c].ctx))
    BY DEF PricesItsOwn
  <2>1. RightFor(call[c].inst, call[c].ctx, call[c].result)
    BY DEF RightCalls, Priced
  <2> QED BY <2>1 DEF RightFor
<1> QED BY <1>1, <1>2, <1>3, InvariantThroughout, PTL DEF Spec

----------------------------------------------------------------------------
(* Names *)

\* What a client asks for under a published id is what ds4 calls it, whatever
\* the prefix and the id.
THEOREM UpstreamUndoesPublish ==
  ASSUME NEW S, NEW prefix \in Seq(S), NEW id \in Seq(S)
  PROVE  Upstream(prefix, Publish(prefix, id)) = id
<1> DEFINE p == Len(prefix)
           x == prefix \o id
<1>1. /\ p \in Nat /\ Len(id) \in Nat /\ x \in Seq(S) /\ Len(x) = p + Len(id)
      /\ \A n \in 1 .. p : x[n] = prefix[n]
      /\ \A n \in 1 .. Len(id) : x[p + n] = id[n]
  OBVIOUS
<1> HIDE DEF x
<1>2. SubSeq(prefix, 1, p) = SubSeq(x, 1, p)
  <2>1. /\ SubSeq(prefix, 1, p) = [n \in 1 .. p |-> prefix[n]]
        /\ SubSeq(x, 1, p) = [n \in 1 .. p |-> x[n]]
    BY <1>1
  <2> QED BY <1>1, <2>1
<1>3. SubSeq(x, p + 1, Len(x)) = id
  <2>1. /\ SubSeq(x, p + 1, Len(x)) \in Seq(S)
        /\ Len(SubSeq(x, p + 1, Len(x))) = Len(id)
        /\ \A n \in 1 .. Len(id) : SubSeq(x, p + 1, Len(x))[n] = id[n]
    BY <1>1
  <2> QED BY <2>1, SeqEqual
<1>4. IsPrefix(prefix, x)
  BY <1>1, <1>2 DEF IsPrefix
<1> QED BY <1>3, <1>4 DEF Upstream, Publish, x

----------------------------------------------------------------------------
(* The cache file *)

\* Footprints are a dict, and a torn file is none.
TornIsNoDict == \A A, f : [a \in A |-> f[a]] # Torn

\* What is about to be written is not torn.
FileInv ==
  /\ files = [c \in Configs |-> files[c]]
  /\ stage \in {"write", "dump"} => cache # Torn
  /\ TornOnlyWhenCutShort

LEMMA FileStep ==
  ASSUME TornIsNoDict PROVE FileInv /\ [Next]_vars => FileInv'
<1> SUFFICES ASSUME FileInv, [Next]_vars PROVE FileInv'
  OBVIOUS
<1> USE DEF FileInv, TornOnlyWhenCutShort
<1>1. CASE UNCHANGED <<stage, config, files, cutShort, cache>>
  BY <1>1
<1>2. CASE Start \/ ResolveRefs \/ SkipCache \/ Built \/ Serve
  <2>1. /\ UNCHANGED <<files, cutShort, cache>>
        /\ stage \notin {"write", "dump"} /\ stage' \notin {"write", "dump"}
    BY <1>2 DEF Start, ResolveRefs, Resolve, SkipCache, Built, Serve, Main, dflashVars
  <2> QED BY <2>1
<1>3. CASE RecallCache
  BY <1>3 DEF RecallCache, Main, Recall
<1>4. CASE ComputeCache
  <2>1. stage = "recall" /\ stage' = "write" /\ UNCHANGED <<files, cutShort, config>>
    BY <1>4 DEF ComputeCache, Main, Compute
  <2>2. cache' # Torn
    <3>1. cache' = [a \in DOMAIN cache' |-> cache'[a]]
      BY <1>4 DEF ComputeCache, Compute
    <3> QED BY <3>1 DEF TornIsNoDict
  <2> QED BY <2>1, <2>2
<1>5. CASE OpenCache
  <2>1. /\ stage = "write" /\ stage' = "dump" /\ UNCHANGED <<cache, config, cutShort>>
        /\ files' = [files EXCEPT ![config] = Torn]
    BY <1>5 DEF OpenCache, Main, OpenFile, CacheKey
  <2> QED BY <2>1
<1>6. CASE DumpCache
  <2>1. /\ stage = "dump" /\ stage' = "build" /\ UNCHANGED <<cache, config, cutShort>>
        /\ files' = [files EXCEPT ![config] = cache]
    BY <1>6 DEF DumpCache, Main, DumpFile, CacheKey
  <2> QED BY <2>1
<1>7. CASE CacheFails \/ BuildFails \/ WarmRaises
  <2>1. stage # "dump" /\ stage' = "off" /\ UNCHANGED <<files, cutShort>>
    BY <1>7 DEF CacheFails, BuildFails, WarmRaises, Off
  <2> QED BY <2>1
<1>8. CASE Kill
  <2>1. /\ stage' = "off" /\ UNCHANGED files /\ cutShort \subseteq cutShort'
        /\ stage = "dump" => config \in cutShort'
    BY <1>8 DEF Kill, Off, CacheKey
  <2> QED BY <2>1
<1> QED
  BY <1>1, <1>2, <1>3, <1>4, <1>5, <1>6, <1>7, <1>8
  DEF Next, BuildTree, WarmAsk, Warmed, Price, Estimate, User, Main, Download, Delete,
      vars, dflashVars

\* A start that fails never leaves a file that later starts cannot read; only
\* one that is stopped in the middle of writing does.
THEOREM OnlyCutShortFilesAreTorn ==
  ASSUME TornIsNoDict, Absent # Torn PROVE Spec => []TornOnlyWhenCutShort
<1>1. Init => FileInv
  BY DEF Init, FileInv, TornOnlyWhenCutShort
<1>2. FileInv /\ [Next]_vars => FileInv'
  BY FileStep
<1>3. FileInv => TornOnlyWhenCutShort
  BY DEF FileInv
<1> QED BY <1>1, <1>2, <1>3, PTL DEF Spec

----------------------------------------------------------------------------
(* The lists main() goes through *)

Warm == Instances \X Ctxs
Dirs == {i.dir : i \in Instances}

\* The recursions behind the two folds over the instances of a config.
IsWarming(s, g) ==
  g = [d \in SUBSET (DOMAIN s) |->
         IF d = {} THEN << >> ELSE g[d \ {Max(d)}] \o Warmings(s[Max(d)])]

IsRooting(s, g) ==
  g = [d \in SUBSET (DOMAIN s) |->
         IF d = {} THEN << >>
         ELSE IF s[Max(d)].dir \in ToSet(g[d \ {Max(d)}]) THEN g[d \ {Max(d)}]
              ELSE Append(g[d \ {Max(d)}], s[Max(d)].dir)]

LEMMA WarmListUnfold ==
  ASSUME NEW c
  PROVE  WarmList(c) = (CHOOSE g : IsWarming(Ds4[c], g))[DOMAIN Ds4[c]]
BY Zenon DEF WarmList, FoldLeft, MapThenFoldSet, IsWarming

LEMMA RootsUnfold ==
  ASSUME NEW c
  PROVE  Roots(c) = (CHOOSE g : IsRooting(Ds4[c], g))[DOMAIN Ds4[c]]
BY Zenon DEF Roots, FoldLeft, MapThenFoldSet, IsRooting

\* An instance is warmed for one context or two, each once.
LEMMA WarmingsType ==
  ASSUME NEW i \in Instances
  PROVE  Warmings(i) \in Seq(Warm)
<1> DEFINE C == WarmCtxs(i)
           Below(x) == {y \in C : y <= x}
           Rank(x) == Cardinality(Below(x))
<1>1. C \subseteq Ctxs /\ C \subseteq Nat
  BY CtxsAssumption, DefaultCtxAssumption DEF WarmCtxs
<1>2. C \subseteq {i.ctx, DefaultCtx}
  BY DEF WarmCtxs
<1>3. /\ \A x : Cardinality({x}) = 1
      /\ \A x, y : x # y => Cardinality({x, y}) = 2
      /\ Cardinality({}) = 0
  <2>1. ASSUME NEW x, NEW y, x # y PROVE Cardinality({x, y}) = 2
    <3>1. IsFiniteSet({x}) /\ Cardinality({x}) = 1 /\ y \notin {x}
      BY <2>1, FS_Singleton
    <3>2. {x} \cup {y} = {x, y}
      OBVIOUS
    <3> QED BY <3>1, <3>2, FS_AddElement
  <2> QED BY <2>1, FS_Singleton, FS_EmptySet
<1>4. Cardinality(C) \in Nat /\ \A n \in 1 .. Cardinality(C) : \E x \in C : Rank(x) = n
  <2>1. CASE C = {}
    <3> HIDE DEF C, Rank
    <3> QED BY <1>3, <2>1
  <2>2. CASE \E x : C = {x}
    <3>1. PICK x : C = {x}
      BY <2>2
    <3>2. Below(x) = {x}
      BY <1>1, <3>1
    <3> HIDE DEF C, Below
    <3>3. Rank(x) = 1 /\ Cardinality(C) = 1
      BY <1>3, <3>1, <3>2
    <3> HIDE DEF Rank
    <3> QED BY <3>1, <3>3
  <2>3. CASE \E x, y \in C : x < y /\ C = {x, y}
    <3>1. PICK x, y \in C : x < y /\ C = {x, y}
      BY <2>3
    <3>2. Below(x) = {x} /\ Below(y) = {x, y} /\ x # y
      BY <1>1, <3>1
    <3> HIDE DEF C, Below
    <3>3. Cardinality({x}) = 1 /\ Cardinality({x, y}) = 2
      BY <1>3, <3>2
    <3>4. Rank(x) = 1 /\ Rank(y) = 2 /\ Cardinality(C) = 2
      BY <3>1, <3>2, <3>3
    <3> HIDE DEF Rank
    <3> QED BY <3>1, <3>4
  <2>4. C = {} \/ (\E x : C = {x}) \/ (\E x, y \in C : x < y /\ C = {x, y})
    BY <1>1, <1>2
  <2> QED BY <2>1, <2>2, <2>3, <2>4
<1> HIDE DEF Rank
<1>5. \A n \in 1 .. Cardinality(C) : <<i, CHOOSE x \in C : Rank(x) = n>> \in Warm
  <2> SUFFICES ASSUME NEW n \in 1 .. Cardinality(C)
               PROVE  (CHOOSE x \in C : Rank(x) = n) \in Ctxs
    BY DEF Warm
  <2> HIDE DEF C
  <2>1. (CHOOSE x \in C : Rank(x) = n) \in C
    BY <1>4, Zenon
  <2> QED BY <1>1, <2>1
<1>6. Warmings(i) = [n \in 1 .. Cardinality(C) |-> <<i, CHOOSE x \in C : Rank(x) = n>>]
  BY DEF Warmings, Rank
<1> HIDE DEF C
<1> QED BY <1>4, <1>5, <1>6

LEMMA WarmListType ==
  ASSUME NEW c \in Configs
  PROVE  WarmList(c) \in Seq(Warm)
<1> DEFINE s == Ds4[c]
           D == DOMAIN s
           A == Seq(Warm)
           pick == [d \in SUBSET D |-> Max(d)]
           G == [da \in (SUBSET D) \X A |->
                   IF da[1] = {} THEN << >> ELSE da[2] \o Warmings(s[Max(da[1])])]
<1>1. Len(s) \in Nat /\ D = 1 .. Len(s) /\ \A n \in D : s[n] \in Instances
  BY Ds4Assumption
<1>2. IsFiniteSet(D)
  BY <1>1, FS_Interval
<1>3. \A d \in SUBSET D : d # {} => Max(d) \in d
  BY <1>1, MaxIsIn
<1>4. \A d \in SUBSET D : d # {} => pick[d] \in d
  BY <1>3
<1>5. << >> \in A
  OBVIOUS
<1>6. G \in [(SUBSET D) \X A -> A]
  <2>1. ASSUME NEW d \in SUBSET D, NEW a \in A, d # {}
        PROVE  a \o Warmings(s[Max(d)]) \in A
    <3> HIDE DEF G, pick, s
    <3>1. Warmings(s[Max(d)]) \in Seq(Warm)
      BY <1>1, <1>3, <2>1, WarmingsType
    <3> QED BY <3>1
  <2> HIDE DEF D, A, s
  <2>2. \A da \in (SUBSET D) \X A :
          (IF da[1] = {} THEN << >> ELSE da[2] \o Warmings(s[Max(da[1])])) \in A
    BY <1>5, <2>1
  <2> QED BY <2>2
<1>7. PICK g \in Folds(D, A, << >>, G, pick) : TRUE
  <2> HIDE DEF D, A, pick, G, s
  <2> QED BY <1>2, <1>4, <1>5, <1>6, FoldExists
<1>8. IsWarming(s, g)
  <2> HIDE DEF A
  <2>1. \A d \in SUBSET D : d # {} =>
          G[<<d, g[d \ {pick[d]}]>>] = g[d \ {Max(d)}] \o Warmings(s[Max(d)])
    <3> HIDE DEF s
    <3> SUFFICES ASSUME NEW d \in SUBSET D, d # {}
                 PROVE  G[<<d, g[d \ {pick[d]}]>>] = g[d \ {Max(d)}] \o Warmings(s[Max(d)])
      OBVIOUS
    <3>1. d \ {Max(d)} \in SUBSET D /\ g[d \ {Max(d)}] \in A
      BY DEF Folds
    <3> HIDE DEF D
    <3> QED BY <3>1
  <2> HIDE DEF G, pick
  <2>2. /\ g = [d \in SUBSET D |-> g[d]]
        /\ \A d \in SUBSET D :
             g[d] = IF d = {} THEN << >> ELSE g[d \ {Max(d)}] \o Warmings(s[Max(d)])
    BY <2>1 DEF Folds
  <2>3. g = [d \in SUBSET D |-> IF d = {} THEN << >>
                                ELSE g[d \ {Max(d)}] \o Warmings(s[Max(d)])]
    BY <2>2
  <2> QED BY <2>3 DEF IsWarming
<1> DEFINE h == CHOOSE f : IsWarming(s, f)
           P == {d \in SUBSET D : h[d] \in A}
<1>9. IsWarming(s, h)
  BY <1>8
<1>10. WarmList(c) = h[D]
  BY WarmListUnfold DEF s
<1> HIDE DEF h, A
<1>11. \A d \in SUBSET D :
         h[d] = IF d = {} THEN << >> ELSE h[d \ {Max(d)}] \o Warmings(s[Max(d)])
  BY <1>9 DEF IsWarming
<1>12. {} \in P
  BY <1>5, <1>11
<1>13. ASSUME NEW d \in SUBSET D, d # {}, \A x \in d : d \ {x} \in P
       PROVE  d \in P
  <2>1. Max(d) \in d /\ s[Max(d)] \in Instances
    BY <1>1, <1>3, <1>13
  <2>2. h[d \ {Max(d)}] \in Seq(Warm) /\ Warmings(s[Max(d)]) \in Seq(Warm)
    BY <1>13, <2>1, WarmingsType DEF A
  <2>3. h[d] = h[d \ {Max(d)}] \o Warmings(s[Max(d)])
    BY <1>11, <1>13
  <2>4. h[d] \in A
    <3> HIDE DEF D, G, pick
    <3> QED BY <2>2, <2>3 DEF A
  <2> QED BY <2>4
<1> HIDE DEF P, D
<1>14. D \in P
  <2>1. \A d \in SUBSET D : d # {} /\ (\A x \in d : d \ {x} \in P) => d \in P
    BY <1>13
  <2> QED BY <1>2, <1>12, <2>1, SetInduction
<1> QED BY <1>10, <1>14 DEF A, P

\* Every tree of a config's instances is among the roots.
LEMMA RootsCover ==
  ASSUME NEW c \in Configs
  PROVE  Roots(c) \in Seq(Dirs) /\ \A i \in ToSet(Ds4[c]) : i.dir \in ToSet(Roots(c))
<1> DEFINE s == Ds4[c]
           D == DOMAIN s
           A == Seq(Dirs)
           Add(roots, i) == IF i.dir \in ToSet(roots) THEN roots ELSE Append(roots, i.dir)
           pick == [d \in SUBSET D |-> Max(d)]
           G == [da \in (SUBSET D) \X A |->
                   IF da[1] = {} THEN << >> ELSE Add(da[2], s[Max(da[1])])]
<1>1. Len(s) \in Nat /\ D = 1 .. Len(s) /\ \A n \in D : s[n] \in Instances
  BY Ds4Assumption
<1>2. IsFiniteSet(D)
  BY <1>1, FS_Interval
<1>3. \A d \in SUBSET D : d # {} => Max(d) \in d
  BY <1>1, MaxIsIn
<1>4. \A d \in SUBSET D : d # {} => pick[d] \in d
  BY <1>3
<1>5. << >> \in A
  OBVIOUS
<1>6. ASSUME NEW roots \in A, NEW i \in Instances
      PROVE  /\ Add(roots, i) \in A
             /\ ToSet(Add(roots, i)) = ToSet(roots) \cup {i.dir}
  <2>1. CASE i.dir \in ToSet(roots)
    BY <2>1
  <2>2. CASE i.dir \notin ToSet(roots)
    <3>1. i.dir \in Dirs
      BY DEF Dirs
    <3> DEFINE x == i.dir
    <3> HIDE DEF x
    <3>2. Append(roots, x) \in A /\ ToSet(Append(roots, x)) = ToSet(roots) \cup {x}
      BY <3>1, AppendedSet DEF x
    <3> QED BY <2>2, <3>2 DEF x
  <2> QED BY <2>1, <2>2
<1> HIDE DEF Add
<1>7. G \in [(SUBSET D) \X A -> A]
  <2>1. \A d \in SUBSET D, a \in A : d # {} => Add(a, s[Max(d)]) \in A
    BY <1>1, <1>3, <1>6
  <2> HIDE DEF D, A, s
  <2>2. \A da \in (SUBSET D) \X A :
          (IF da[1] = {} THEN << >> ELSE Add(da[2], s[Max(da[1])])) \in A
    BY <1>5, <2>1
  <2> QED BY <2>2
<1>8. PICK g \in Folds(D, A, << >>, G, pick) : TRUE
  <2> HIDE DEF D, A, pick, G, s
  <2> QED BY <1>2, <1>4, <1>5, <1>7, FoldExists
<1>9. IsRooting(s, g)
  <2> HIDE DEF A
  <2>1. \A d \in SUBSET D : d # {} =>
          G[<<d, g[d \ {pick[d]}]>>] = Add(g[d \ {Max(d)}], s[Max(d)])
    <3> HIDE DEF s
    <3> SUFFICES ASSUME NEW d \in SUBSET D, d # {}
                 PROVE  G[<<d, g[d \ {pick[d]}]>>] = Add(g[d \ {Max(d)}], s[Max(d)])
      OBVIOUS
    <3>1. d \ {Max(d)} \in SUBSET D /\ g[d \ {Max(d)}] \in A
      BY DEF Folds
    <3> HIDE DEF D
    <3> QED BY <3>1
  <2> HIDE DEF G, pick
  <2>2. /\ g = [d \in SUBSET D |-> g[d]]
        /\ \A d \in SUBSET D : g[d] = IF d = {} THEN << >> ELSE Add(g[d \ {Max(d)}], s[Max(d)])
    BY <2>1 DEF Folds
  <2>3. g = [d \in SUBSET D |-> IF d = {} THEN << >> ELSE Add(g[d \ {Max(d)}], s[Max(d)])]
    BY <2>2
  <2> QED BY <2>3, Zenon DEF IsRooting, Add
<1> DEFINE h == CHOOSE f : IsRooting(s, f)
           P == {d \in SUBSET D : h[d] \in A /\ \A n \in d : s[n].dir \in ToSet(h[d])}
<1>10. IsRooting(s, h)
  BY <1>9
<1>11. Roots(c) = h[D]
  BY RootsUnfold DEF s
<1> HIDE DEF h, A, G, pick
<1>12. \A d \in SUBSET D : h[d] = IF d = {} THEN << >> ELSE Add(h[d \ {Max(d)}], s[Max(d)])
  BY <1>10, Zenon DEF IsRooting, Add
<1>13. {} \in P
  BY <1>5, <1>12
<1>14. ASSUME NEW d \in SUBSET D, d # {}, \A x \in d : d \ {x} \in P
       PROVE  d \in P
  <2>1. Max(d) \in d /\ s[Max(d)] \in Instances
    BY <1>1, <1>3, <1>14
  <2>2. h[d \ {Max(d)}] \in A /\ \A n \in d \ {Max(d)} : s[n].dir \in ToSet(h[d \ {Max(d)}])
    BY <1>14, <2>1
  <2>3. h[d] = Add(h[d \ {Max(d)}], s[Max(d)])
    BY <1>12, <1>14
  <2>4. h[d] \in A /\ ToSet(h[d]) = ToSet(h[d \ {Max(d)}]) \cup {s[Max(d)].dir}
    BY <1>6, <2>1, <2>2, <2>3
  <2>5. \A n \in d : s[n].dir \in ToSet(h[d])
    <3> HIDE DEF s
    <3> QED BY <2>2, <2>4
  <2> QED BY <2>4, <2>5
<1> HIDE DEF P, D
<1>15. D \in P
  <2>1. \A d \in SUBSET D : d # {} /\ (\A x \in d : d \ {x} \in P) => d \in P
    BY <1>14
  <2> QED BY <1>2, <1>13, <2>1, SetInduction
<1>16. ToSet(s) = {s[n] : n \in D}
  BY DEF ToSet, D
<1> HIDE DEF s
<1>17. h[D] \in A /\ \A i \in ToSet(s) : i.dir \in ToSet(h[D])
  BY <1>15, <1>16 DEF P
<1> QED BY <1>11, <1>17 DEF A, s

----------------------------------------------------------------------------
(* Types *)

Entries == [key : Keys, result : Results]
CallRecords == [pc : Stages, inst : Instances \cup {None}, ctx : Ctxs \cup {0},
                result : Results \cup {None}, victim : Keys \cup {None}]

\* A caller inside estimate() has an instance and a context, and from some point
\* on a footprint.
CallsFilled ==
  \A c \in Callers :
    /\ call[c].pc # "idle" => call[c].inst \in Instances /\ call[c].ctx \in Ctxs
    /\ call[c].pc \in Priced => call[c].result \in Results

\* Threads ask once main() serves; before, the main thread asks for what is next
\* on its list.
InTurn ==
  \A c \in Callers : call[c].pc # "idle" =>
    \/ stage = "up"
    \/ /\ stage = "warm" /\ c = "loop"
       /\ todo # << >> /\ Head(todo) = <<call[c].inst, call[c].ctx>>

\* main() has a config of its installation, and warms instances it lists.
MainFilled ==
  /\ stage # "off" => config \in site
  /\ stage = "warm" => todo \in Seq(Warm)
  /\ InTurn

TypeInv == TypeOK /\ CallsFilled /\ MainFilled

LEMMA MeasuredIsResult ==
  ASSUME NEW i \in Instances, NEW ctx \in Ctxs
  PROVE  /\ i.gguf # None => FromDs4(i, ctx) \in Results
         /\ Fallback(i, ctx) \in Results
         /\ Signature(i, ctx) \in Keys
BY DEF Results, Keys

\* The memo keeps one entry for a key.
LEMMA MemoTyped ==
  ASSUME Ds4Type, CallsFilled, NEW c \in Callers, Drop(c) \/ Put(c)
  PROVE  /\ memo' \in Seq(Entries)
         /\ \A m, n \in DOMAIN memo' : memo'[m].key = memo'[n].key => m = n
<1>1. /\ memo \in Seq(Entries) /\ Len(memo) \in Nat /\ DOMAIN memo = 1 .. Len(memo)
      /\ \A m, n \in DOMAIN memo : memo[m].key = memo[n].key => m = n
  BY DEF Ds4Type, Entries
<1>2. CASE Drop(c)
  <2>1. PICK k \in Memoised(call[c].victim) : memo' = RemoveAt(memo, k)
    BY <1>2 DEF Drop
  <2>2. k \in 1 .. Len(memo)
    BY <1>1 DEF Memoised
  <2>3. /\ memo' \in Seq(Entries) /\ Len(memo') = Len(memo) - 1
        /\ \A j \in 1 .. Len(memo) - 1 :
             memo'[j] = IF j < k THEN memo[j] ELSE memo[j + 1]
    BY <1>1, <2>1, <2>2, RemoveAtFacts
  <2>4. ASSUME NEW m \in DOMAIN memo', NEW n \in DOMAIN memo', memo'[m].key = memo'[n].key
        PROVE  m = n
    <3> DEFINE Old(j) == IF j < k THEN j ELSE j + 1
    <3>1. m \in 1 .. Len(memo) - 1 /\ n \in 1 .. Len(memo) - 1
      BY <1>1, <2>3
    <3>2. Old(m) \in DOMAIN memo /\ Old(n) \in DOMAIN memo
      BY <1>1, <2>2, <3>1
    <3>3. memo'[m] = memo[Old(m)] /\ memo'[n] = memo[Old(n)]
      BY <2>3, <3>1
    <3>4. Old(m) = Old(n)
      <4> HIDE DEF Old
      <4> QED BY <1>1, <2>4, <3>2, <3>3
    <3> QED BY <2>2, <3>1, <3>4
  <2> QED BY <2>3, <2>4
<1>3. CASE Put(c)
  <2> DEFINE entry == [key |-> Signature(call[c].inst, call[c].ctx), result |-> call[c].result]
             there == Memoised(entry.key)
  <2>1. memo' = With(entry)
    BY <1>3 DEF Put
  <2>2. entry \in Entries
    <3>1. call[c].inst \in Instances /\ call[c].ctx \in Ctxs /\ call[c].result \in Results
      BY <1>3 DEF Put, At, CallsFilled, Priced
    <3> QED BY <3>1, MeasuredIsResult DEF Entries
  <2>3. there = {n \in DOMAIN memo : memo[n].key = entry.key}
    BY DEF Memoised
  <2> HIDE DEF entry
  <2>4. CASE there = {}
    <3>1. memo' = Append(memo, entry)
      BY <2>1, <2>4 DEF With
    <3> QED BY <1>1, <2>2, <2>3, <2>4, <3>1
  <2>5. CASE there # {}
    <3>1. PICK k \in there : memo' = [memo EXCEPT ![k] = entry]
      BY <2>1, <2>5 DEF With
    <3>2. k \in DOMAIN memo /\ memo[k].key = entry.key
      BY <2>3
    <3> HIDE DEF there
    <3>3. DOMAIN memo' = DOMAIN memo /\ \A n \in DOMAIN memo : memo'[n].key = memo[n].key
      BY <3>1, <3>2
    <3>4. memo' \in Seq(Entries)
      BY <1>1, <2>2, <3>1, <3>2
    <3> QED BY <1>1, <3>3, <3>4
  <2> QED BY <2>4, <2>5
<1> QED BY <1>2, <1>3

LEMMA Ds4Step ==
  ASSUME Ds4Type, CallsFilled, NEW c \in Callers, NEW i \in Instances, NEW ctx \in Ctxs,
         Ask(c, i, ctx) \/ Inside(c) \/ Return(c)
  PROVE  Ds4Type' /\ CallsFilled'
<1>1. call \in [Callers -> CallRecords]
  BY DEF Ds4Type, CallRecords
<1>2. /\ memo \in Seq(Entries) /\ Len(memo) \in Nat /\ DOMAIN memo = 1 .. Len(memo)
  BY DEF Ds4Type, Entries
<1>3. /\ memo' \in Seq(Entries)
      /\ \A m, n \in DOMAIN memo' : memo'[m].key = memo'[n].key => m = n
  <2>1. CASE Drop(c) \/ Put(c)
    BY <2>1, MemoTyped
  <2>2. CASE ~(Drop(c) \/ Put(c))
    <3>1. memo' = memo
      BY <2>2 DEF Ask, Return, Inside, Measure, FallBack, Refuse, CheckFull, Oldest,
         DropGone, Adopt, SetIds
    <3> QED BY <1>2, <3>1 DEF Ds4Type
  <2> QED BY <2>1, <2>2
<1>4. /\ call' \in [Callers -> CallRecords]
      /\ \A d \in Callers \ {c} : call'[d] = call[d]
      /\ call'[c].pc # "idle" => call'[c].inst \in Instances /\ call'[c].ctx \in Ctxs
      /\ call'[c].pc \in Priced => call'[c].result \in Results
  <2> USE <1>1 DEF CallRecords
  <2>1. CASE Ask(c, i, ctx)
    <3> DEFINE hit == Memoised(Signature(i, ctx))
               n == CHOOSE k \in hit : TRUE
               asked == [Idle EXCEPT !.inst = i, !.ctx = ctx]
               new == IF hit = {} THEN [asked EXCEPT !.pc = "run"]
                      ELSE [asked EXCEPT !.pc = "adopt", !.result = memo[n].result]
    <3>1. call' = [call EXCEPT ![c] = new]
      BY <2>1 DEF Ask
    <3>2. hit # {} => memo[n].result \in Results
      <4>1. hit \subseteq DOMAIN memo
        BY DEF Memoised
      <4>2. hit # {} => n \in DOMAIN memo
        BY <4>1
      <4> HIDE DEF n, hit
      <4>3. hit # {} => memo[n] \in Entries
        BY <1>2, <4>2
      <4> QED BY <4>3 DEF Entries
    <3>3. /\ new \in CallRecords /\ new.inst = i /\ new.ctx = ctx
          /\ new.pc \in Priced => new.result \in Results
      BY <3>2 DEF Idle, Stages, Priced
    <3> HIDE DEF new
    <3> QED BY <3>1, <3>3
  <2>2. CASE Return(c)
    <3>1. call' = [call EXCEPT ![c] = Idle]
      BY <2>2 DEF Return
    <3>2. Idle \in CallRecords /\ Idle.pc = "idle" /\ Idle.pc \notin Priced
      BY DEF Idle, Stages, Priced
    <3> QED BY <3>1, <3>2
  <2>3. CASE Measure(c) \/ FallBack(c)
    <3>1. call[c].inst \in Instances /\ call[c].ctx \in Ctxs
      BY <2>3 DEF Measure, FallBack, At, CallsFilled
    <3>2. PICK e \in Results : call' = [call EXCEPT ![c].pc = "check", ![c].result = e]
      BY <2>3, <3>1, MeasuredIsResult DEF Measure, FallBack, Computed
    <3> QED BY <3>1, <3>2 DEF Stages
  <2>4. CASE Oldest(c)
    <3>1. Head(memo).key \in Keys
      <4>1. memo # << >>
        BY <2>4 DEF Oldest
      <4>2. Head(memo) \in Entries
        BY <1>2, <4>1
      <4> QED BY <4>2 DEF Entries
    <3>2. call' = [call EXCEPT ![c].pc = "drop", ![c].victim = Head(memo).key]
      BY <2>4 DEF Oldest
    <3>3. call[c].inst \in Instances /\ call[c].ctx \in Ctxs /\ call[c].result \in Results
      BY <2>4 DEF Oldest, At, CallsFilled, Priced
    <3> QED BY <3>1, <3>2, <3>3 DEF Stages
  <2>5. CASE Drop(c)
    <3>1. call' = [call EXCEPT ![c].pc = "put", ![c].victim = None]
      BY <2>5 DEF Drop
    <3>2. call[c].inst \in Instances /\ call[c].ctx \in Ctxs /\ call[c].result \in Results
      BY <2>5 DEF Drop, At, CallsFilled, Priced
    <3> QED BY <3>1, <3>2 DEF Stages
  <2>6. CASE CheckFull(c) \/ Put(c) \/ Adopt(c) \/ SetIds(c)
    <3>1. PICK pc \in Stages : call' = [call EXCEPT ![c].pc = pc]
      BY <2>6 DEF CheckFull, Put, Adopt, SetIds, Goto, Stages
    <3>2. call[c].inst \in Instances /\ call[c].ctx \in Ctxs /\ call[c].result \in Results
      BY <2>6 DEF CheckFull, Put, Adopt, SetIds, At, CallsFilled, Priced
    <3> QED BY <3>1, <3>2
  <2>7. CASE Refuse(c) \/ DropGone(c)
    <3>1. call' = [call EXCEPT ![c].pc = "raised"]
      BY <2>7 DEF Refuse, DropGone, Goto
    <3>2. call[c].inst \in Instances /\ call[c].ctx \in Ctxs
      BY <2>7 DEF Refuse, DropGone, At, CallsFilled
    <3> QED BY <3>1, <3>2 DEF Stages, Priced
  <2> QED BY <2>1, <2>2, <2>3, <2>4, <2>5, <2>6, <2>7 DEF Inside
<1>5. /\ adopted' \subseteq Instances
      /\ detected' \in [Instances -> DOMAIN Profiles \cup {None}]
      /\ DOMAIN servedIds' = Instances
  <2>1. CASE Adopt(c)
    <3>1. call[c].inst \in Instances
      BY <2>1 DEF Adopt, At, CallsFilled
    <3> QED BY <2>1, <3>1 DEF Adopt, Ds4Type
  <2>2. CASE SetIds(c)
    BY <2>2 DEF SetIds, Ds4Type
  <2>3. CASE ~Adopt(c) /\ ~SetIds(c)
    <3>1. UNCHANGED <<adopted, detected, servedIds>>
      BY <2>3 DEF Ask, Return, Inside, Measure, FallBack, Refuse, CheckFull, Oldest,
         Drop, DropGone, Put
    <3> QED BY <3>1 DEF Ds4Type
  <2> QED BY <2>1, <2>2, <2>3
<1>6. CallsFilled'
  BY <1>4 DEF CallsFilled
<1> QED BY <1>3, <1>4, <1>5, <1>6 DEF Ds4Type, Entries, CallRecords

\* Inside estimate() a caller stays with what it asked for.
LEMMA InsideKeeps ==
  ASSUME call \in [Callers -> CallRecords], NEW c \in Callers, Inside(c)
  PROVE  /\ call[c].pc # "idle"
         /\ call'[c].inst = call[c].inst /\ call'[c].ctx = call[c].ctx
         /\ \A d \in Callers \ {c} : call'[d] = call[d]
<1> USE DEF CallRecords
<1>1. CASE Measure(c) \/ FallBack(c) \/ Refuse(c) \/ CheckFull(c) \/ Oldest(c)
  BY <1>1 DEF Measure, FallBack, Computed, Refuse, CheckFull, Oldest, Goto, At
<1>2. CASE Drop(c) \/ DropGone(c) \/ Put(c) \/ Adopt(c) \/ SetIds(c)
  BY <1>2 DEF Drop, DropGone, Put, Adopt, SetIds, Goto, At
<1> QED BY <1>1, <1>2 DEF Inside

\* A running process has a config of its installation.
LEMMA ConfigKnown ==
  ASSUME TypeInv, stage # "off" PROVE config \in Configs
BY SitesAssumption DEF TypeInv, TypeOK, MainFilled

\* Only instances of the config are asked for, at contexts there are.
LEMMA TypedKinds ==
  ASSUME TypeInv, [Next]_vars
  PROVE  \/ UNCHANGED ds4Vars
         \/ Ds4Lost
         \/ \E c \in Callers, i \in Instances, ctx \in Ctxs :
              Ask(c, i, ctx) \/ Inside(c) \/ Return(c)
<1>0. ASSUME NEW c \in Callers, Inside(c) \/ Return(c)
      PROVE  \E i \in Instances, ctx \in Ctxs : Inside(c) \/ Return(c)
  <2>1. call[c].pc # "idle"
    BY <1>0 DEF Inside, Measure, FallBack, Refuse, CheckFull, Oldest, Drop, DropGone, Put,
       Adopt, SetIds, Return, At
  <2> QED BY <1>0, <2>1 DEF TypeInv, CallsFilled
<1>1. CASE \/ CacheFails \/ BuildFails \/ WarmRaises \/ Kill
  BY <1>1 DEF CacheFails, BuildFails, WarmRaises, Kill, Off
<1>2. CASE WarmAsk
  <2>1. todo \in Seq(Warm) /\ todo # << >> /\ Ask("loop", Head(todo)[1], Head(todo)[2])
    BY <1>2 DEF WarmAsk, Main, TypeInv, MainFilled
  <2>2. Head(todo) \in Warm
    BY <2>1
  <2>3. Head(todo)[1] \in Instances /\ Head(todo)[2] \in Ctxs
    BY <2>2 DEF Warm
  <2> QED BY <2>1, <2>3, LoopAssumption
<1>3. CASE Warmed
  BY <1>0, <1>3, LoopAssumption DEF Warmed
<1>4. ASSUME NEW c \in Callers, Price(c)
      PROVE  \E i \in Instances, ctx \in Ctxs : Ask(c, i, ctx) \/ Return(c)
  <2>1. stage = "up"
    BY <1>4 DEF Price, Main
  <2>2. Ds4[config] \in Seq(Instances)
    BY <2>1, ConfigKnown, Ds4Assumption
  <2>3. \A i \in ToSet(Ds4[config]) : i \in Instances
    BY <2>2 DEF ToSet
  <2>4. \A i \in Instances, ctx \in Ctxs : EffectiveCtx(i, ctx) \in Ctxs
    BY CtxsAssumption DEF EffectiveCtx
  <2> QED BY <1>0, <1>4, <2>3, <2>4 DEF Price
<1>5. ASSUME NEW c \in Callers, Estimate(c)
      PROVE  \E i \in Instances, ctx \in Ctxs : Inside(c)
  BY <1>0, <1>5 DEF Estimate
<1>6. CASE \/ Start \/ ResolveRefs \/ RecallCache \/ SkipCache \/ ComputeCache
           \/ OpenCache \/ DumpCache \/ BuildTree \/ Built \/ Serve \/ User
           \/ UNCHANGED vars
  BY <1>6 DEF Start, ResolveRefs, RecallCache, SkipCache, ComputeCache, OpenCache,
     DumpCache, BuildTree, Built, Serve, User, vars
<1> QED BY <1>1, <1>2, <1>3, <1>4, <1>5, <1>6 DEF Next

LEMMA FreshTyped == Ds4Fresh => Ds4Type /\ CallsFilled
<1> SUFFICES ASSUME Ds4Fresh PROVE Ds4Type /\ CallsFilled
  OBVIOUS
<1> USE DEF Ds4Fresh
<1>1. Idle \in CallRecords
  BY DEF Idle, CallRecords, Stages
<1>2. memo \in Seq(Entries) /\ DOMAIN memo = {}
  OBVIOUS
<1>3. \A c \in Callers : call[c].pc = "idle"
  BY DEF Idle
<1> QED BY <1>1, <1>2, <1>3 DEF Ds4Type, CallsFilled, Entries, CallRecords, Priced

LEMMA LostIsFresh == Ds4Lost => Ds4Fresh'
BY DEF Ds4Lost, Ds4Fresh

LEMMA LostTyped == Ds4Fresh' => (Ds4Type /\ CallsFilled)'
BY FreshTyped, PTL

LEMMA StepTyped == TypeInv /\ [Next]_vars => TypeInv'
<1> SUFFICES ASSUME TypeInv, [Next]_vars PROVE TypeInv'
  OBVIOUS
<1> USE DEF TypeInv
<1>1. Ds4Type' /\ CallsFilled'
  <2>1. CASE UNCHANGED ds4Vars
    BY <2>1 DEF ds4Vars, TypeOK, Ds4Type, CallsFilled
  <2>2. CASE Ds4Lost
    BY <2>2, LostIsFresh, LostTyped
  <2>3. ASSUME NEW c \in Callers, NEW i \in Instances, NEW ctx \in Ctxs,
               Ask(c, i, ctx) \/ Inside(c) \/ Return(c)
        PROVE  Ds4Type' /\ CallsFilled'
    BY <2>3, Ds4Step DEF TypeOK
  <2> QED BY <2>1, <2>2, <2>3, TypedKinds
<1>2. /\ config' \in Configs \cup {None} /\ site' \in Sites
      /\ stage' \in {"off", "resolve", "recall", "write", "dump", "build", "warm", "up"}
      /\ stage' # "off" => config' \in site'
  <2>1. CASE \/ CacheFails \/ BuildFails \/ WarmRaises \/ Kill
    BY <2>1 DEF CacheFails, BuildFails, WarmRaises, Kill, Off, TypeOK
  <2>2. CASE Start
    BY <2>2, SitesAssumption DEF Start, TypeOK
  <2>3. CASE \/ ResolveRefs \/ RecallCache \/ SkipCache \/ ComputeCache
             \/ OpenCache \/ DumpCache \/ BuildTree \/ Built \/ WarmAsk \/ Warmed \/ Serve
             \/ \E c \in Callers : Price(c)
    BY <2>3 DEF ResolveRefs, RecallCache, SkipCache, ComputeCache,
       OpenCache, DumpCache, BuildTree, Built, WarmAsk, Warmed, Serve, Price, Main, TypeOK,
       MainFilled
  <2>4. CASE (\E c \in Callers : Estimate(c)) \/ User \/ UNCHANGED vars
    BY <2>4 DEF Estimate, User, vars, TypeOK, MainFilled
  <2> QED BY <2>1, <2>2, <2>3, <2>4 DEF Next
<1>3. stage' = "warm" => todo' \in Seq(Warm)
  <2>1. CASE Built
    BY <2>1, ConfigKnown, WarmListType DEF Built, Main
  <2>2. CASE WarmAsk
    BY <2>2 DEF WarmAsk, Main, MainFilled
  <2>3. CASE Warmed
    <3>1. stage = "warm" /\ todo' = Tail(todo) /\ todo \in Seq(Warm) /\ todo # << >>
      BY <2>3, LoopAssumption DEF Warmed, Main, MainFilled, InTurn, At
    <3> QED BY <3>1
  <2>4. CASE (\E c \in Callers : Estimate(c)) \/ User \/ UNCHANGED vars
    BY <2>4 DEF Estimate, User, vars, MainFilled
  <2>5. CASE \/ CacheFails \/ BuildFails \/ WarmRaises \/ Kill
             \/ Start \/ ResolveRefs \/ RecallCache \/ SkipCache \/ ComputeCache
             \/ OpenCache \/ DumpCache \/ BuildTree \/ Serve
             \/ \E c \in Callers : Price(c)
    <3>1. stage' # "warm"
      BY <2>5 DEF CacheFails, BuildFails, WarmRaises, Kill, Off, Start, ResolveRefs,
         RecallCache, SkipCache, ComputeCache, OpenCache, DumpCache, BuildTree, Serve, Price,
         Main
    <3> QED BY <3>1
  <2> QED BY <2>1, <2>2, <2>3, <2>4, <2>5 DEF Next
<1>4. /\ onDisk' \in [Refs -> SUBSET (1 .. Versions)]
      /\ version' \in [Refs -> 1 .. Versions]
      /\ snapshot' \in [Refs -> 0 .. Versions]
  <2> USE VersionsAssumption
  <2>1. NoSnapshots \in [Refs -> 0 .. Versions]
    BY DEF NoSnapshots
  <2>2. CASE \/ CacheFails \/ BuildFails \/ WarmRaises \/ Kill
    BY <2>1, <2>2 DEF CacheFails, BuildFails, WarmRaises, Kill, Off, TypeOK
  <2>3. CASE ResolveRefs
    BY <2>3 DEF ResolveRefs, Resolve, TypeOK
  <2>4. CASE User
    <3>1. PICK r \in Refs : Download(r) \/ Delete(r)
      BY <2>4, SitesAssumption DEF User, TypeOK
    <3>2. CASE Download(r)
      <4>1. version[r] + 1 \in 1 .. Versions
        BY <3>2 DEF Download, TypeOK
      <4>2. version' = [version EXCEPT ![r] = version[r] + 1] /\ version'[r] = version[r] + 1
        BY <3>2 DEF Download, TypeOK
      <4>3. onDisk' = [onDisk EXCEPT ![r] =
                         (IF r \in LocalDirs THEN {} ELSE onDisk[r]) \cup {version[r] + 1}]
        BY <3>2, <4>2 DEF Download
      <4> QED BY <3>2, <4>1, <4>2, <4>3 DEF Download, TypeOK
    <3>3. CASE Delete(r)
      BY <3>3 DEF Delete, TypeOK
    <3> QED BY <3>1, <3>2, <3>3
  <2>5. CASE \/ Start \/ RecallCache \/ SkipCache \/ ComputeCache
             \/ OpenCache \/ DumpCache \/ BuildTree \/ Built \/ WarmAsk \/ Warmed \/ Serve
             \/ (\E c \in Callers : Price(c) \/ Estimate(c)) \/ UNCHANGED vars
    <3>1. UNCHANGED <<onDisk, version, snapshot>>
      BY <2>5 DEF Start, RecallCache, Recall, SkipCache, ComputeCache, Compute, OpenCache,
         OpenFile, DumpCache, DumpFile, BuildTree, Built, WarmAsk, Warmed, Serve, Price,
         Estimate, vars, dflashVars
    <3> QED BY <3>1 DEF TypeOK
  <2> QED BY <2>2, <2>3, <2>4, <2>5 DEF Next
<1>5. DOMAIN files' = Configs /\ cutShort' \subseteq Configs
  <2>1. CASE Kill
    BY <2>1, ConfigKnown DEF Kill, CacheKey, TypeOK
  <2>2. CASE OpenCache \/ DumpCache
    BY <2>2 DEF OpenCache, OpenFile, DumpCache, DumpFile, TypeOK
  <2>3. CASE User
    BY <2>3 DEF User, Download, Delete, TypeOK
  <2>4. CASE \/ Start \/ ResolveRefs \/ RecallCache \/ SkipCache \/ ComputeCache
             \/ CacheFails \/ BuildFails \/ WarmRaises
             \/ BuildTree \/ Built \/ WarmAsk \/ Warmed \/ Serve
             \/ (\E c \in Callers : Price(c) \/ Estimate(c)) \/ UNCHANGED vars
    <3>1. UNCHANGED <<files, cutShort>>
      BY <2>4 DEF Start, ResolveRefs, Resolve, RecallCache, Recall, SkipCache, ComputeCache,
         Compute, CacheFails, BuildFails, WarmRaises, BuildTree, Built, WarmAsk, Warmed,
         Serve, Price, Estimate, vars, dflashVars
    <3> QED BY <3>1 DEF TypeOK
  <2> QED BY <2>1, <2>2, <2>3, <2>4 DEF Next
<1>6. InTurn'
  <2> USE DEF InTurn
  <2>0. call \in [Callers -> CallRecords]
    BY DEF TypeOK, Ds4Type, CallRecords
  <2>1. CASE \/ CacheFails \/ BuildFails \/ WarmRaises \/ Kill
    <3>1. call' = [c \in Callers |-> Idle]
      BY <2>1 DEF CacheFails, BuildFails, WarmRaises, Kill, Off, Ds4Lost
    <3> QED BY <3>1 DEF Idle
  <2>2. CASE WarmAsk
    <3>1. /\ stage = "warm" /\ stage' = "warm" /\ todo \in Seq(Warm) /\ todo # << >>
          /\ todo' = todo
          /\ Ask("loop", Head(todo)[1], Head(todo)[2])
      BY <2>2 DEF WarmAsk, Main, MainFilled
    <3>2. Head(todo) \in Warm
      BY <3>1
    <3> DEFINE i == Head(todo)[1]
               ctx == Head(todo)[2]
    <3>3. Head(todo) = <<i, ctx>>
      BY <3>2 DEF Warm
    <3> HIDE DEF i, ctx
    <3>4. /\ call'["loop"].inst = i /\ call'["loop"].ctx = ctx
          /\ \A d \in Callers \ {"loop"} : call'[d] = call[d]
      BY <2>0, <3>1, LoopAssumption DEF Ask, Idle, i, ctx
    <3> QED BY <3>1, <3>3, <3>4 DEF MainFilled
  <2>3. CASE Warmed
    <3>1. stage = "warm" /\ call' = [call EXCEPT !["loop"] = Idle]
      BY <2>3 DEF Warmed, Main, Return
    <3>2. \A c \in Callers : call'[c].pc = "idle"
      BY <2>0, <3>1, LoopAssumption DEF Idle, MainFilled
    <3> QED BY <3>2
  <2>4. CASE (\E c \in Callers : Price(c)) \/ Serve
    BY <2>4 DEF Price, Serve, Main
  <2>5. ASSUME NEW c \in Callers, Estimate(c) PROVE InTurn'
    <3>1. Inside(c) /\ UNCHANGED <<stage, todo>>
      BY <2>5 DEF Estimate
    <3> QED BY <2>0, <3>1, InsideKeeps DEF MainFilled
  <2>6. CASE User \/ UNCHANGED vars
    BY <2>6 DEF User, vars, ds4Vars, MainFilled
  <2>7. CASE \/ Start \/ ResolveRefs \/ RecallCache \/ SkipCache \/ ComputeCache
             \/ OpenCache \/ DumpCache \/ BuildTree \/ Built
    <3>1. stage \notin {"warm", "up"} /\ call' = call
      BY <2>7 DEF Start, ResolveRefs, RecallCache, SkipCache, ComputeCache, OpenCache,
         DumpCache, BuildTree, Built, Main, ds4Vars
    <3>2. \A c \in Callers : call[c].pc = "idle"
      BY <3>1 DEF MainFilled
    <3> QED BY <3>1, <3>2
  <2> QED BY <2>1, <2>2, <2>3, <2>4, <2>5, <2>6, <2>7 DEF Next
<1> QED BY <1>1, <1>2, <1>3, <1>4, <1>5, <1>6 DEF TypeOK, MainFilled

LEMMA TypedThroughout == Spec => []TypeInv
<1>1. Init => TypeInv
  <2> SUFFICES ASSUME Init PROVE TypeInv
    OBVIOUS
  <2>1. Ds4Type /\ CallsFilled
    BY FreshTyped DEF Init
  <2>2. NoSnapshots \in [Refs -> 0 .. Versions]
    BY VersionsAssumption DEF NoSnapshots
  <2> QED BY <2>1, <2>2, VersionsAssumption
     DEF Init, TypeInv, TypeOK, MainFilled, InTurn, Ds4Fresh, Idle
<1> QED BY <1>1, StepTyped, PTL DEF Spec

\* Every variable keeps its type through starts, kills and restarts, with any
\* number of threads inside estimate() (_cache_put, _adopt_identity,
\* ensure_dflash_cache, main).
THEOREM StartupTypes == Spec => []TypeOK
<1>1. TypeInv => TypeOK
  BY DEF TypeInv
<1> QED BY <1>1, TypedThroughout, PTL

----------------------------------------------------------------------------
(* Names learned *)

\* The GGUF, not the config or the context, decides what ds4 says it is.
IdentityByGguf ==
  \A i, j \in Instances, x, y \in Ctxs :
    i.dir = j.dir /\ i.gguf = j.gguf /\ i.gguf # None =>
      /\ Measured(i, x).family = Measured(j, y).family
      /\ Measured(i, x).aliases = Measured(j, y).aliases

\* What an estimate says of an instance: nothing, when it comes from file sizes,
\* or what ds4 says at every context.
SaysRight(i, e) ==
  /\ e.source = "ds4" => e.family # None
  /\ e.family # None =>
       /\ i.gguf # None
       /\ \A x \in Ctxs : /\ e.family = Measured(i, x).family
                          /\ e.aliases = Measured(i, x).aliases

MemoSaysRight ==
  \A n \in DOMAIN memo : \A i \in Instances, x \in Ctxs :
    memo[n].key = Signature(i, x) => SaysRight(i, memo[n].result)

\* An answer from ds4 has had its instance adopted.
CallsSayRight ==
  \A c \in Callers :
    /\ call[c].pc \in Priced => SaysRight(call[c].inst, call[c].result)
    /\ call[c].pc = "ids" => call[c].result.family # None
    /\ \/ call[c].pc = "ids"
       \/ call[c].pc = "answered" /\ call[c].result.family # None
       => call[c].inst \in adopted

\* ds4's own ids are taken from an estimate of a known family that the profile
\* does not contradict.
Agrees(i, e) == i.profile \in {None, e.family} /\ e.family \in DOMAIN Profiles

\* Ids are ds4's, a family is found with them, and an adopted instance has them
\* unless ds4 and its profile disagree.
TrueIds(i, ids) ==
  ids # << >> =>
    /\ i.gguf # None
    /\ \A x \in Ctxs : /\ Agrees(i, Measured(i, x))
                       /\ ids = Served(Profiles[Measured(i, x).family],
                                       Measured(i, x).aliases)
FoundWith(i, family, ids) == family # None => i.profile = None /\ ids # << >>
HasIds(i, ids) ==
  /\ i.gguf # None
  /\ \A x \in Ctxs : Agrees(i, Measured(i, x)) => ids # << >>

IdsRight ==
  \A i \in Instances :
    /\ TrueIds(i, servedIds[i])
    /\ FoundWith(i, detected[i], servedIds[i])
    /\ i \in adopted /\ ~Naming(i) => HasIds(i, servedIds[i])

NamesInv == MemoSaysRight /\ CallsSayRight /\ IdsRight

\* The estimator's answers say what ds4 says; those from file sizes say nothing.
LEMMA MeasuredSaysRight ==
  ASSUME IdentityByGguf, NEW i \in Instances, NEW ctx \in Ctxs
  PROVE  /\ i.gguf # None => SaysRight(i, FromDs4(i, ctx))
         /\ SaysRight(i, Fallback(i, ctx))
<1>1. SaysRight(i, Fallback(i, ctx))
  BY DEF SaysRight, Fallback
<1>2. ASSUME i.gguf # None PROVE SaysRight(i, FromDs4(i, ctx))
  <2> DEFINE e == Measured(i, ctx)
             f == FromDs4(i, ctx)
  <2>1. /\ {"family", "aliases"} \subseteq DOMAIN e /\ e.family # None
    BY <1>2, MeasuredAssumption
  <2>2. f = e \/ f = [e EXCEPT !.specGraph = DrafterStandIn]
    BY DEF FromDs4, UnknownSpecGraph
  <2>3. \A x \in Ctxs : /\ Measured(i, x).family = Measured(i, ctx).family
                        /\ Measured(i, x).aliases = Measured(i, ctx).aliases
    BY <1>2 DEF IdentityByGguf
  <2> HIDE DEF f
  <2>4. f.family = e.family /\ f.aliases = e.aliases
    <3> HIDE DEF e
    <3> QED BY <2>1, <2>2
  <2>5. SaysRight(i, f)
    BY <1>2, <2>1, <2>3, <2>4 DEF SaysRight
  <2> QED BY <2>5 DEF f
<1> QED BY <1>1, <1>2

\* Instances that share a key share what ds4 says of them.
LEMMA SameKeySaysRight ==
  ASSUME IdentityByGguf, NEW i \in Instances, NEW j \in Instances, NEW x, NEW y, NEW e,
         Signature(i, x) = Signature(j, y), SaysRight(i, e)
  PROVE  SaysRight(j, e)
<1>1. i.dir = j.dir /\ i.gguf = j.gguf
  BY DEF Signature
<1>2. i.gguf # None => \A z \in Ctxs : /\ Measured(i, z).family = Measured(j, z).family
                                        /\ Measured(i, z).aliases = Measured(j, z).aliases
  BY <1>1 DEF IdentityByGguf
<1> QED BY <1>1, <1>2 DEF SaysRight

\* Ids reported by ds4 are some.
LEMMA ServedSome ==
  ASSUME NEW i \in Instances, NEW ctx \in Ctxs, i.gguf # None, NEW p
  PROVE  Served(p, Measured(i, ctx).aliases) # << >>
<1> DEFINE t == Measured(i, ctx).aliases
<1>1. t \in Seq(ToSet(t)) /\ t # << >>
  BY MeasuredAssumption
<1> HIDE DEF t
<1>2. \E more : Served(p, t) = t \o more
  BY <1>1, Zenon DEF Served
<1>3. Served(p, t) # << >>
  BY <1>1, <1>2
<1> QED BY <1>3 DEF t

LEMMA SaidStep ==
  ASSUME IdentityByGguf, Shape, Ds4Type, CallsFilled, MemoSaysRight, CallsSayRight,
         NEW c \in Callers, NEW i \in Instances, NEW ctx \in Ctxs,
         Ask(c, i, ctx) \/ Inside(c) \/ Return(c)
  PROVE  MemoSaysRight' /\ CallsSayRight'
<1>1. call \in [Callers -> CallRecords]
  BY DEF Ds4Type, CallRecords
<1>2. \A d \in Callers \ {c} : call'[d] = call[d]
  BY CallShape
<1>3. adopted \subseteq adopted'
  BY DEF Ask, Inside, Return, Measure, FallBack, Refuse, CheckFull, Oldest, Drop, DropGone,
     Put, Adopt, SetIds
<1>4. MemoSaysRight'
  <2> SUFFICES ASSUME NEW n \in DOMAIN memo', NEW j \in Instances, NEW x \in Ctxs,
                      memo'[n].key = Signature(j, x)
               PROVE  SaysRight(j, memo'[n].result)
    BY DEF MemoSaysRight, Signature, SaysRight
  <2>1. CASE \E o \in DOMAIN memo : memo'[n] = memo[o]
    BY <2>1 DEF MemoSaysRight
  <2>2. CASE /\ Put(c)
             /\ memo'[n] = [key |-> Signature(call[c].inst, call[c].ctx),
                            result |-> call[c].result]
    <3>1. call[c].inst \in Instances /\ SaysRight(call[c].inst, call[c].result)
      BY <2>2 DEF CallsSayRight, CallsFilled, Put, At, Priced
    <3>2. /\ Signature(call[c].inst, call[c].ctx) = Signature(j, x)
          /\ memo'[n].result = call[c].result
      BY <2>2
    <3> QED BY <3>1, <3>2, SameKeySaysRight
  <2> QED BY <2>1, <2>2, MemoShape
<1> DEFINE Says(r, known) ==
             /\ r.pc \in Priced => SaysRight(r.inst, r.result)
             /\ r.pc = "ids" => r.result.family # None
             /\ \/ r.pc = "ids"
                \/ r.pc = "answered" /\ r.result.family # None
                => r.inst \in known
<1>5. Says(call[c], adopted)
  BY DEF CallsSayRight
<1>6. Says(call'[c], adopted')
  <2> USE <1>1 DEF CallRecords
  <2>1. CASE Ask(c, i, ctx)
    <3> DEFINE hit == Memoised(Signature(i, ctx))
               n == CHOOSE k \in hit : TRUE
    <3>1. CASE hit = {}
      <4>1. call'[c].pc = "run"
        BY <2>1, <3>1 DEF Ask, Idle
      <4> QED BY <4>1 DEF Priced
    <3>2. CASE hit # {}
      <4>1. n \in DOMAIN memo /\ memo[n].key = Signature(i, ctx)
        BY <3>2 DEF Memoised
      <4> HIDE DEF n
      <4>2. SaysRight(i, memo[n].result)
        BY <4>1 DEF MemoSaysRight
      <4>3. /\ call'[c].inst = i /\ call'[c].pc = "adopt"
            /\ call'[c].result = memo[n].result
        BY <2>1, <3>2 DEF Ask, Idle, n
      <4> QED BY <4>2, <4>3
    <3> QED BY <3>1, <3>2
  <2>2. CASE Return(c)
    <3>1. call'[c].pc = "idle"
      BY <2>2 DEF Return, Idle
    <3> QED BY <3>1 DEF Priced
  <2>3. CASE Measure(c) \/ FallBack(c)
    <3>0. call[c].inst \in Instances /\ call[c].ctx \in Ctxs
      BY <2>3 DEF Measure, FallBack, At, CallsFilled
    <3>1. PICK e : /\ SaysRight(call[c].inst, e)
                   /\ call' = [call EXCEPT ![c].pc = "check", ![c].result = e]
      BY <2>3, <3>0, MeasuredSaysRight DEF Measure, FallBack, Computed
    <3>2. call'[c].pc = "check" /\ call'[c].inst = call[c].inst /\ call'[c].result = e
      BY <3>1
    <3> QED BY <3>1, <3>2
  <2>4. CASE CheckFull(c) \/ Oldest(c) \/ Drop(c) \/ Put(c)
    <3>1. call[c].pc \in Priced
      BY <2>4 DEF CheckFull, Oldest, Drop, Put, At, Priced
    <3>2. /\ call'[c].inst = call[c].inst /\ call'[c].result = call[c].result
          /\ call'[c].pc \notin {"ids", "answered"}
      BY <2>4 DEF CheckFull, Oldest, Drop, Put, Goto
    <3> QED BY <1>5, <3>1, <3>2
  <2>5. CASE Refuse(c) \/ DropGone(c)
    <3>1. call'[c].pc = "raised"
      BY <2>5 DEF Refuse, DropGone, Goto
    <3> QED BY <3>1 DEF Priced
  <2>6. CASE Adopt(c)
    <3>1. call[c].pc \in Priced
      BY <2>6 DEF Adopt, At, Priced
    <3>2. call'[c].inst = call[c].inst /\ call'[c].result = call[c].result
      BY <2>6 DEF Adopt, Goto
    <3>3. CASE Adopts(call[c].inst, call[c].result)
      <4>1. /\ call'[c].pc = "ids" /\ call[c].inst \in adopted'
            /\ call[c].result.family # None
        BY <2>6, <3>3 DEF Adopt, Goto, Adopts
      <4> QED BY <1>5, <3>1, <3>2, <4>1
    <3>4. CASE ~Adopts(call[c].inst, call[c].result)
      <4>1. /\ call'[c].pc = "answered" /\ adopted' = adopted
            /\ call[c].inst \in adopted \/ call[c].result.family = None
        BY <2>6, <3>4 DEF Adopt, Goto, Adopts
      <4> QED BY <1>5, <3>1, <3>2, <4>1
    <3> QED BY <3>3, <3>4
  <2>7. CASE SetIds(c)
    <3>1. call[c].pc = "ids" /\ "ids" \in Priced /\ adopted' = adopted
      BY <2>7 DEF SetIds, At, Priced
    <3>2. /\ call'[c].inst = call[c].inst /\ call'[c].result = call[c].result
          /\ call'[c].pc = "answered"
      BY <2>7 DEF SetIds, Goto
    <3> QED BY <1>5, <3>1, <3>2
  <2> QED BY <2>1, <2>2, <2>3, <2>4, <2>5, <2>6, <2>7 DEF Inside
<1>7. CallsSayRight'
  <2> SUFFICES ASSUME NEW d \in Callers PROVE Says(call'[d], adopted')
    BY DEF CallsSayRight, SaysRight
  <2>1. CASE d = c
    BY <1>6, <2>1
  <2>2. CASE d # c
    <3>1. call'[d] = call[d] /\ Says(call[d], adopted)
      BY <1>2, <2>2 DEF CallsSayRight
    <3> QED BY <1>3, <3>1
  <2> QED BY <2>1, <2>2
<1> QED BY <1>4, <1>7

LEMMA IdsStep ==
  ASSUME IdentityByGguf, Shape, Ds4Type, CallsFilled, CallsSayRight, IdsRight,
         NEW c \in Callers, NEW i \in Instances, NEW ctx \in Ctxs,
         Ask(c, i, ctx) \/ Inside(c) \/ Return(c)
  PROVE  IdsRight'
<1>1. /\ call \in [Callers -> CallRecords]
      /\ DOMAIN servedIds = Instances /\ DOMAIN detected = Instances
  BY DEF Ds4Type, CallRecords
<1>2. \A d \in Callers \ {c} : call'[d] = call[d]
  BY CallShape
<1>3. SUFFICES ASSUME NEW j \in Instances
               PROVE  /\ TrueIds(j, servedIds'[j])
                      /\ FoundWith(j, detected'[j], servedIds'[j])
                      /\ j \in adopted' /\ ~Naming(j)' => HasIds(j, servedIds'[j])
  BY DEF IdsRight
<1>4. /\ TrueIds(j, servedIds[j])
      /\ FoundWith(j, detected[j], servedIds[j])
      /\ j \in adopted /\ ~Naming(j) => HasIds(j, servedIds[j])
  BY DEF IdsRight
<1>5. CASE ~Adopt(c) /\ ~SetIds(c)
  <2>1. UNCHANGED <<adopted, detected, servedIds>>
    BY <1>5 DEF Ask, Inside, Return, Measure, FallBack, Refuse, CheckFull, Oldest, Drop,
       DropGone, Put
  <2>2. call[c].pc # "ids" /\ call'[c].pc # "ids"
    <3> USE <1>1 DEF CallRecords
    <3>1. CASE Return(c)
      BY <3>1 DEF Return, Idle
    <3>4. CASE Ask(c, i, ctx)
      <4> DEFINE r == memo[CHOOSE n \in Memoised(Signature(i, ctx)) : TRUE].result
      <4> HIDE DEF r
      <4>1. call[c].pc = "idle" /\ call'[c].pc \in {"run", "adopt"}
        BY <3>4 DEF Ask, Idle, At, r
      <4> QED BY <4>1
    <3>2. CASE Measure(c) \/ FallBack(c) \/ Refuse(c) \/ CheckFull(c) \/ Oldest(c)
      BY <3>2 DEF Measure, FallBack, Computed, Refuse, CheckFull, Oldest, Goto, At
    <3>3. CASE Drop(c) \/ DropGone(c) \/ Put(c)
      BY <3>3 DEF Drop, DropGone, Put, Goto, At
    <3> QED BY <1>5, <3>1, <3>2, <3>3, <3>4 DEF Inside
  <2>3. Naming(j)' <=> Naming(j)
    BY <1>2, <2>2 DEF Naming, At
  <2> QED BY <1>4, <2>1, <2>3
<1>6. CASE Adopt(c)
  <2>1. UNCHANGED <<detected, servedIds>> /\ call[c].pc = "adopt"
    BY <1>6 DEF Adopt, At
  <2>2. CASE j \in adopted
    <3>1. Naming(j) => Naming(j)'
      BY <1>2, <2>1 DEF Naming, At
    <3> QED BY <1>4, <2>1, <2>2, <3>1
  <2>3. CASE j \notin adopted
    <3>1. j \in adopted' => j = call[c].inst /\ call' = [call EXCEPT ![c].pc = "ids"]
      BY <1>6, <2>3 DEF Adopt, Goto
    <3>2. j \in adopted' => call'[c].pc = "ids" /\ call'[c].inst = j
      BY <1>1, <3>1 DEF CallRecords
    <3>3. j \in adopted' => Naming(j)'
      BY <3>2 DEF Naming, At
    <3> QED BY <1>4, <2>1, <2>3, <3>3
  <2> QED BY <2>2, <2>3
<1>7. CASE SetIds(c)
  <2> DEFINE e == call[c].result
  <2>1. call[c].pc = "ids" /\ adopted' = adopted
    BY <1>7 DEF SetIds, At
  <2>2. CASE j # call[c].inst
    <3>1. servedIds'[j] = servedIds[j] /\ detected'[j] = detected[j]
      BY <1>1, <1>7, <2>2 DEF SetIds
    <3>2. Naming(j) => Naming(j)'
      BY <1>2, <2>2 DEF Naming, At
    <3> QED BY <1>4, <2>1, <3>1, <3>2
  <2>3. CASE j = call[c].inst
    <3>1. SaysRight(j, e) /\ e.family # None /\ call[c].ctx \in Ctxs
      BY <2>1, <2>3 DEF CallsSayRight, CallsFilled, Priced
    <3>2. /\ j.gguf # None
          /\ \A x \in Ctxs : /\ e.family = Measured(j, x).family
                             /\ e.aliases = Measured(j, x).aliases
      BY <3>1 DEF SaysRight
    <3> HIDE DEF e
    <3>3. CASE Agrees(j, e)
      <4>1. /\ servedIds'[j] = Served(Profiles[e.family], e.aliases)
            /\ detected'[j] = IF j.profile = None THEN e.family ELSE detected[j]
        BY <1>1, <1>7, <2>3, <3>3 DEF SetIds, Agrees, e
      <4>2. servedIds'[j] # << >>
        BY <3>1, <3>2, <4>1, ServedSome
      <4>3. TrueIds(j, servedIds'[j])
        BY <3>2, <3>3, <4>1 DEF TrueIds, Agrees
      <4>4. FoundWith(j, detected'[j], servedIds'[j])
        BY <1>4, <4>1, <4>2 DEF FoundWith
      <4>5. HasIds(j, servedIds'[j])
        BY <3>2, <4>2 DEF HasIds
      <4> QED BY <4>3, <4>4, <4>5
    <3>4. CASE ~Agrees(j, e)
      <4>1. servedIds'[j] = servedIds[j] /\ detected'[j] = detected[j]
        BY <1>7, <2>3, <3>4 DEF SetIds, Agrees, e
      <4>2. HasIds(j, servedIds[j])
        BY <3>2, <3>4 DEF HasIds, Agrees
      <4> QED BY <1>4, <4>1, <4>2
    <3> QED BY <3>3, <3>4
  <2> QED BY <2>2, <2>3
<1> QED BY <1>5, <1>6, <1>7

LEMMA FreshNamed == Ds4Fresh => NamesInv
<1> SUFFICES ASSUME Ds4Fresh PROVE NamesInv
  OBVIOUS
<1> USE DEF Ds4Fresh
<1>1. MemoSaysRight
  BY DEF MemoSaysRight
<1>2. CallsSayRight
  BY DEF CallsSayRight, Idle, Priced
<1>3. IdsRight
  BY DEF IdsRight, TrueIds, FoundWith
<1> QED BY <1>1, <1>2, <1>3 DEF NamesInv

LEMMA LostNamed == Ds4Fresh' => NamesInv'
BY FreshNamed, PTL

LEMMA NamesKept ==
  ASSUME IdentityByGguf PROVE Spec => []NamesInv
<1>1. Init => NamesInv
  BY FreshNamed DEF Init
<1>2. IInv /\ TypeInv /\ NamesInv /\ [Next]_vars => NamesInv'
  <2> SUFFICES ASSUME IInv, TypeInv, NamesInv, [Next]_vars PROVE NamesInv'
    OBVIOUS
  <2>1. CASE UNCHANGED ds4Vars
    <3>1. MemoSaysRight'
      BY <2>1 DEF ds4Vars, NamesInv, MemoSaysRight, Signature, SaysRight
    <3>2. CallsSayRight'
      BY <2>1 DEF ds4Vars, NamesInv, CallsSayRight, SaysRight
    <3>3. IdsRight'
      BY <2>1 DEF ds4Vars, NamesInv, IdsRight, Naming, At
    <3> QED BY <3>1, <3>2, <3>3 DEF NamesInv
  <2>2. CASE Ds4Lost
    BY <2>2, LostIsFresh, LostNamed
  <2>3. ASSUME NEW c \in Callers, NEW i \in Instances, NEW ctx \in Ctxs,
               Ask(c, i, ctx) \/ Inside(c) \/ Return(c)
        PROVE  NamesInv'
    BY <2>3, SaidStep, IdsStep DEF IInv, TypeInv, TypeOK, NamesInv
  <2> QED BY <2>1, <2>2, <2>3, TypedKinds
<1> QED BY <1>1, <1>2, InvariantThroughout, TypedThroughout, PTL DEF Spec

\* An instance that has been told what its GGUF is answers ds4's ids, unless its
\* profile says otherwise, whichever thread learned it and however often the
\* estimator had failed before (_adopt_identity).
THEOREM InstancesTakeTheirNames ==
  ASSUME IdentityByGguf PROVE Spec => []NamedAfterGguf
<1>1. IInv /\ TypeInv /\ NamesInv => NamedAfterGguf
  <2> SUFFICES ASSUME TypeInv, NamesInv, NEW c \in Callers,
                      At(c, "answered"), call[c].result.source = "ds4",
                      ~Naming(call[c].inst)
               PROVE  Named(call[c].inst, call[c].result)
    BY DEF NamedAfterGguf
  <2> DEFINE i == call[c].inst
             e == call[c].result
  <2>1. /\ i \in Instances /\ call[c].ctx \in Ctxs /\ SaysRight(i, e)
        /\ e.source = "ds4"
    BY DEF At, TypeInv, CallsFilled, NamesInv, CallsSayRight, Priced
  <2>2. e.family # None /\ i \in adopted
    BY <2>1 DEF SaysRight, NamesInv, CallsSayRight, At
  <2>3. \A x \in Ctxs : e.family = Measured(i, x).family /\ e.aliases = Measured(i, x).aliases
    BY <2>1, <2>2 DEF SaysRight
  <2> HIDE DEF i, e
  <2>4. /\ servedIds[i] # << >> => \A x \in Ctxs :
             /\ Agrees(i, Measured(i, x))
             /\ servedIds[i] = Served(Profiles[Measured(i, x).family], Measured(i, x).aliases)
        /\ detected[i] # None => servedIds[i] # << >>
        /\ \A x \in Ctxs : Agrees(i, Measured(i, x)) => servedIds[i] # << >>
    BY <2>1, <2>2 DEF NamesInv, IdsRight, TrueIds, FoundWith, HasIds, i
  <2>5. CASE Agrees(i, e)
    <3>1. servedIds[i] = Served(Profiles[e.family], e.aliases) /\ servedIds[i] # << >>
      BY <2>1, <2>3, <2>4, <2>5 DEF Agrees
    <3> QED BY <2>5, <3>1 DEF Named, ServedIds, Agrees, i, e
  <2>6. CASE ~Agrees(i, e)
    <3>1. servedIds[i] = << >>
      BY <2>1, <2>3, <2>4, <2>6 DEF Agrees
    <3> QED BY <2>6, <3>1 DEF Named, ServedIds, Agrees, i, e
  <2> QED BY <2>5, <2>6
<1> QED BY <1>1, NamesKept, InvariantThroughout, TypedThroughout, PTL

\* The ids an instance answers once ds4 has named it.
KnownIds(i, ctx) ==
  LET e == Measured(i, ctx)
  IN  IF Agrees(i, e) THEN Served(Profiles[e.family], e.aliases)
      ELSE Served(Profiles[IF i.profile # None THEN i.profile ELSE DefaultFamily], << >>)

KnownAs(i, ctx) == {Publish(i.prefix, id) : id \in ToSet(KnownIds(i, ctx))}

\* No two instances of a config publish the same id.
DistinctIds ==
  \A c \in Configs, ctx \in Ctxs : \A m, n \in DOMAIN Ds4[c] :
    m # n => KnownAs(Ds4[c][m], ctx) \cap KnownAs(Ds4[c][n], ctx) = {}

\* Prefixes and ids are made of the same parts.
IdsAreSequences ==
  \E S : \A i \in Instances, ctx \in Ctxs :
    i.prefix \in Seq(S) /\ \A id \in ToSet(KnownIds(i, ctx)) : id \in Seq(S)

LEMMA AdoptedIsKnown ==
  ASSUME NamesInv, NEW i \in Instances, NEW ctx \in Ctxs, i \in adopted, ~Naming(i)
  PROVE  ServedIds(i) = KnownIds(i, ctx)
<1> DEFINE e == Measured(i, ctx)
<1>1. /\ servedIds[i] # << >> =>
           /\ Agrees(i, e)
           /\ servedIds[i] = Served(Profiles[e.family], e.aliases)
      /\ detected[i] # None => servedIds[i] # << >>
      /\ Agrees(i, e) => servedIds[i] # << >>
  BY DEF NamesInv, IdsRight, TrueIds, FoundWith, HasIds
<1> HIDE DEF e
<1>2. CASE Agrees(i, e)
  BY <1>1, <1>2 DEF ServedIds, KnownIds, e
<1>3. CASE ~Agrees(i, e)
  <2>1. servedIds[i] = << >> /\ detected[i] = None
    BY <1>1, <1>3
  <2> QED BY <1>3, <2>1 DEF ServedIds, ServedFamily, KnownIds, e
<1> QED BY <1>2, <1>3

\* Once ds4 has named every instance, a published id is routed to the one
\* instance that publishes it and reaches ds4 as the alias it stands for
\* (lookup_model, upstream_model_id): nothing a second thread does in estimate()
\* leaves an instance with another's ids.
THEOREM IdsReachTheirInstances ==
  ASSUME IdentityByGguf, DistinctIds, IdsAreSequences
  PROVE  Spec => []EachIdReachesItsInstance
<1>1. TypeInv /\ NamesInv => EachIdReachesItsInstance
  <2> SUFFICES ASSUME TypeInv, NamesInv, stage = "up",
                      \A i \in ToSet(Ds4[config]) : i \in adopted /\ ~Naming(i),
                      NEW n \in DOMAIN Ds4[config],
                      NEW id \in ToSet(ServedIds(Ds4[config][n]))
               PROVE  /\ Lookup(Publish(Ds4[config][n].prefix, id)) = n
                      /\ Upstream(Ds4[config][n].prefix,
                                  Publish(Ds4[config][n].prefix, id)) = id
    BY DEF EachIdReachesItsInstance
  <2> DEFINE s == Ds4[config]
             at == Publish(s[n].prefix, id)
  <2>1. config \in Configs
    BY ConfigKnown
  <2>2. /\ s \in Seq(Instances) /\ Len(s) \in Nat /\ DOMAIN s = 1 .. Len(s)
        /\ \A m \in DOMAIN s : s[m] \in Instances /\ s[m] \in ToSet(s)
    BY <2>1, Ds4Assumption DEF ToSet
  <2>3. PICK ctx : ctx \in Ctxs
    BY CtxsAssumption
  <2>4. \A m \in DOMAIN s : ServedIds(s[m]) = KnownIds(s[m], ctx)
    <3> HIDE DEF s
    <3> QED BY <2>2, <2>3, AdoptedIsKnown DEF s
  <2>5. \A m \in DOMAIN s : Published(s[m]) = KnownAs(s[m], ctx)
    BY <2>4 DEF Published, KnownAs
  <2>6. at \in Published(s[n])
    BY DEF Published
  <2>7. \A m \in DOMAIN s : m # n => at \notin Published(s[m])
    <3> HIDE DEF at
    <3> QED BY <2>1, <2>3, <2>5, <2>6 DEF DistinctIds
  <2>8. Lookup(at) = n
    <3> DEFINE First(m) == at \in Published(s[m]) /\ \A o \in 1 .. m - 1 : at \notin Published(s[o])
    <3>1. \A o \in 1 .. n - 1 : o \in DOMAIN s /\ o # n
      BY <2>2
    <3>2. First(n)
      <4> HIDE DEF at, s
      <4> QED BY <2>6, <2>7, <3>1
    <3>3. \A m \in DOMAIN s : First(m) => m = n
      BY <2>7
    <3>4. Lookup(at) = CHOOSE m \in DOMAIN s : First(m)
      BY Zenon DEF Lookup
    <3> HIDE DEF First, s
    <3>5. n \in DOMAIN s
      BY DEF s
    <3> QED BY <3>2, <3>3, <3>4, <3>5
  <2>9. PICK S : s[n].prefix \in Seq(S) /\ id \in Seq(S)
    <3>1. id \in ToSet(KnownIds(s[n], ctx)) /\ s[n] \in Instances
      BY <2>2, <2>4
    <3> HIDE DEF s
    <3> QED BY <2>3, <3>1 DEF IdsAreSequences
  <2>10. Upstream(s[n].prefix, at) = id
    <3> HIDE DEF s
    <3> QED BY <2>9, UpstreamUndoesPublish
  <2> QED BY <2>8, <2>10
<1> QED BY <1>1, NamesKept, TypedThroughout, PTL

----------------------------------------------------------------------------
(* Footprints recalled *)

\* Two instances of a config that share an alias share their models, or the
\* entry of the later would stand for both.
DistinctAliases ==
  \A c \in Configs : \A p, q \in ToSet(Dflash[c]) :
    p.alias = q.alias /\ p.alias # NoAlias => p.model = q.model /\ DraftRef(p) = DraftRef(q)

\* An entry holds the terms of some versions of the two models.
ImpactOf(p, entry, v) ==
  \E vt \in 1 .. v[p.model], vd \in 1 .. v[DraftRef(p)] :
    entry = Impact(Checkpoint(p.model, vt), Checkpoint(DraftRef(p), vd))

EntriesRight(c, entries, v) ==
  \A p \in ToSet(Dflash[c]) : p.alias \in DOMAIN entries =>
    ~DraftRequired(p) /\ ImpactOf(p, entries[p.alias], v)

ResolvedRight(c, snap, v) ==
  \A p \in ToSet(Dflash[c]) :
    /\ ~DraftRequired(p)
    /\ snap[p.model] \in 1 .. v[p.model] /\ snap[DraftRef(p)] \in 1 .. v[DraftRef(p)]

\* What is on disk has been downloaded, a file that is whole holds such entries,
\* and so does the dict once main() has it.
RecallInv ==
  /\ \A r \in Refs : onDisk[r] \subseteq 1 .. version[r]
  /\ \A c \in Configs :
       files[c] \notin {Absent, Torn} => EntriesRight(c, files[c], version)
  /\ stage \notin {"off", "resolve"} => ResolvedRight(config, snapshot, version)
  /\ stage \in {"write", "dump", "build", "warm", "up"} =>
       EntriesRight(config, cache, version)

LEMMA RightLater ==
  ASSUME NEW c \in Configs, NEW v, NEW w,
         \A r \in Refs : v[r] \in Nat /\ w[r] \in Nat /\ v[r] <= w[r]
  PROVE  /\ \A entries : EntriesRight(c, entries, v) => EntriesRight(c, entries, w)
         /\ \A snap : ResolvedRight(c, snap, v) => ResolvedRight(c, snap, w)
<1>1. ASSUME NEW p \in ToSet(Dflash[c]), ~DraftRequired(p)
      PROVE  /\ 1 .. v[p.model] \subseteq 1 .. w[p.model]
             /\ 1 .. v[DraftRef(p)] \subseteq 1 .. w[DraftRef(p)]
  <2>1. p.model \in Refs /\ DraftRef(p) \in Refs
    BY <1>1, DflashAssumption
  <2> QED BY <2>1
<1>2. ASSUME NEW entries, EntriesRight(c, entries, v)
      PROVE  EntriesRight(c, entries, w)
  <2> SUFFICES ASSUME NEW p \in ToSet(Dflash[c]), p.alias \in DOMAIN entries
               PROVE  ~DraftRequired(p) /\ ImpactOf(p, entries[p.alias], w)
    BY DEF EntriesRight
  <2>1. ~DraftRequired(p) /\ ImpactOf(p, entries[p.alias], v)
    BY <1>2 DEF EntriesRight
  <2> QED BY <1>1, <2>1 DEF ImpactOf
<1>3. ASSUME NEW snap, ResolvedRight(c, snap, v)
      PROVE  ResolvedRight(c, snap, w)
  BY <1>1, <1>3 DEF ResolvedRight
<1> QED BY <1>2, <1>3

LEMMA VersionsGrow ==
  ASSUME TypeOK, [Next]_vars
  PROVE  \A r \in Refs : version'[r] \in Nat /\ version[r] \in Nat /\ version[r] <= version'[r]
<1>1. \A r \in Refs : version[r] \in Nat
  BY VersionsAssumption DEF TypeOK
<1>2. CASE User
  BY <1>1, <1>2 DEF User, Download, Delete, TypeOK
<1>3. CASE \/ Start \/ ResolveRefs \/ RecallCache \/ SkipCache \/ ComputeCache
           \/ OpenCache \/ DumpCache \/ CacheFails \/ BuildTree \/ BuildFails \/ Built
           \/ WarmAsk \/ Warmed \/ WarmRaises \/ Serve \/ Kill
           \/ (\E c \in Callers : Price(c) \/ Estimate(c)) \/ UNCHANGED vars
  <2>1. version' = version
    BY <1>3 DEF Start, ResolveRefs, Resolve, RecallCache, Recall, SkipCache, ComputeCache,
       Compute, OpenCache, OpenFile, DumpCache, DumpFile, CacheFails, BuildTree, BuildFails,
       Built, WarmAsk, Warmed, WarmRaises, Serve, Kill, Off, Price, Estimate, vars, dflashVars
  <2> QED BY <1>1, <2>1
<1> QED BY <1>2, <1>3 DEF Next

\* A path main() resolved holds one of the versions there have been.
LEMMA DirIsVersion ==
  ASSUME TypeOK, NEW c \in Configs, NEW p \in ToSet(Dflash[c]),
         ResolvedRight(c, snapshot, version)
  PROVE  ImpactOf(p, Impact(Dir(p.model), Dir(DraftRef(p))), version)
<1>1. /\ p.model \in Refs /\ DraftRef(p) \in Refs
      /\ snapshot[p.model] \in 1 .. version[p.model]
      /\ snapshot[DraftRef(p)] \in 1 .. version[DraftRef(p)]
  BY DflashAssumption DEF ResolvedRight
<1>2. ASSUME NEW r \in Refs, snapshot[r] \in 1 .. version[r]
      PROVE  \E v \in 1 .. version[r] : Dir(r) = Checkpoint(r, v)
  <2>1. version[r] \in 1 .. version[r]
    BY VersionsAssumption DEF TypeOK
  <2>2. Dir(r) = Checkpoint(r, version[r]) \/ Dir(r) = Checkpoint(r, snapshot[r])
    BY DEF Dir
  <2> QED BY <1>2, <2>1, <2>2
<1>3. PICK vt \in 1 .. version[p.model] : Dir(p.model) = Checkpoint(p.model, vt)
  BY <1>1, <1>2
<1>4. PICK vd \in 1 .. version[DraftRef(p)] : Dir(DraftRef(p)) = Checkpoint(DraftRef(p), vd)
  BY <1>1, <1>2
<1> QED BY <1>3, <1>4 DEF ImpactOf

\* Computed entries are those of the instances they are stored for.
LEMMA ComputedRight ==
  ASSUME DistinctAliases, TypeOK, NEW c \in Configs, ResolvedRight(c, snapshot, version),
         Compute(c)
  PROVE  EntriesRight(c, cache', version)
<1> DEFINE s == Dflash[c]
           Latest(a) == CHOOSE n \in DOMAIN s :
                          /\ s[n].alias = a
                          /\ \A o \in DOMAIN s : s[o].alias = a => o <= n
           aliases == {p.alias : p \in ToSet(s)} \ {NoAlias}
           Of(q) == Impact(Dir(q.model), Dir(DraftRef(q)))
<1>1. cache' = [a \in aliases |-> Of(s[Latest(a)])]
  BY Zenon DEF Compute
<1>2. /\ Len(s) \in Nat /\ DOMAIN s = 1 .. Len(s)
      /\ ToSet(s) = {s[n] : n \in DOMAIN s}
  BY DflashAssumption DEF ToSet
<1> HIDE DEF s
<1>3. ASSUME NEW a \in aliases
      PROVE  Latest(a) \in DOMAIN s /\ s[Latest(a)].alias = a
  <2> DEFINE N == {n \in DOMAIN s : s[n].alias = a}
  <2>1. N \in SUBSET (1 .. Len(s)) /\ N # {}
    BY <1>2
  <2>2. Max(N) \in N /\ \A o \in N : o <= Max(N)
    <3> HIDE DEF N
    <3> QED BY <1>2, <2>1, MaxIsIn
  <2>3. \E n \in DOMAIN s : s[n].alias = a /\ \A o \in DOMAIN s : s[o].alias = a => o <= n
    <3>1. Max(N) \in DOMAIN s /\ s[Max(N)].alias = a
      BY <2>2
    <3>2. \A o \in DOMAIN s : s[o].alias = a => o <= Max(N)
      BY <2>2
    <3> QED BY <3>1, <3>2
  <2> QED BY <2>3, Zenon
<1> HIDE DEF Latest
<1> SUFFICES ASSUME NEW p \in ToSet(Dflash[c]), p.alias \in DOMAIN cache'
             PROVE  ~DraftRequired(p) /\ ImpactOf(p, cache'[p.alias], version)
  BY DEF EntriesRight
<1> DEFINE q == s[Latest(p.alias)]
<1>4. p.alias \in aliases /\ p.alias # NoAlias /\ cache'[p.alias] = Of(q)
  BY <1>1
<1>5. q \in ToSet(s) /\ q.alias = p.alias
  BY <1>2, <1>3, <1>4
<1> HIDE DEF q
<1>6. p.model = q.model /\ DraftRef(p) = DraftRef(q)
  BY <1>4, <1>5 DEF DistinctAliases, s
<1>7. ~DraftRequired(p) /\ ImpactOf(p, Of(p), version)
  BY DirIsVersion DEF ResolvedRight
<1> QED BY <1>4, <1>6, <1>7

LEMMA ResolveRight ==
  ASSUME TypeOK, RecallInv, stage = "resolve", config \in Configs, Resolve(config)
  PROVE  ResolvedRight(config, snapshot', version)
<1> SUFFICES ASSUME NEW p \in ToSet(Dflash[config])
             PROVE  /\ ~DraftRequired(p)
                    /\ snapshot'[p.model] \in 1 .. version[p.model]
                    /\ snapshot'[DraftRef(p)] \in 1 .. version[DraftRef(p)]
  BY DEF ResolvedRight
<1>1. ~DraftRequired(p)
  BY DEF Resolve, Unresolved
<1>2. p.model \in Refs /\ DraftRef(p) \in Refs
  BY <1>1, DflashAssumption
<1>3. p.model \in RefsOf(config) /\ DraftRef(p) \in RefsOf(config)
  BY DEF RefsOf
<1>4. snapshot'[p.model] \in onDisk[p.model] /\ snapshot'[DraftRef(p)] \in onDisk[DraftRef(p)]
  BY <1>2, <1>3 DEF Resolve
<1> QED BY <1>1, <1>2, <1>4 DEF RecallInv

LEMMA RecallStep ==
  ASSUME DistinctAliases PROVE TypeInv /\ RecallInv /\ [Next]_vars => RecallInv'
<1> SUFFICES ASSUME TypeInv, RecallInv, [Next]_vars PROVE RecallInv'
  OBVIOUS
<1>0. TypeOK /\ stage \in {"off", "resolve", "recall", "write", "dump", "build", "warm", "up"}
  BY DEF TypeInv, TypeOK
<1>1. \A r \in Refs : version'[r] \in Nat /\ version[r] \in Nat /\ version[r] <= version'[r]
  BY <1>0, VersionsGrow
<1>2. stage # "off" => config \in Configs
  BY ConfigKnown
<1>3. \A r \in Refs : onDisk'[r] \subseteq 1 .. version'[r]
  <2>1. CASE User
    <3>1. PICK r \in Refs : Download(r) \/ Delete(r)
      BY <1>0, <2>1, SitesAssumption DEF User, TypeOK
    <3>2. CASE Delete(r)
      BY <1>0, <3>2 DEF Delete, RecallInv, TypeOK
    <3>3. CASE Download(r)
      <4>1. /\ version' = [version EXCEPT ![r] = version[r] + 1]
            /\ onDisk' = [onDisk EXCEPT ![r] =
                            (IF r \in LocalDirs THEN {} ELSE onDisk[r]) \cup {version'[r]}]
        BY <3>3 DEF Download
      <4>2. /\ version'[r] = version[r] + 1
            /\ onDisk'[r] \subseteq onDisk[r] \cup {version'[r]}
            /\ \A q \in Refs \ {r} : onDisk'[q] = onDisk[q] /\ version'[q] = version[q]
        BY <1>0, <4>1 DEF TypeOK
      <4>3. onDisk[r] \subseteq 1 .. version[r] /\ version[r] \in Nat \ {0}
        BY <1>0, VersionsAssumption DEF RecallInv, TypeOK
      <4>4. onDisk'[r] \subseteq 1 .. version'[r]
        BY <4>2, <4>3
      <4> QED BY <4>2, <4>4 DEF RecallInv
    <3> QED BY <3>1, <3>2, <3>3
  <2>2. CASE \/ Start \/ ResolveRefs \/ RecallCache \/ SkipCache \/ ComputeCache
             \/ OpenCache \/ DumpCache \/ CacheFails \/ BuildTree \/ BuildFails \/ Built
             \/ WarmAsk \/ Warmed \/ WarmRaises \/ Serve \/ Kill
             \/ (\E c \in Callers : Price(c) \/ Estimate(c)) \/ UNCHANGED vars
    <3>1. version' = version /\ onDisk' = onDisk
      BY <2>2 DEF Start, ResolveRefs, Resolve, RecallCache, Recall, SkipCache, ComputeCache,
         Compute, OpenCache, OpenFile, DumpCache, DumpFile, CacheFails, BuildTree, BuildFails,
         Built, WarmAsk, Warmed, WarmRaises, Serve, Kill, Off, Price, Estimate, vars, dflashVars
    <3> QED BY <3>1 DEF RecallInv
  <2> QED BY <2>1, <2>2 DEF Next
<1>4. \A c \in Configs :
        files'[c] \notin {Absent, Torn} => EntriesRight(c, files'[c], version')
  <2> SUFFICES ASSUME NEW c \in Configs, files'[c] \notin {Absent, Torn}
               PROVE  EntriesRight(c, files'[c], version)
    BY <1>1, RightLater
  <2>1. CASE OpenCache
    BY <1>0, <2>1 DEF OpenCache, OpenFile, CacheKey, RecallInv, TypeOK
  <2>2. CASE DumpCache
    <3>1. stage = "dump" /\ files' = [files EXCEPT ![config] = cache]
      BY <2>2 DEF DumpCache, Main, DumpFile, CacheKey
    <3>2. EntriesRight(config, cache, version)
      BY <3>1 DEF RecallInv
    <3> QED BY <1>0, <3>1, <3>2 DEF RecallInv, TypeOK
  <2>3. CASE \/ Start \/ ResolveRefs \/ RecallCache \/ SkipCache \/ ComputeCache
             \/ CacheFails \/ BuildTree \/ BuildFails \/ Built
             \/ WarmAsk \/ Warmed \/ WarmRaises \/ Serve \/ Kill \/ User
             \/ (\E d \in Callers : Price(d) \/ Estimate(d)) \/ UNCHANGED vars
    <3>1. files' = files
      BY <2>3 DEF Start, ResolveRefs, Resolve, RecallCache, Recall, SkipCache, ComputeCache,
         Compute, CacheFails, BuildTree, BuildFails, Built, WarmAsk, Warmed, WarmRaises, Serve,
         Kill, User, Download, Delete, Price, Estimate, vars, dflashVars
    <3> QED BY <3>1 DEF RecallInv
  <2> QED BY <2>1, <2>2, <2>3 DEF Next
<1> DEFINE Kept == UNCHANGED <<config, snapshot>>
           HasDict == {"write", "dump", "build", "warm", "up"}
<1>5. /\ stage' \notin {"off", "resolve"} => ResolvedRight(config', snapshot', version')
      /\ stage' \in HasDict => EntriesRight(config', cache', version')
  <2>1. CASE CacheFails \/ BuildFails \/ WarmRaises \/ Kill \/ Start
    <3>1. stage' \in {"off", "resolve"}
      BY <2>1 DEF CacheFails, BuildFails, WarmRaises, Kill, Off, Start
    <3> QED BY <3>1
  <2>2. CASE ResolveRefs
    <3>1. stage = "resolve" /\ stage' = "recall" /\ config' = config /\ Resolve(config)
      BY <2>2 DEF ResolveRefs, Main
    <3>2. ResolvedRight(config, snapshot', version)
      BY <1>0, <1>2, <3>1, ResolveRight
    <3> QED BY <1>1, <1>2, <3>1, <3>2, RightLater
  <2>3. ASSUME stage \notin {"off", "resolve"}, Kept
        PROVE  ResolvedRight(config', snapshot', version')
    BY <1>1, <1>2, <2>3, RightLater DEF RecallInv
  <2>4. ASSUME stage \in HasDict, Kept, cache' = cache
        PROVE  EntriesRight(config', cache', version')
    BY <1>1, <1>2, <2>4, RightLater DEF RecallInv
  <2>5. CASE RecallCache \/ SkipCache \/ ComputeCache
    <3>1. stage = "recall" /\ Kept
      BY <2>5 DEF RecallCache, Recall, SkipCache, ComputeCache, Compute, Main, dflashVars
    <3>2. EntriesRight(config, cache', version)
      <4>1. CASE RecallCache
        BY <1>2, <3>1, <4>1 DEF RecallCache, Recall, Stored, CacheKey, RecallInv
      <4>2. CASE SkipCache
        BY <4>2 DEF SkipCache, EntriesRight, ToSet
      <4>3. CASE ComputeCache
        BY <1>0, <1>2, <3>1, <4>3, ComputedRight DEF ComputeCache, RecallInv
      <4> QED BY <2>5, <4>1, <4>2, <4>3
    <3> QED BY <1>1, <1>2, <2>3, <3>1, <3>2, RightLater
  <2>6. CASE \/ OpenCache \/ DumpCache \/ BuildTree \/ Built \/ WarmAsk \/ Warmed \/ Serve
             \/ (\E c \in Callers : Price(c))
    <3>1. stage \in HasDict /\ Kept /\ cache' = cache
      BY <2>6 DEF OpenCache, OpenFile, DumpCache, DumpFile, BuildTree, Built, WarmAsk, Warmed,
         Serve, Price, Main, dflashVars
    <3> QED BY <2>3, <2>4, <3>1
  <2>7. CASE (\E c \in Callers : Estimate(c)) \/ User \/ UNCHANGED vars
    <3>1. stage' = stage /\ Kept /\ cache' = cache
      BY <2>7 DEF Estimate, User, Download, Delete, vars, dflashVars
    <3> QED BY <2>3, <2>4, <3>1
  <2> QED BY <2>1, <2>2, <2>5, <2>6, <2>7 DEF Next
<1> QED BY <1>3, <1>4, <1>5 DEF RecallInv

\* Recalled, computed at startup or computed on the spot, a dflash footprint is
\* the whole projection of the instance's own target and drafter, each at a
\* version that has been on disk, whatever was downloaded or edited meanwhile
\* (ensure_dflash_cache, _projected_from_cache).
THEOREM FootprintsAreTheirOwn ==
  ASSUME DistinctAliases PROVE Spec => []RecallAgrees
<1>1. Init => RecallInv
  <2> SUFFICES ASSUME Init PROVE RecallInv
    OBVIOUS
  <2>1. \A r \in Refs : onDisk[r] = {1} /\ version[r] = 1
    BY DEF Init
  <2>2. \A c \in Configs : files[c] = Absent
    BY DEF Init
  <2> QED BY <2>1, <2>2 DEF Init, RecallInv
<1>2. TypeInv /\ RecallInv => RecallAgrees
  <2> SUFFICES ASSUME TypeInv, RecallInv, stage = "up",
                      NEW p \in ToSet(Dflash[config]), NEW ctx \in Ctxs
               PROVE  \E vt \in 1 .. version[p.model], vd \in 1 .. version[DraftRef(p)] :
                        LET target == Checkpoint(p.model, vt)
                            draft  == Checkpoint(DraftRef(p), vd)
                        IN  Memory(p, ctx) =
                              Projected(Dir(p.model).config, draft.config, ctx,
                                        StructureBytes(target.shards),
                                        DraftWeightBytes(draft))
    BY DEF RecallAgrees
  <2> DEFINE entry == IF p.alias \in DOMAIN cache THEN cache[p.alias]
                      ELSE Impact(Dir(p.model), Dir(DraftRef(p)))
  <2>1. config \in Configs /\ TypeOK
    BY ConfigKnown DEF TypeInv
  <2>2. ImpactOf(p, entry, version)
    <3>1. ImpactOf(p, Impact(Dir(p.model), Dir(DraftRef(p))), version)
      BY <2>1, DirIsVersion DEF RecallInv
    <3>2. p.alias \in DOMAIN cache => ImpactOf(p, cache[p.alias], version)
      BY DEF RecallInv, EntriesRight
    <3> QED BY <3>1, <3>2
  <2>3. PICK vt \in 1 .. version[p.model], vd \in 1 .. version[DraftRef(p)] :
          entry = Impact(Checkpoint(p.model, vt), Checkpoint(DraftRef(p), vd))
    BY <2>2 DEF ImpactOf
  <2>4. Memory(p, ctx) = FromCache(entry, Dir(p.model), ctx)
    BY DEF Memory
  <2> HIDE DEF entry
  <2>5. FromCache(Impact(Checkpoint(p.model, vt), Checkpoint(DraftRef(p), vd)),
                  Dir(p.model), ctx) =
          Projected(Dir(p.model).config, Checkpoint(DraftRef(p), vd).config, ctx,
                    StructureBytes(Checkpoint(p.model, vt).shards),
                    DraftWeightBytes(Checkpoint(DraftRef(p), vd)))
    BY DEF FromCache, Impact, Projected
  <2> QED BY <2>3, <2>4, <2>5
<1> QED BY <1>1, <1>2, RecallStep, TypedThroughout, PTL DEF Spec

----------------------------------------------------------------------------
(* Nothing served unpriced *)

Linked(tree) == tree \in {"gpu", "cpu"}

WarmKeys(c) == {Signature(w[1], w[2]) : w \in ToSet(WarmList(c))}

\* The main thread's own key is memoised when it has the footprint, not before,
\* and it always finds room for it.
OwnMemoised ==
  LET main == call["loop"]
      own  == Memoised(Signature(main.inst, main.ctx))
  IN  /\ main.pc \notin {"oldest", "drop"}
      /\ main.pc \in {"run", "check", "put"} => own = {}
      /\ main.pc \in {"adopt", "ids", "answered"} => own # {}

\* What is no longer on the list is memoised, and nothing that never was.
WarmedSoFar ==
  /\ \A n \in DOMAIN memo : memo[n].key \in WarmKeys(config)
  /\ ToSet(todo) \subseteq ToSet(WarmList(config))
  /\ \A w \in ToSet(WarmList(config)) :
       w \in ToSet(todo) \/ Memoised(Signature(w[1], w[2])) # {}
  /\ OwnMemoised

PriceInv ==
  /\ stage \notin {"warm", "up"} => memo = << >>
  /\ stage = "build" =>
       /\ todo \in Seq(Dirs)
       /\ \A d \in ToSet(Roots(config)) : d \in ToSet(todo) \/ Linked(Tree[d])
  /\ stage = "warm" =>
       /\ \A i \in ToSet(Ds4[config]) : Linked(Tree[i.dir])
       /\ Cardinality(WarmKeys(config)) <= Limit => WarmedSoFar

LEMMA WarmKeysFinite ==
  ASSUME NEW c \in Configs
  PROVE  IsFiniteSet(WarmKeys(c)) /\ Cardinality(WarmKeys(c)) \in Nat
<1> DEFINE s == WarmList(c)
           f == [n \in 1 .. Len(s) |-> Signature(s[n][1], s[n][2])]
<1>1. Len(s) \in Nat /\ DOMAIN s = 1 .. Len(s) /\ ToSet(s) = {s[n] : n \in 1 .. Len(s)}
  BY WarmListType DEF ToSet
<1> HIDE DEF s
<1>2. WarmKeys(c) = {f[n] : n \in 1 .. Len(s)}
  BY <1>1 DEF WarmKeys, s
<1>3. f \in Surjection(1 .. Len(s), WarmKeys(c))
  <2> HIDE DEF f
  <2>1. f = [n \in 1 .. Len(s) |-> f[n]]
    BY DEF f
  <2> QED BY <1>2, <2>1 DEF Surjection
<1>4. IsFiniteSet(1 .. Len(s))
  BY <1>1, FS_Interval
<1>5. IsFiniteSet(WarmKeys(c))
  <2> HIDE DEF f
  <2> QED BY <1>3, <1>4, FS_Surjection
<1> QED BY <1>5, FS_CardinalityType

\* Distinct keys out of few leave room for one that is missing.
LEMMA RoomForMissing ==
  ASSUME Ds4Type, NEW K, IsFiniteSet(K), Cardinality(K) <= Limit,
         \A n \in DOMAIN memo : memo[n].key \in K,
         NEW key \in K, Memoised(key) = {}
  PROVE  ~Full
<1> DEFINE D == 1 .. Len(memo)
           f == [n \in D |-> memo[n].key]
           T == K \ {key}
<1>1. /\ Len(memo) \in Nat /\ DOMAIN memo = D
      /\ \A m, n \in D : memo[m].key = memo[n].key => m = n
  BY DEF Ds4Type
<1>2. \A n \in D : memo[n].key \in T
  BY <1>1 DEF Memoised
<1>3. f \in Injection(D, T)
  <2> HIDE DEF D, T
  <2> QED BY <1>1, <1>2 DEF Injection, IsInjective
<1>4. IsFiniteSet(T) /\ Cardinality(T) = Cardinality(K) - 1 /\ Cardinality(K) \in Nat
  BY FS_RemoveElement, FS_CardinalityType
<1> HIDE DEF f, T
<1>5. Cardinality(D) <= Cardinality(T)
  <2> HIDE DEF D
  <2> QED BY <1>3, <1>4, FS_Injection
<1>6. Cardinality(D) = Len(memo)
  <2> DEFINE m == Len(memo)
  <2> HIDE DEF m
  <2>1. m \in Int /\ m >= 0
    BY <1>1 DEF m
  <2>2. Cardinality(1 .. m) = IF 1 > m THEN 0 ELSE m - 1 + 1
    BY <2>1, FS_Interval
  <2> QED BY <2>1, <2>2 DEF m
<1> HIDE DEF D
<1> QED BY <1>1, <1>4, <1>5, <1>6, LimitAssumption DEF Full

\* Taking the head off a list leaves the rest.
LEMMA RestOf ==
  ASSUME NEW S, NEW s \in Seq(S), s # << >>
  PROVE  /\ Head(s) \in ToSet(s) /\ Tail(s) \in Seq(S)
         /\ ToSet(Tail(s)) \subseteq ToSet(s)
         /\ ToSet(s) \subseteq {Head(s)} \cup ToSet(Tail(s))
<1>1. /\ Len(s) \in Nat \ {0} /\ DOMAIN s = 1 .. Len(s) /\ Head(s) = s[1]
      /\ Tail(s) \in Seq(S) /\ DOMAIN Tail(s) = 1 .. Len(s) - 1
      /\ \A n \in 1 .. Len(s) - 1 : Tail(s)[n] = s[n + 1]
  OBVIOUS
<1>2. ToSet(s) = {s[n] : n \in 1 .. Len(s)}
  BY <1>1 DEF ToSet
<1>3. ToSet(Tail(s)) = {Tail(s)[n] : n \in 1 .. Len(s) - 1}
  BY <1>1 DEF ToSet
<1>4. Head(s) \in ToSet(s)
  BY <1>1, <1>2
<1>5. ToSet(Tail(s)) \subseteq ToSet(s)
  <2> SUFFICES ASSUME NEW n \in 1 .. Len(s) - 1 PROVE Tail(s)[n] \in ToSet(s)
    BY <1>3
  <2>1. n + 1 \in 1 .. Len(s) /\ Tail(s)[n] = s[n + 1]
    BY <1>1
  <2> QED BY <1>2, <2>1
<1>6. ToSet(s) \subseteq {Head(s)} \cup ToSet(Tail(s))
  <2> SUFFICES ASSUME NEW n \in 1 .. Len(s), n # 1 PROVE s[n] \in ToSet(Tail(s))
    BY <1>1, <1>2
  <2>1. n - 1 \in 1 .. Len(s) - 1 /\ Tail(s)[n - 1] = s[n]
    BY <1>1
  <2> QED BY <1>3, <2>1
<1> QED BY <1>1, <1>4, <1>5, <1>6

\* Warming, the main thread never drops a footprint to add another.
LEMMA OwnStep ==
  ASSUME TypeInv, stage = "warm", Cardinality(WarmKeys(config)) <= Limit, WarmedSoFar,
         Inside("loop")
  PROVE  /\ OwnMemoised'
         /\ \A n \in DOMAIN memo' : memo'[n].key \in WarmKeys(config)
         /\ \A key : Memoised(key) # {} => Memoised(key)' # {}
<1> DEFINE main == call["loop"]
           key == Signature(main.inst, main.ctx)
<1>1. /\ call \in [Callers -> CallRecords] /\ "loop" \in Callers
      /\ Ds4Type /\ CallsFilled /\ config \in Configs
  BY LoopAssumption, ConfigKnown DEF TypeInv, TypeOK, Ds4Type, CallRecords
<1>2. /\ main.pc # "idle"
      /\ call'["loop"].inst = main.inst /\ call'["loop"].ctx = main.ctx
  BY <1>1, InsideKeeps
<1>3. key \in WarmKeys(config)
  <2>1. todo \in Seq(Warm) /\ todo # << >> /\ Head(todo) = <<main.inst, main.ctx>>
    BY <1>1, <1>2 DEF TypeInv, MainFilled, InTurn
  <2>2. <<main.inst, main.ctx>> \in ToSet(WarmList(config))
    BY <2>1, RestOf DEF WarmedSoFar
  <2> HIDE DEF main
  <2> QED BY <2>2 DEF WarmKeys
<1>4. /\ main.pc \notin {"oldest", "drop"}
      /\ main.pc \in {"run", "check", "put"} => Memoised(key) = {}
      /\ main.pc \in {"adopt", "ids", "answered"} => Memoised(key) # {}
      /\ \A n \in DOMAIN memo : memo[n].key \in WarmKeys(config)
  BY DEF WarmedSoFar, OwnMemoised
<1>5. CASE Put("loop")
  <2> DEFINE entry == [key |-> key, result |-> main.result]
  <2>1. memo' = With(entry) /\ call' = [call EXCEPT !["loop"].pc = "adopt"]
    BY <1>5 DEF Put, Goto
  <2>2. Memoised(key) = {}
    BY <1>4, <1>5 DEF Put, At
  <2>3. memo' = Append(memo, entry)
    BY <2>1, <2>2 DEF With
  <2> HIDE DEF key, main
  <2>4. /\ memo \in Seq(Entries) /\ DOMAIN memo = 1 .. Len(memo) /\ Len(memo) \in Nat
    BY <1>1 DEF Ds4Type, Entries
  <2> HIDE DEF entry
  <2>5. /\ DOMAIN memo' = 1 .. Len(memo) + 1 /\ memo'[Len(memo) + 1] = entry
        /\ \A n \in 1 .. Len(memo) : memo'[n] = memo[n]
    BY <2>3, <2>4
  <2>6. \A n \in DOMAIN memo' : n \in DOMAIN memo \/ memo'[n] = entry
    BY <2>4, <2>5
  <2>7. entry.key = key
    BY DEF entry
  <2>8. \A n \in DOMAIN memo' : memo'[n].key \in WarmKeys(config)
    BY <1>3, <1>4, <2>4, <2>5, <2>6, <2>7
  <2>9. \A k : Memoised(k) # {} => Memoised(k)' # {}
    <3> SUFFICES ASSUME NEW k, NEW n \in Memoised(k) PROVE Memoised(k)' # {}
      OBVIOUS
    <3>1. n \in DOMAIN memo' /\ memo'[n].key = k
      BY <2>4, <2>5 DEF Memoised
    <3> QED BY <3>1 DEF Memoised
  <2>10. Memoised(key)' # {} /\ key' = key
    <3>1. Len(memo) + 1 \in DOMAIN memo' /\ memo'[Len(memo) + 1].key = key
      BY <2>4, <2>5, <2>7
    <3>2. key' = key
      BY <1>2 DEF key, main, Signature
    <3> QED BY <3>1, <3>2 DEF Memoised
  <2>11. call'["loop"].pc = "adopt"
    BY <1>1, <2>1 DEF CallRecords
  <2>12. OwnMemoised'
    BY <2>10, <2>11 DEF OwnMemoised, key, main
  <2> QED BY <2>8, <2>9, <2>12
<1>6. CASE ~Put("loop")
  <2>1. memo' = memo
    BY <1>4, <1>6 DEF Inside, Measure, FallBack, Refuse, CheckFull, Oldest, Drop, DropGone,
       Adopt, SetIds, At
  <2>2. \A k : Memoised(k)' = Memoised(k)
    BY <2>1 DEF Memoised
  <2>3. key' = key
    BY <1>2 DEF Signature
  <2>4. \/ main.pc = "run" /\ call'["loop"].pc \in {"check", "raised"}
        \/ main.pc = "check" /\ call'["loop"].pc = "put"
        \/ main.pc = "adopt" /\ call'["loop"].pc \in {"ids", "answered"}
        \/ main.pc = "ids" /\ call'["loop"].pc = "answered"
    <3> USE <1>1 DEF CallRecords
    <3>1. CASE Measure("loop") \/ FallBack("loop") \/ Refuse("loop")
      BY <3>1 DEF Measure, FallBack, Computed, Refuse, Goto, At
    <3>2. CASE CheckFull("loop")
      <4>1. main.pc = "check"
        BY <3>2 DEF CheckFull, At
      <4>2. ~Full
        BY <1>3, <1>4, <4>1, WarmKeysFinite, RoomForMissing
      <4> QED BY <3>2, <4>1, <4>2 DEF CheckFull, Goto
    <3>3. CASE Adopt("loop") \/ SetIds("loop")
      BY <3>3 DEF Adopt, SetIds, Goto, At
    <3>4. CASE Oldest("loop") \/ Drop("loop") \/ DropGone("loop")
      BY <1>4, <3>4 DEF Oldest, Drop, DropGone, At
    <3> QED BY <1>6, <3>1, <3>2, <3>3, <3>4 DEF Inside
  <2>5. OwnMemoised'
    <3> DEFINE pc == call'["loop"].pc
    <3>1. /\ pc \notin {"oldest", "drop"}
          /\ pc \in {"run", "check", "put"} => Memoised(key) = {}
          /\ pc \in {"adopt", "ids", "answered"} => Memoised(key) # {}
      <4> HIDE DEF key
      <4> QED BY <1>4, <2>4
    <3>2. Memoised(key)' = Memoised(key)
      <4>1. Memoised(key)' = {n \in DOMAIN memo' : memo'[n].key = key'}
        BY DEF Memoised
      <4> HIDE DEF key
      <4> QED BY <2>1, <2>3, <4>1 DEF Memoised
    <3> QED BY <3>1, <3>2 DEF OwnMemoised
  <2> QED BY <1>4, <2>1, <2>2, <2>5
<1> QED BY <1>5, <1>6

\* Building, a tree leaves the list when its estimator has been linked.
LEMMA BuildStep ==
  ASSUME TypeInv, PriceInv, [Next]_vars
  PROVE  stage' = "build" =>
           /\ todo' \in Seq(Dirs)
           /\ \A d \in ToSet(Roots(config')) : d \in ToSet(todo') \/ Linked(Tree[d])
<1>1. CASE RecallCache \/ SkipCache \/ DumpCache
  <2>1. stage # "off" /\ config' = config /\ todo' = Roots(config)
    BY <1>1 DEF RecallCache, SkipCache, DumpCache, Main
  <2>2. config \in Configs
    BY <2>1, ConfigKnown
  <2> QED BY <2>1, <2>2, RootsCover
<1>2. CASE BuildTree
  <2>1. /\ stage = "build" /\ config' = config /\ todo # << >> /\ todo' = Tail(todo)
        /\ Linked(Tree[Head(todo)])
    BY <1>2 DEF BuildTree, Main, Links, Linked
  <2>2. todo \in Seq(Dirs) /\ \A d \in ToSet(Roots(config)) : d \in ToSet(todo) \/ Linked(Tree[d])
    BY <2>1 DEF PriceInv
  <2>3. Tail(todo) \in Seq(Dirs) /\ ToSet(todo) \subseteq {Head(todo)} \cup ToSet(Tail(todo))
    BY <2>1, <2>2, RestOf
  <2> QED BY <2>1, <2>2, <2>3
<1>3. CASE User \/ UNCHANGED vars
  BY <1>3 DEF User, vars, PriceInv
<1>4. CASE \/ Start \/ ResolveRefs \/ ComputeCache \/ OpenCache \/ CacheFails \/ BuildFails
           \/ Built \/ WarmAsk \/ Warmed \/ WarmRaises \/ Serve \/ Kill
           \/ \E c \in Callers : Price(c) \/ Estimate(c)
  <2>1. stage' # "build"
    BY <1>4 DEF Start, ResolveRefs, ComputeCache, OpenCache, CacheFails, BuildFails, Built,
       WarmAsk, Warmed, WarmRaises, Serve, Kill, Off, Price, Estimate, Main
  <2> QED BY <2>1
<1> QED BY <1>1, <1>2, <1>3, <1>4 DEF Next

\* Warming, an instance leaves the list when its footprint is memoised.
LEMMA WarmStep ==
  ASSUME TypeInv, stage = "warm", Cardinality(WarmKeys(config)) <= Limit, WarmedSoFar,
         WarmAsk \/ Warmed \/ (\E c \in Callers : Estimate(c)) \/ User \/ UNCHANGED vars
  PROVE  WarmedSoFar'
<1> DEFINE main == call["loop"]
           Said(w) == Memoised(Signature(w[1], w[2])) # {}
<1>0. /\ call \in [Callers -> CallRecords] /\ "loop" \in Callers
      /\ todo \in Seq(Warm) /\ config' = config
  <2>1. config' = config
    BY DEF WarmAsk, Warmed, Estimate, User, Main, vars
  <2> QED BY <2>1, LoopAssumption DEF TypeInv, TypeOK, Ds4Type, CallRecords, MainFilled
<1>1. CASE WarmAsk
  <2>1. /\ Ask("loop", Head(todo)[1], Head(todo)[2])
        /\ memo' = memo /\ todo' = todo
    BY <1>1 DEF WarmAsk, Ask
  <2> DEFINE i == Head(todo)[1]
             ctx == Head(todo)[2]
             hit == Memoised(Signature(i, ctx))
             r == memo[CHOOSE n \in hit : TRUE].result
  <2>2. call' = [call EXCEPT !["loop"] =
                   IF hit = {} THEN [Idle EXCEPT !.inst = i, !.ctx = ctx, !.pc = "run"]
                   ELSE [Idle EXCEPT !.inst = i, !.ctx = ctx, !.pc = "adopt", !.result = r]]
    <3> HIDE DEF i, ctx
    <3> QED BY <2>1 DEF Ask, i, ctx, Idle
  <2> HIDE DEF i, ctx, hit, r
  <2>3. /\ call'["loop"].inst = i /\ call'["loop"].ctx = ctx
        /\ call'["loop"].pc = IF hit = {} THEN "run" ELSE "adopt"
    BY <1>0, <2>2 DEF Idle
  <2>4. Memoised(Signature(main.inst, main.ctx))' = hit
    BY <2>1, <2>3 DEF Memoised, hit, Signature
  <2>5. OwnMemoised'
    <3> HIDE DEF main
    <3>1. /\ main' = call'["loop"]
          /\ hit = {} \/ hit # {}
      BY DEF main
    <3> QED BY <2>3, <2>4, <3>1, Zenon DEF OwnMemoised, main
  <2> QED BY <1>0, <2>1, <2>5 DEF WarmedSoFar, Memoised
<1>2. CASE Warmed
  <2>1. /\ main.pc = "answered" /\ todo' = Tail(todo) /\ memo' = memo
        /\ call'["loop"].pc = "idle"
    BY <1>0, <1>2 DEF Warmed, At, Return, Idle
  <2>2. todo # << >> /\ Head(todo) = <<main.inst, main.ctx>>
    BY <1>0, <2>1 DEF TypeInv, MainFilled, InTurn
  <2>3. Said(Head(todo))
    BY <2>1, <2>2 DEF WarmedSoFar, OwnMemoised
  <2>4. /\ ToSet(todo') \subseteq ToSet(todo)
        /\ ToSet(todo) \subseteq {Head(todo)} \cup ToSet(todo')
    BY <1>0, <2>1, <2>2, RestOf
  <2>5. OwnMemoised'
    BY <2>1 DEF OwnMemoised
  <2>6. \A k : Memoised(k)' = Memoised(k)
    BY <2>1 DEF Memoised
  <2>7. \A w \in ToSet(WarmList(config)) : w \in ToSet(todo') \/ Said(w)
    <3> SUFFICES ASSUME NEW w \in ToSet(WarmList(config)), w \in ToSet(todo)
                 PROVE  w \in ToSet(todo') \/ Said(w)
      BY DEF WarmedSoFar
    <3> HIDE DEF Said
    <3> QED BY <2>3, <2>4
  <2> QED BY <1>0, <2>1, <2>4, <2>5, <2>6, <2>7 DEF WarmedSoFar, Memoised
<1>3. ASSUME NEW c \in Callers, Estimate(c) PROVE WarmedSoFar'
  <2>1. Inside(c) /\ todo' = todo
    BY <1>3 DEF Estimate
  <2>2. c = "loop"
    BY <1>0, <2>1, InsideKeeps DEF TypeInv, MainFilled, InTurn
  <2>3. /\ OwnMemoised'
        /\ \A n \in DOMAIN memo' : memo'[n].key \in WarmKeys(config)
        /\ \A k : Memoised(k) # {} => Memoised(k)' # {}
    BY <2>1, <2>2, OwnStep
  <2>4. \A w \in ToSet(WarmList(config)) :
          w \in ToSet(todo') \/ (Memoised(Signature(w[1], w[2])) # {})'
    <3> SUFFICES ASSUME NEW w \in ToSet(WarmList(config)), w \notin ToSet(todo')
                 PROVE  Memoised(Signature(w[1], w[2]))' # {}
      OBVIOUS
    <3>1. Memoised(Signature(w[1], w[2])) # {}
      BY <2>1 DEF WarmedSoFar
    <3> QED BY <2>3, <3>1
  <2> QED BY <1>0, <2>1, <2>3, <2>4 DEF WarmedSoFar
<1>4. CASE User \/ UNCHANGED vars
  <2>1. UNCHANGED <<memo, call, todo, config>>
    BY <1>4 DEF User, vars, ds4Vars
  <2> QED BY <2>1 DEF WarmedSoFar, OwnMemoised, Memoised
<1> QED BY <1>1, <1>2, <1>3, <1>4

LEMMA PriceStep == TypeInv /\ PriceInv /\ [Next]_vars => PriceInv'
<1> SUFFICES ASSUME TypeInv, PriceInv, [Next]_vars PROVE PriceInv'
  OBVIOUS
<1>1. stage' \notin {"warm", "up"} => memo' = << >>
  <2>1. CASE CacheFails \/ BuildFails \/ WarmRaises \/ Kill
    BY <2>1 DEF CacheFails, BuildFails, WarmRaises, Kill, Off, Ds4Lost
  <2>2. CASE \/ Start \/ ResolveRefs \/ RecallCache \/ SkipCache \/ ComputeCache
             \/ OpenCache \/ DumpCache \/ BuildTree
    <3>1. stage \notin {"warm", "up"} /\ memo' = memo
      BY <2>2 DEF Start, ResolveRefs, RecallCache, SkipCache, ComputeCache, OpenCache,
         DumpCache, BuildTree, Main, ds4Vars
    <3> QED BY <3>1 DEF PriceInv
  <2>3. CASE User \/ UNCHANGED vars
    BY <2>3 DEF User, vars, ds4Vars, PriceInv
  <2>4. CASE \/ Built \/ WarmAsk \/ Warmed \/ Serve
             \/ \E c \in Callers : Price(c) \/ Estimate(c)
    BY <2>4 DEF Built, WarmAsk, Warmed, Serve, Price, Estimate, Main
  <2> QED BY <2>1, <2>2, <2>3, <2>4 DEF Next
<1>2. stage' = "warm" =>
        /\ \A i \in ToSet(Ds4[config']) : Linked(Tree[i.dir])
        /\ Cardinality(WarmKeys(config')) <= Limit => WarmedSoFar'
  <2>1. CASE Built
    <3>1. stage = "build" /\ config' = config /\ todo = << >> /\ todo' = WarmList(config)
          /\ memo' = memo /\ call' = call
      BY <2>1 DEF Built, Main, ds4Vars
    <3>2. config \in Configs
      BY <3>1, ConfigKnown
    <3>3. \A d \in ToSet(Roots(config)) : Linked(Tree[d])
      BY <3>1 DEF PriceInv, ToSet
    <3>4. \A i \in ToSet(Ds4[config]) : Linked(Tree[i.dir])
      BY <3>2, <3>3, RootsCover
    <3>5. memo' = << >> /\ call'["loop"].pc = "idle"
      BY <3>1, LoopAssumption DEF PriceInv, TypeInv, MainFilled, InTurn
    <3>6. WarmedSoFar'
      BY <3>1, <3>5 DEF WarmedSoFar, OwnMemoised
    <3> QED BY <3>1, <3>4, <3>6
  <2>2. CASE WarmAsk \/ Warmed \/ (\E c \in Callers : Estimate(c)) \/ User \/ UNCHANGED vars
    <3>1. stage' = "warm" => stage = "warm" /\ config' = config
      BY <2>2 DEF WarmAsk, Warmed, Estimate, User, Main, vars
    <3> QED BY <2>2, <3>1, WarmStep DEF PriceInv
  <2>3. CASE \/ Start \/ ResolveRefs \/ RecallCache \/ SkipCache \/ ComputeCache
             \/ OpenCache \/ DumpCache \/ CacheFails \/ BuildTree \/ BuildFails
             \/ WarmRaises \/ Serve \/ Kill \/ \E c \in Callers : Price(c)
    <3>1. stage' # "warm"
      BY <2>3 DEF Start, ResolveRefs, RecallCache, SkipCache, ComputeCache, OpenCache,
         DumpCache, CacheFails, BuildTree, BuildFails, WarmRaises, Serve, Kill, Off, Price, Main
    <3> QED BY <3>1
  <2> QED BY <2>1, <2>2, <2>3 DEF Next
<1> QED BY <1>1, <1>2, BuildStep DEF PriceInv

\* YAALLB serves only when every ds4 tree of its config has an estimator and
\* every footprint it was to warm is in the memo, if they all fit (main()'s
\* "Both must succeed").
THEOREM PricedBeforeServing == Spec => ServesOnlyPriced
<1> DEFINE Priced1 ==
             stage # "up" /\ stage' = "up" =>
               LET keys == {Signature(w[1], w[2]) : w \in ToSet(WarmList(config))}
               IN  /\ \A i \in ToSet(Ds4[config]) : Tree[i.dir] \in {"gpu", "cpu"}
                   /\ Cardinality(keys) <= Limit => \A key \in keys : Memoised(key) # {}
<1>1. Init => PriceInv
  BY DEF Init, Ds4Fresh, PriceInv
<1>2. TypeInv /\ PriceInv /\ [Next]_vars => [Priced1]_vars
  <2> SUFFICES ASSUME PriceInv, Next, stage # "up", stage' = "up"
               PROVE  /\ \A i \in ToSet(Ds4[config]) : Linked(Tree[i.dir])
                      /\ Cardinality(WarmKeys(config)) <= Limit =>
                           \A key \in WarmKeys(config) : Memoised(key) # {}
    BY DEF Linked, WarmKeys
  <2>1. Serve
    BY DEF Next, Start, ResolveRefs, RecallCache, SkipCache, ComputeCache, OpenCache,
       DumpCache, CacheFails, BuildTree, BuildFails, Built, WarmAsk, Warmed, WarmRaises, Kill,
       Off, Price, Estimate, User, Main
  <2>2. stage = "warm" /\ todo = << >>
    BY <2>1 DEF Serve, Main
  <2>3. ToSet(todo) = {}
    BY <2>2 DEF ToSet
  <2>4. Cardinality(WarmKeys(config)) <= Limit =>
          \A w \in ToSet(WarmList(config)) : Memoised(Signature(w[1], w[2])) # {}
    BY <2>2, <2>3 DEF PriceInv, WarmedSoFar
  <2> QED BY <2>2, <2>4 DEF PriceInv, WarmKeys
<1> QED BY <1>1, <1>2, PriceStep, TypedThroughout, PTL DEF Spec, ServesOnlyPriced
===============================================================================
