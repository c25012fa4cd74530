---------------------------- MODULE NNWorkProofs ----------------------------
(***************************************************************************)
(* Proofs about the receiving side of the all-to-all shuffler (NNWork),    *)
(* for every set of RPCs and every number of pauses.                       *)
(*                                                                         *)
(* WorkInv is inductive.  Most steps only move a thread from one wait to   *)
(* another (Calm); the others are the nine that hand an RPC on, answer it, *)
(* or begin or end bgwait.                                                 *)
(***************************************************************************)
EXTENDS NNWork, SequenceTheorems, TLAPS

\* The elements of a sequence that grows at its end.
LEMMA AppendElements ==
  ASSUME NEW S, NEW s \in Seq(S), NEW e \in S
  PROVE  /\ Append(s, e) \in Seq(S)
         /\ Len(Append(s, e)) = Len(s) + 1
         /\ Range(Append(s, e)) = Range(s) \cup {e}
  <1>1. /\ Append(s, e) \in Seq(S)
        /\ Len(Append(s, e)) = Len(s) + 1
        /\ DOMAIN Append(s, e) = 1 .. Len(s) + 1
        /\ \A i \in 1 .. Len(s) : Append(s, e)[i] = s[i]
        /\ Append(s, e)[Len(s) + 1] = e
        /\ DOMAIN s = 1 .. Len(s) /\ Len(s) \in Nat
    OBVIOUS
  <1>2. Range(Append(s, e)) = Range(s) \cup {e}
    BY <1>1 DEF Range
  <1> QED
    BY <1>1, <1>2

\* An index that is not the last has a successor.
LEMMA OneFurther ==
  ASSUME NEW n \in Nat, NEW i \in 1..n, i # n PROVE i + 1 \in 1..n
  OBVIOUS

\* Nothing is in the range of the empty sequence.
LEMMA EmptyRange == Range(<<>>) = {}
  BY DEF Range

\* What is appended to a sequence without repetition and is not in it leaves
\* it without repetition.
LEMMA AppendDistinct ==
  ASSUME NEW S, NEW s \in Seq(S), NEW e \in S, e \notin Range(s), Distinct(s)
  PROVE  Distinct(Append(s, e))
  <1>1. /\ DOMAIN Append(s, e) = 1 .. Len(s) + 1
        /\ \A i \in 1 .. Len(s) : Append(s, e)[i] = s[i]
        /\ Append(s, e)[Len(s) + 1] = e
        /\ DOMAIN s = 1 .. Len(s) /\ Len(s) \in Nat
    OBVIOUS
  <1>2. \A i \in 1 .. Len(s) : s[i] # e
    BY <1>1 DEF Range
  <1>3. ASSUME NEW a \in 1 .. Len(s) + 1, NEW b \in 1 .. Len(s) + 1,
               Append(s, e)[a] = Append(s, e)[b]
        PROVE  a = b
    <2>1. CASE a \in 1 .. Len(s) /\ b \in 1 .. Len(s)
      BY <1>1, <1>3, <2>1 DEF Distinct
    <2>2. CASE a = Len(s) + 1 \/ b = Len(s) + 1
      BY <1>1, <1>2, <1>3, <2>2
    <2> QED
      BY <1>1, <2>1, <2>2
  <1> QED
    BY <1>1, <1>3 DEF Distinct

-----------------------------------------------------------------------------
\* A step that only moves a thread: nothing is handed on or answered, the
\* worker is not near an RPC, and bgwait does not return.
Calm ==
  /\ UNCHANGED <<wk_items, items_submitted, items_completed, todo, num_items,
                 next, responses, incoming, hot, snap>>
  /\ worker' # worker => /\ worker \notin {"handling", "count", "gone"}
                         /\ worker' # "handling"
  /\ main' = "idle" => main = "idle"

\* Thirteen of the steps are calm.
LEMMA CalmSteps ==
  ASSUME \/ LooperCheck \/ LooperPause \/ LooperExit
         \/ WorkerCheck \/ WorkerLock \/ WorkerWait \/ WorkerPause \/ WorkerExit
         \/ Sleep \/ Wakeup \/ DestroyLockBg \/ DestroySignal \/ DestroyWait
  PROVE  Calm
  <1>1. CASE LooperCheck \/ LooperPause
    BY <1>1 DEF LooperCheck, LooperPause, Calm, bgVars, itemVars, workerVars,
                netVars, callVars
  <1>2. CASE LooperExit
    BY <1>2 DEF LooperExit, NotifyMain, Calm, itemVars, workerVars, netVars, callVars
  <1>3. CASE WorkerCheck \/ WorkerLock \/ WorkerWait \/ WorkerPause
    BY <1>3 DEF WorkerCheck, WorkerLock, WorkerWait, WorkerPause, WorkerLeaves, Calm,
                bgVars, itemVars, looperVars, netVars, callVars
  <1>4. CASE WorkerExit
    BY <1>4 DEF WorkerExit, WorkerGoes, NotifyMain, Calm, itemVars, looperVars,
                netVars, callVars
  <1>5. CASE Sleep \/ DestroyLockBg
    BY <1>5 DEF Sleep, DestroyLockBg, Calm, itemVars, looperVars, workerVars, netVars,
                callVars
  <1>6. CASE Wakeup
    BY <1>6 DEF Wakeup, Calm, itemVars, netVars, callVars
  <1>7. CASE DestroySignal
    BY <1>7 DEF DestroySignal, Calm, itemVars, netVars, callVars
  <1>8. CASE DestroyWait
    BY <1>8 DEF DestroyWait, Calm, itemVars, looperVars, workerVars, netVars, callVars
  <1> QED
    BY <1>1, <1>2, <1>3, <1>4, <1>5, <1>6, <1>7, <1>8

\* The other steps.
Loud ==
  \/ \E r \in Rpcs : Trigger(r) \/ Arrive(r)
  \/ Push \/ LooperHandled \/ WorkerCount \/ WorkerSwap \/ WorkerHandled
  \/ Bgwait \/ BgwaitTest

LEMMA NextSplit == ASSUME Next PROVE Calm \/ Loud
  BY CalmSteps, Zenon DEF Next, Looper, Worker, Returning, Loud

-----------------------------------------------------------------------------
\* The answered RPCs stay answered, and the one just handled is.
LEMMA OneMoreAnswered ==
  ASSUME TypeOK, NEW r \in Rpcs, responses' = [responses EXCEPT ![r] = @ + 1]
  PROVE  Answered' = Answered \cup {r} /\ responses' \in [Rpcs -> Nat]
  <1>1. responses \in [Rpcs -> Nat]
    BY DEF TypeOK, ItemsOK
  <1>2. responses'[r] = responses[r] + 1 /\ responses[r] \in Nat
    BY <1>1
  <1>3. \A x \in Rpcs \ {r} : responses'[x] = responses[x]
    BY <1>1
  <1> QED
    BY <1>1, <1>2, <1>3 DEF Answered

LEMMA AnsweredSame == ASSUME UNCHANGED responses PROVE Answered' = Answered
  BY DEF Answered
-----------------------------------------------------------------------------
\* Every thread stays at a point of its code.
LEMMA PointsStep == ASSUME PointsOK, WorkerCounted, Next PROVE PointsOK'
  <1>1. ASSUME NEW r \in Rpcs, Trigger(r) \/ Arrive(r) PROVE PointsOK'
    <2>1. CASE Trigger(r)
      BY <2>1 DEF Trigger, PointsOK, bgVars, itemVars, workerVars
    <2>2. CASE Arrive(r)
      BY <2>2 DEF Arrive, PointsOK, bgVars, itemVars, looperVars, workerVars
    <2> QED
      BY <1>1, <2>1, <2>2
  <1>2. CASE Push
    BY <1>2 DEF Push, NotifyWk, Signals, PointsOK, bgVars, itemVars, looperVars, workerVars, netVars, callVars
  <1>3. CASE LooperHandled
    BY <1>3 DEF LooperHandled, PointsOK, bgVars, itemVars, looperVars, workerVars, netVars, callVars
  <1>4. CASE WorkerCount
    BY <1>4 DEF WorkerCount, NumReset, PointsOK, bgVars, itemVars, looperVars, workerVars, netVars, callVars
  <1>5. CASE WorkerSwap
    BY <1>5 DEF WorkerSwap, PointsOK, bgVars, itemVars, looperVars, workerVars, netVars, callVars
  <1>6. CASE WorkerHandled
    BY <1>6 DEF WorkerHandled, NextItem, PointsOK, bgVars, itemVars, looperVars, workerVars, netVars, callVars
  <1>7. CASE Bgwait
    BY <1>7 DEF Bgwait, PointsOK, bgVars, itemVars, looperVars, workerVars, netVars, callVars
  <1>8. CASE BgwaitTest
    BY <1>8 DEF BgwaitTest, Pending, PointsOK, bgVars, itemVars, looperVars, workerVars, netVars, callVars
  <1>9. CASE LooperCheck
    BY <1>9 DEF LooperCheck, PointsOK, bgVars, itemVars, looperVars, workerVars, netVars, callVars
  <1>10. CASE LooperPause
    BY <1>10 DEF LooperPause, PointsOK, bgVars, itemVars, looperVars, workerVars, netVars, callVars
  <1>11. CASE LooperExit
    <2>0. num_bg \in Int
      BY DEF PointsOK
    <2>1. num_bg' \in Int
      BY <1>11, <2>0 DEF LooperExit
    <2>2. main' \in {main, "destroy wait"} /\ looper' = "gone"
      BY <1>11 DEF LooperExit, NotifyMain
    <2>3. UNCHANGED <<shutting_down, num_wk, bgm, wkm, worker>>
      BY <1>11 DEF LooperExit, itemVars, workerVars
    <2> QED
      BY <2>1, <2>2, <2>3 DEF PointsOK
  <1>12. CASE WorkerCheck
    BY <1>12 DEF WorkerCheck, WorkerLeaves, PointsOK, bgVars, itemVars, looperVars, workerVars, netVars, callVars
  <1>13. CASE WorkerLock
    BY <1>13 DEF WorkerLock, PointsOK, bgVars, itemVars, looperVars, workerVars, netVars, callVars
  <1>14. CASE WorkerWait
    BY <1>14 DEF WorkerWait, PointsOK, bgVars, itemVars, looperVars, workerVars, netVars, callVars
  <1>15. CASE WorkerPause
    BY <1>15 DEF WorkerPause, PointsOK, bgVars, itemVars, looperVars, workerVars, netVars, callVars
  <1>16. CASE WorkerExit
    <2>1. num_wk' = 0
      BY <1>16 DEF WorkerExit, WorkerGoes, WorkerCounted
    <2>2. main' \in {main, "destroy wait"} /\ worker' = "gone"
      BY <1>16 DEF WorkerExit, WorkerGoes, NotifyMain
    <2>3. UNCHANGED <<shutting_down, num_bg, bgm, wkm, looper>>
      BY <1>16 DEF WorkerExit, WorkerGoes, itemVars, looperVars
    <2> QED
      BY <2>1, <2>2, <2>3 DEF PointsOK
  <1>17. CASE Sleep
    BY <1>17 DEF Sleep, PointsOK, bgVars, itemVars, looperVars, workerVars, netVars, callVars
  <1>18. CASE Wakeup
    BY <1>18 DEF Wakeup, PointsOK, bgVars, itemVars, looperVars, workerVars, netVars, callVars
  <1>19. CASE DestroyLockBg
    BY <1>19 DEF DestroyLockBg, PointsOK, bgVars, itemVars, looperVars, workerVars, netVars, callVars
  <1>20. CASE DestroySignal
    <2>1. /\ main' = "destroy wait"
          /\ worker' \in {worker, "lock", "pause"} /\ looper' \in {looper, "pause"}
      BY <1>20 DEF DestroySignal
    <2>2. UNCHANGED <<num_bg, num_wk, bgm, wkm>>
      BY <1>20 DEF DestroySignal, itemVars
    <2>3. main' \in {"idle", "bgwait", "bgwait asleep", "destroy", "destroy wait",
                    "destroy asleep", "done"}
      BY <2>1
    <2>6. shutting_down' \in Int
      <3>1. shutting_down' = 1
        BY <1>20, Zenon DEF DestroySignal
      <3> QED
        BY <3>1
    <2>4. looper' \in {"loop", "handling", "push", "pause", "asleep", "exit", "gone"}
      BY <2>1 DEF PointsOK
    <2>5. worker' \in {"count", "check", "lock", "test", "asleep", "handling",
                      "pause", "paused", "exit", "gone"}
      BY <2>1 DEF PointsOK
    <2> QED
      BY <2>2, <2>3, <2>4, <2>5, <2>6 DEF PointsOK
  <1>21. CASE DestroyWait
    BY <1>21 DEF DestroyWait, PointsOK, bgVars, itemVars, looperVars, workerVars, netVars, callVars
  <1> QED
    BY <1>1, <1>2, <1>3, <1>4, <1>5, <1>6, <1>7, <1>8, <1>9, <1>10, <1>11, <1>12, <1>13, <1>14, <1>15, <1>16, <1>17, <1>18, <1>19, <1>20, <1>21, Zenon
    DEF Next, Looper, Worker, Returning

\* The queues, the counters and the histories keep their types.
LEMMA ItemsStep == ASSUME WorkInv, Next PROVE ItemsOK'
  <1>0. ItemsOK /\ WorkerCounted /\ ItemsCounted
    BY DEF WorkInv, TypeOK
  <1>t. TypeOK
    BY DEF WorkInv
  <1>1. ASSUME NEW r \in Rpcs, Trigger(r) PROVE ItemsOK'
    BY <1>0, <1>1 DEF Trigger, ItemsOK, itemVars, workerVars, callVars
  <1>2. ASSUME NEW r \in Rpcs, Arrive(r) PROVE ItemsOK'
    <2>1. incoming' \subseteq Rpcs
      BY <1>0, <1>2 DEF Arrive, ItemsOK
    <2>2. UNCHANGED <<wk_items, todo, hot, items_submitted, items_completed, num_items,
                      next, responses, pauses, snap, testin>>
      BY <1>2 DEF Arrive, itemVars, looperVars, workerVars, callVars
    <2> QED
      BY <1>0, <2>1, <2>2 DEF ItemsOK
  <1>3. CASE Push
    <2>1. hot \in Rpcs
      BY <1>0, <1>3 DEF Push, WorkerCounted
    <2>2. wk_items' \in Seq(Rpcs)
      BY <1>0, <1>3, <2>1, AppendElements DEF Push, ItemsOK
    <2>3. items_submitted' \in Nat
      BY <1>0, <1>3 DEF Push, ItemsOK
    <2>4. /\ hot' = None
          /\ UNCHANGED <<todo, items_completed, num_items, next, incoming, responses,
                         pauses, snap, testin>>
      BY <1>3 DEF Push, netVars, callVars
    <2> QED
      BY <1>0, <2>2, <2>3, <2>4 DEF ItemsOK
  <1>4. CASE LooperHandled
    <2>1. responses' \in [Rpcs -> Nat]
      BY <1>0, <1>t, <1>4, OneMoreAnswered DEF LooperHandled, WorkerCounted
    <2> QED
      BY <1>0, <1>4, <2>1 DEF LooperHandled, ItemsOK, itemVars, workerVars, callVars
  <1>5. CASE WorkerCount
    <2>1. items_completed' \in Nat /\ num_items' \in Nat /\ todo' \in Seq(Rpcs)
      <3>1. /\ items_completed' = items_completed + num_items
            /\ num_items' = 0 /\ todo' = <<>>
        BY <1>5, Zenon DEF WorkerCount, NumReset
      <3>2. items_completed \in Nat /\ num_items \in Nat /\ <<>> \in Seq(Rpcs)
        BY <1>0 DEF ItemsOK
      <3> QED
        BY <3>1, <3>2
    <2>3. UNCHANGED <<wk_items, hot, items_submitted, next, incoming, responses,
                      pauses, snap, testin>>
      BY <1>5 DEF WorkerCount, looperVars, netVars, callVars
    <2> QED
      BY <1>0, <2>1, <2>3 DEF ItemsOK
  <1>6. CASE WorkerSwap
    <2>1. todo' \in Seq(Rpcs) /\ wk_items' \in Seq(Rpcs)
      BY <1>0, <1>6 DEF WorkerSwap, ItemsOK
    <2>2. num_items' \in Nat /\ next' \in Nat
      BY <1>0, <1>6 DEF WorkerSwap, ItemsOK
    <2>3. UNCHANGED <<hot, items_submitted, items_completed, incoming, responses,
                      pauses, snap, testin>>
      BY <1>6 DEF WorkerSwap, looperVars, netVars, callVars
    <2> QED
      BY <1>0, <2>1, <2>2, <2>3 DEF ItemsOK
  <1>7. CASE WorkerHandled
    <2>1. todo[next] \in Rpcs
      <3>1. next \in 1..Len(todo) /\ todo \in Seq(Rpcs)
        BY <1>0, <1>7 DEF WorkerHandled, ItemsCounted, ItemsOK
      <3> QED
        BY <3>1
    <2>2. responses' \in [Rpcs -> Nat]
      BY <1>t, <1>7, <2>1, OneMoreAnswered DEF WorkerHandled
    <2>3. next' \in Nat
      BY <1>0, <1>7 DEF WorkerHandled, NextItem, ItemsOK
    <2>4. UNCHANGED <<wk_items, todo, hot, items_submitted, items_completed, num_items,
                      incoming, pauses, snap, testin>>
      BY <1>7 DEF WorkerHandled, itemVars, looperVars, callVars
    <2> QED
      BY <1>0, <2>2, <2>3, <2>4 DEF ItemsOK
  <1>8. CASE Bgwait
    <2>1. Range(wk_items) \subseteq Rpcs /\ Range(todo) \subseteq Rpcs
      <3>1. wk_items \in Seq(Rpcs) /\ todo \in Seq(Rpcs)
        BY <1>0 DEF ItemsOK
      <3>2. \A s \in Seq(Rpcs) : Range(s) \subseteq Rpcs
        BY DEF Range
      <3> QED
        BY <3>1, <3>2
    <2>2. snap' \subseteq Rpcs
      BY <1>8, <2>1 DEF Bgwait, Answered
    <2> QED
      BY <1>0, <1>8, <2>2 DEF Bgwait, ItemsOK, itemVars, looperVars, workerVars, netVars
  <1>9. CASE BgwaitTest
    BY <1>0, <1>9 DEF BgwaitTest, ItemsOK, itemVars, looperVars, workerVars, netVars, callVars
  <1>10. ASSUME Calm, pauses' \in Nat, testin' = testin PROVE ItemsOK'
    BY <1>0, <1>10 DEF Calm, ItemsOK
  <1>11. ASSUME ~Loud PROVE pauses' \in Nat /\ testin' = testin
    <2>1. CASE Sleep
      BY <1>0, <2>1 DEF Sleep, ItemsOK
    <2>2. CASE UNCHANGED callVars
      BY <1>0, <2>2 DEF callVars, ItemsOK
    <2>3. \/ LooperCheck \/ LooperPause \/ LooperExit
          \/ WorkerCheck \/ WorkerLock \/ WorkerWait \/ WorkerPause \/ WorkerExit
          \/ Sleep \/ Wakeup \/ DestroyLockBg \/ DestroySignal \/ DestroyWait
      BY <1>11, Zenon DEF Next, Looper, Worker, Returning, Loud
    <2> QED
      BY <2>1, <2>2, <2>3, Zenon
      DEF LooperCheck, LooperPause, LooperExit, WorkerCheck, WorkerLock, WorkerWait,
          WorkerPause, WorkerExit, Wakeup, DestroyLockBg, DestroySignal, DestroyWait
  <1> QED
    BY <1>1, <1>2, <1>3, <1>4, <1>5, <1>6, <1>7, <1>8, <1>9, <1>10, <1>11, NextSplit,
       Zenon DEF Loud

-----------------------------------------------------------------------------
\* num_wk goes with the worker, and the looper handles an RPC only without it.
LEMMA CountedStep == ASSUME WorkInv, Next PROVE WorkerCounted' /\ SingleHandler'
  <1>0. PointsOK /\ WorkerCounted /\ ItemsOK
    BY DEF WorkInv, TypeOK
  <1> SUFFICES WorkerCounted'
    BY DEF WorkerCounted, SingleHandler
  <1>1. ASSUME NEW r \in Rpcs, Trigger(r) PROVE WorkerCounted'
    BY <1>0, <1>1 DEF Trigger, RunsInline, WorkerCounted, bgVars, workerVars
  <1>2. ASSUME NEW r \in Rpcs, Arrive(r) PROVE WorkerCounted'
    <2>1. UNCHANGED <<num_wk, worker, looper, hot>>
      BY <1>2 DEF Arrive, bgVars, looperVars, workerVars
    <2> QED
      BY <1>0, <2>1 DEF WorkerCounted
  <1>3. CASE Push
    BY <1>0, <1>3 DEF Push, NotifyWk, Signals, WorkerCounted, bgVars, looperVars, workerVars
  <1>4. CASE LooperHandled
    BY <1>0, <1>4 DEF LooperHandled, WorkerCounted, bgVars, looperVars, workerVars
  <1>5. CASE WorkerCount
    BY <1>0, <1>5 DEF WorkerCount, NumReset, WorkerCounted, bgVars, looperVars, workerVars
  <1>6. CASE WorkerSwap
    BY <1>0, <1>6 DEF WorkerSwap, WorkerCounted, bgVars, looperVars, workerVars
  <1>7. CASE WorkerHandled
    BY <1>0, <1>7 DEF WorkerHandled, NextItem, WorkerCounted, bgVars, looperVars, workerVars
  <1>8. CASE Bgwait
    BY <1>0, <1>8 DEF Bgwait, WorkerCounted, bgVars, looperVars, workerVars
  <1>9. CASE BgwaitTest
    BY <1>0, <1>9 DEF BgwaitTest, WorkerCounted, bgVars, looperVars, workerVars
  <1>10. CASE LooperCheck
    BY <1>0, <1>10 DEF LooperCheck, WorkerCounted, bgVars, looperVars, workerVars
  <1>11. CASE LooperPause
    BY <1>0, <1>11 DEF LooperPause, WorkerCounted, bgVars, looperVars, workerVars
  <1>12. CASE LooperExit
    BY <1>0, <1>12 DEF LooperExit, NotifyMain, WorkerCounted, bgVars, looperVars, workerVars
  <1>13. CASE WorkerCheck
    BY <1>0, <1>13 DEF WorkerCheck, WorkerLeaves, WorkerCounted, bgVars, looperVars, workerVars
  <1>14. CASE WorkerLock
    BY <1>0, <1>14 DEF WorkerLock, WorkerCounted, bgVars, looperVars, workerVars
  <1>15. CASE WorkerWait
    BY <1>0, <1>15 DEF WorkerWait, WorkerCounted, bgVars, looperVars, workerVars
  <1>16. CASE WorkerPause
    BY <1>0, <1>16 DEF WorkerPause, WorkerCounted, bgVars, looperVars, workerVars
  <1>17. CASE WorkerExit
    <2>1. num_wk' = 0
      BY <1>0, <1>17 DEF WorkerExit, WorkerGoes, WorkerCounted
    <2>2. worker' = "gone" /\ UNCHANGED <<looper, hot>>
      BY <1>17 DEF WorkerExit, looperVars
    <2> QED
      BY <1>0, <2>1, <2>2 DEF WorkerCounted
  <1>18. CASE Sleep
    BY <1>0, <1>18 DEF Sleep, WorkerCounted, bgVars, looperVars, workerVars
  <1>19. CASE Wakeup
    BY <1>0, <1>19 DEF Wakeup, WorkerCounted, bgVars, looperVars, workerVars
  <1>20. CASE DestroyLockBg
    BY <1>0, <1>20 DEF DestroyLockBg, WorkerCounted, bgVars, looperVars, workerVars
  <1>21. CASE DestroySignal
    BY <1>0, <1>21 DEF DestroySignal, WorkerCounted, bgVars, looperVars, workerVars
  <1>22. CASE DestroyWait
    BY <1>0, <1>22 DEF DestroyWait, WorkerCounted, bgVars, looperVars, workerVars
  <1> QED
    BY <1>1, <1>2, <1>3, <1>4, <1>5, <1>6, <1>7, <1>8, <1>9, <1>10, <1>11, <1>12, <1>13, <1>14, <1>15, <1>16, <1>17, <1>18, <1>19, <1>20, <1>21, <1>22, Zenon
    DEF Next, Looper, Worker, Returning

-----------------------------------------------------------------------------
\* The worker has nothing in hand where a calm step moves it from.
LEMMA CalmItems ==
  ASSUME WorkInv, Calm
  PROVE  /\ ItemsCounted' /\ SnapWaited' /\ AnsweredOnce'
  <1>0. ItemsCounted /\ SnapWaited /\ AnsweredOnce /\ Answered' = Answered
    BY AnsweredSame DEF WorkInv, Calm
  <1>1. UNCHANGED <<wk_items, items_submitted, items_completed, todo, num_items,
                    next, responses, incoming, hot, snap>>
    BY DEF Calm
  <1>2. CASE worker' = worker
    <2>1. ItemsCounted'
      BY <1>0, <1>1, <1>2 DEF ItemsCounted
    <2>2. SnapWaited'
      BY <1>0, <1>1 DEF SnapWaited, Calm
    <2>3. AnsweredOnce'
      BY <1>0, <1>1, <1>2 DEF AnsweredOnce, InHand
    <2> QED
      BY <2>1, <2>2, <2>3
  <1>3. CASE worker' # worker
    <2>0. todo = <<>> /\ worker' # "handling"
      BY <1>0, <1>3 DEF Calm, ItemsCounted
    <2>1. ItemsCounted'
      BY <1>0, <1>1, <2>0 DEF ItemsCounted
    <2>2. SnapWaited'
      BY <1>0, <1>1 DEF SnapWaited, Calm
    <2>3. AnsweredOnce'
      BY <1>0, <1>1, <2>0 DEF AnsweredOnce, InHand
    <2> QED
      BY <2>1, <2>2, <2>3
  <1> QED
    BY <1>2, <1>3

\* The counters keep saying what is queued and what the worker has.
LEMMA ItemsCountedStep == ASSUME WorkInv, Loud PROVE ItemsCounted'
  <1>0. TypeOK /\ ItemsOK /\ WorkerCounted /\ ItemsCounted
    BY DEF WorkInv, TypeOK
  <1>1. ASSUME UNCHANGED <<wk_items, items_submitted, items_completed, todo, num_items,
                           next, worker>>,
               Answered \subseteq Answered'
        PROVE  ItemsCounted'
    BY <1>0, <1>1 DEF ItemsCounted
  <1>2. ASSUME NEW r \in Rpcs, Trigger(r) \/ Arrive(r) PROVE ItemsCounted'
    <2>1. CASE Trigger(r)
      BY <1>1, <2>1, AnsweredSame DEF Trigger, itemVars, workerVars
    <2>2. CASE Arrive(r)
      BY <1>1, <2>2, AnsweredSame DEF Arrive, itemVars, workerVars
    <2> QED
      BY <1>2, <2>1, <2>2
  <1>3. CASE Push
    <2>1. hot \in Rpcs
      BY <1>0, <1>3 DEF Push, WorkerCounted
    <2>2. Len(wk_items') = Len(wk_items) + 1
      BY <1>0, <1>3, <2>1, AppendElements DEF Push, ItemsOK
    <2>3. items_submitted' = items_submitted + 1
      BY <1>3, Zenon DEF Push
    <2>4. UNCHANGED <<items_completed, todo, num_items, next>> /\ Answered' = Answered
      BY <1>3, AnsweredSame DEF Push, netVars
    <2>5. worker' = worker \/ (worker = "asleep" /\ worker' = "lock")
      BY <1>3 DEF Push, NotifyWk
    <2>6. items_submitted' = items_completed' + Len(wk_items') + num_items'
      <3>1. /\ items_submitted \in Nat /\ items_completed \in Nat /\ num_items \in Nat
            /\ Len(wk_items) \in Nat
        BY <1>0 DEF ItemsOK
      <3> QED
        BY <1>0, <2>2, <2>3, <2>4, <3>1 DEF ItemsCounted
    <2> QED
      BY <1>0, <2>4, <2>5, <2>6 DEF ItemsCounted
  <1>4. CASE LooperHandled
    <2>1. Answered \subseteq Answered'
      BY <1>0, <1>4, OneMoreAnswered DEF LooperHandled, WorkerCounted
    <2> QED
      BY <1>1, <1>4, <2>1 DEF LooperHandled, itemVars, workerVars
  <1>5. CASE WorkerCount
    <2>1. /\ items_completed' = items_completed + num_items
          /\ num_items' = 0 /\ todo' = <<>> /\ worker' = "check"
      BY <1>5, Zenon DEF WorkerCount, NumReset
    <2>2. UNCHANGED <<wk_items, items_submitted>>
      BY <1>5, Zenon DEF WorkerCount
    <2>3. items_submitted' = items_completed' + Len(wk_items') + num_items'
      <3>1. /\ items_submitted \in Nat /\ items_completed \in Nat /\ num_items \in Nat
            /\ Len(wk_items) \in Nat
        BY <1>0 DEF ItemsOK
      <3> QED
        BY <1>0, <2>1, <2>2, <3>1 DEF ItemsCounted
    <2> QED
      BY <2>1, <2>3 DEF ItemsCounted
  <1>6. CASE WorkerSwap
    <2>1. /\ todo' = wk_items /\ wk_items' = <<>> /\ num_items' = Len(wk_items) /\ next' = 1
          /\ num_items = 0 /\ Len(wk_items') = 0
      BY <1>0, <1>6 DEF WorkerSwap, ItemsCounted
    <2>2. UNCHANGED <<items_submitted, items_completed>>
      BY <1>6 DEF WorkerSwap
    <2>3. wk_items \in Seq(Rpcs) /\ Len(wk_items) \in Nat
          /\ items_submitted \in Nat /\ items_completed \in Nat
      BY <1>0 DEF ItemsOK
    <2>4. items_submitted' = items_completed' + Len(wk_items') + num_items'
      BY <1>0, <2>1, <2>2, <2>3 DEF ItemsCounted
    <2>5. CASE wk_items = <<>>
      <3>1. worker' = "count" /\ todo' = <<>>
        BY <1>6, <2>1, <2>5 DEF WorkerSwap
      <3> QED
        BY <2>1, <2>4, <3>1 DEF ItemsCounted
    <2>6. CASE wk_items # <<>>
      <3>1. worker' = "handling" /\ 1 \in 1..Len(todo')
        BY <1>6, <2>1, <2>3, <2>6 DEF WorkerSwap
      <3>2. \A i \in DOMAIN todo' : ~(i < 1)
        BY <2>1, <2>3
      <3> QED
        BY <2>1, <2>4, <3>1, <3>2 DEF ItemsCounted
    <2> QED
      BY <2>5, <2>6
  <1>7. CASE WorkerHandled
    <2>1. /\ next \in 1..Len(todo) /\ todo \in Seq(Rpcs)
          /\ Len(todo) \in Nat /\ DOMAIN todo = 1..Len(todo)
      BY <1>0, <1>7 DEF WorkerHandled, ItemsCounted, ItemsOK
    <2>2. todo[next] \in Rpcs
      BY <2>1
    <2>3. Answered' = Answered \cup {todo[next]}
      BY <1>0, <1>7, <2>2, OneMoreAnswered DEF WorkerHandled
    <2>4. /\ next' = next + 1
          /\ UNCHANGED <<wk_items, items_submitted, items_completed, todo, num_items>>
      BY <1>7 DEF WorkerHandled, NextItem, itemVars
    <2>5. \A i \in DOMAIN todo : i < next + 1 => todo[i] \in Answered'
      BY <1>0, <2>1, <2>3 DEF ItemsCounted
    <2>6. CASE next = Len(todo)
      <3>1. worker' = "count"
        BY <1>7, <2>6 DEF WorkerHandled
      <3>2. \A i \in DOMAIN todo : todo[i] \in Answered'
        BY <2>1, <2>5, <2>6
      <3> QED
        BY <1>0, <2>4, <3>1, <3>2 DEF ItemsCounted
    <2>7. CASE next # Len(todo)
      <3>1. worker' = "handling"
        BY <1>7, <2>7 DEF WorkerHandled
      <3>2. next + 1 \in 1..Len(todo)
        BY <2>1, <2>7, OneFurther, Zenon
      <3>3. next' \in 1..Len(todo)
        BY <2>4, <3>2, Zenon
      <3> QED
        BY <1>0, <2>4, <2>5, <3>1, <3>3 DEF ItemsCounted
    <2> QED
      BY <2>6, <2>7
  <1>8. CASE Bgwait
    BY <1>1, <1>8, AnsweredSame DEF Bgwait, itemVars, workerVars, netVars
  <1>9. CASE BgwaitTest
    BY <1>1, <1>9, AnsweredSame DEF BgwaitTest, itemVars, workerVars, netVars
  <1> QED
    BY <1>2, <1>3, <1>4, <1>5, <1>6, <1>7, <1>8, <1>9 DEF Loud

\* What bgwait waits for stays accounted for until it is answered.
LEMMA SnapStep == ASSUME WorkInv, Loud PROVE SnapWaited'
  <1>0. TypeOK /\ ItemsOK /\ WorkerCounted /\ ItemsCounted /\ SnapWaited
    BY DEF WorkInv, TypeOK
  <1>1. ASSUME UNCHANGED <<wk_items, todo, snap, main>>, Answered \subseteq Answered'
        PROVE  SnapWaited'
    BY <1>0, <1>1 DEF SnapWaited
  <1>2. ASSUME NEW r \in Rpcs, Trigger(r) \/ Arrive(r) PROVE SnapWaited'
    <2>1. CASE Trigger(r)
      BY <1>1, <2>1, AnsweredSame DEF Trigger, itemVars, workerVars, callVars
    <2>2. CASE Arrive(r)
      BY <1>1, <2>2, AnsweredSame DEF Arrive, itemVars, workerVars, callVars
    <2> QED
      BY <1>2, <2>1, <2>2
  <1>3. CASE Push
    <2>1. hot \in Rpcs
      BY <1>0, <1>3 DEF Push, WorkerCounted
    <2>2. Range(wk_items') = Range(wk_items) \cup {hot}
      BY <1>0, <1>3, <2>1, AppendElements DEF Push, ItemsOK
    <2>3. UNCHANGED <<todo, snap>> /\ Answered' = Answered
      BY <1>3, AnsweredSame DEF Push, netVars, callVars
    <2>4. main' = "idle" => main = "idle"
      BY <1>3 DEF Push, NotifyWk
    <2> QED
      BY <1>0, <2>2, <2>3, <2>4 DEF SnapWaited
  <1>4. CASE LooperHandled
    <2>1. Answered \subseteq Answered'
      BY <1>0, <1>4, OneMoreAnswered DEF LooperHandled, WorkerCounted
    <2> QED
      BY <1>1, <1>4, <2>1 DEF LooperHandled, itemVars, workerVars, callVars
  <1>5. CASE WorkerCount
    <2>1. Range(todo) \subseteq Answered
      <3>1. worker = "count"
        BY <1>5 DEF WorkerCount
      <3> QED
        BY <1>0, <3>1 DEF ItemsCounted, Range
    <2>2. UNCHANGED <<wk_items, snap>> /\ Answered' = Answered
      BY <1>5, AnsweredSame DEF WorkerCount, netVars, callVars
    <2>3. main' = "idle" => main = "idle"
      BY <1>5, Zenon DEF WorkerCount
    <2> QED
      BY <1>0, <2>1, <2>2, <2>3 DEF SnapWaited
  <1>6. CASE WorkerSwap
    <2>1. todo' = wk_items /\ wk_items' = todo /\ UNCHANGED <<snap, main>>
      BY <1>6 DEF WorkerSwap, callVars
    <2>2. Answered' = Answered
      BY <1>6, AnsweredSame DEF WorkerSwap, netVars
    <2> QED
      BY <1>0, <2>1, <2>2 DEF SnapWaited
  <1>7. CASE WorkerHandled
    <2>1. next \in 1..Len(todo) /\ todo \in Seq(Rpcs)
      BY <1>0, <1>7 DEF WorkerHandled, ItemsCounted, ItemsOK
    <2>2. todo[next] \in Rpcs
      BY <2>1
    <2>3. Answered \subseteq Answered'
      BY <1>0, <1>7, <2>2, OneMoreAnswered DEF WorkerHandled
    <2> QED
      BY <1>1, <1>7, <2>3 DEF WorkerHandled, itemVars, callVars
  <1>8. CASE Bgwait
    <2>1. snap' \subseteq Answered \cup Range(wk_items) \cup Range(todo)
      BY <1>8 DEF Bgwait
    <2>2. UNCHANGED <<wk_items, todo>> /\ Answered' = Answered /\ main' = "bgwait"
      BY <1>8, AnsweredSame DEF Bgwait, itemVars, workerVars, netVars
    <2> QED
      BY <2>1, <2>2 DEF SnapWaited
  <1>9. CASE BgwaitTest
    <2>1. UNCHANGED <<wk_items, todo, snap>> /\ Answered' = Answered
      BY <1>9, AnsweredSame DEF BgwaitTest, itemVars, workerVars, netVars, callVars
    <2>2. CASE Pending
      <3>1. main' # "idle"
        BY <1>9, <2>2 DEF BgwaitTest
      <3> QED
        BY <1>0, <2>1, <3>1 DEF SnapWaited
    <2>3. CASE ~Pending
      <3>1. /\ items_submitted \in Nat /\ items_completed \in Nat /\ num_items \in Nat
            /\ Len(wk_items) \in Nat /\ wk_items \in Seq(Rpcs) /\ todo \in Seq(Rpcs)
        BY <1>0 DEF ItemsOK
      <3>2. items_submitted = items_completed + Len(wk_items) + num_items
            /\ num_items = Len(todo)
        BY <1>0 DEF ItemsCounted
      <3>3. Len(wk_items) = 0 /\ Len(todo) = 0
        BY <2>3, <3>1, <3>2 DEF Pending
      <3>4. wk_items = <<>> /\ todo = <<>>
        BY <3>1, <3>3
      <3>5. snap \subseteq Answered
        BY <1>0, <3>4, EmptyRange DEF SnapWaited
      <3> QED
        BY <1>0, <2>1, <3>5 DEF SnapWaited
    <2> QED
      BY <2>2, <2>3
  <1> QED
    BY <1>2, <1>3, <1>4, <1>5, <1>6, <1>7, <1>8, <1>9 DEF Loud

\* An RPC stays in one place, and is answered when it leaves the last.
LEMMA OnceStep == ASSUME WorkInv, Loud PROVE AnsweredOnce'
  <1>0. TypeOK /\ ItemsOK /\ WorkerCounted /\ ItemsCounted /\ AnsweredOnce
    BY DEF WorkInv, TypeOK
  <1>n. None \notin Rpcs
    BY NNWorkAssumption
  <1>d. wk_items \in Seq(Rpcs) /\ todo \in Seq(Rpcs) /\ incoming \subseteq Rpcs
    BY <1>0 DEF ItemsOK
  <1>1. ASSUME NEW r \in Rpcs, Trigger(r) PROVE AnsweredOnce'
    <2>1. /\ r \in incoming /\ incoming' = incoming \ {r} /\ hot' = r
          /\ UNCHANGED <<wk_items, todo, next, worker, responses>>
      BY <1>1 DEF Trigger, itemVars, workerVars
    <2>2. Answered' = Answered
      BY <2>1, AnsweredSame
    <2>3. InHand' = {r} \cup Range(wk_items)
      BY <1>n, <2>1 DEF InHand
    <2>4. r \notin Range(wk_items) \cup Range(todo) \cup Answered
      BY <1>0, <2>1 DEF AnsweredOnce, InHand
    <2> QED
      BY <1>0, <2>1, <2>2, <2>3, <2>4 DEF AnsweredOnce, InHand
  <1>2. ASSUME NEW r \in Rpcs, Arrive(r) PROVE AnsweredOnce'
    <2>1. /\ incoming' = incoming \cup {r}
          /\ UNCHANGED <<wk_items, todo, next, worker, responses, hot>>
      BY <1>2 DEF Arrive, itemVars, looperVars, workerVars
    <2>2. Answered' = Answered
      BY <2>1, AnsweredSame
    <2>3. r \notin {hot} \cup Range(wk_items \o todo) \cup Answered
      BY <1>2 DEF Arrive
    <2>4. Range(wk_items \o todo) = Range(wk_items) \cup Range(todo)
      BY <1>d, RangeConcatenation
    <2>5. r \notin InHand \cup Range(todo) \cup Answered
      BY <2>3, <2>4 DEF InHand
    <2>6. InHand' = InHand
      BY <2>1 DEF InHand
    <2> QED
      BY <1>0, <2>1, <2>2, <2>5, <2>6 DEF AnsweredOnce
  <1>3. CASE Push
    <2>1. hot \in Rpcs
      BY <1>0, <1>3 DEF Push, WorkerCounted
    <2>2. /\ wk_items' = Append(wk_items, hot) /\ hot' = None
          /\ UNCHANGED <<todo, next, incoming, responses>>
          /\ (worker' = "handling" => worker = "handling")
      BY <1>3 DEF Push, NotifyWk, netVars
    <2>3. Range(wk_items') = Range(wk_items) \cup {hot} /\ wk_items' \in Seq(Rpcs)
      BY <1>d, <2>1, <2>2, AppendElements
    <2>4. InHand' = InHand
      BY <1>n, <2>1, <2>2, <2>3 DEF InHand
    <2>5. hot' \notin Range(wk_items')
      BY <1>n, <2>2, <2>3 DEF Range
    <2>6. Distinct(wk_items')
      BY <1>0, <1>d, <2>1, <2>2, AppendDistinct DEF AnsweredOnce
    <2>7. Answered' = Answered
      BY <2>2, AnsweredSame
    <2> QED
      BY <1>0, <2>2, <2>4, <2>5, <2>6, <2>7 DEF AnsweredOnce
  <1>4. CASE LooperHandled
    <2>1. hot \in Rpcs
      BY <1>0, <1>4 DEF LooperHandled, WorkerCounted
    <2>2. /\ responses' = [responses EXCEPT ![hot] = @ + 1] /\ hot' = None
          /\ UNCHANGED <<wk_items, todo, next, worker, incoming>>
      BY <1>4 DEF LooperHandled, itemVars, workerVars
    <2>3. Answered' = Answered \cup {hot}
      BY <1>0, <2>1, <2>2, OneMoreAnswered
    <2>4. InHand = {hot} \cup Range(wk_items) /\ InHand' = Range(wk_items)
      BY <1>n, <2>1, <2>2 DEF InHand
    <2>5. hot' \notin Range(wk_items')
      BY <1>n, <1>d, <2>2 DEF Range
    <2>6. worker # "handling"
      BY <1>0, <1>4 DEF LooperHandled, WorkerCounted
    <2>7. \A r \in Rpcs : responses'[r] <= 1
      <3>1. hot \notin Answered
        BY <1>0, <2>4 DEF AnsweredOnce
      <3>2. responses \in [Rpcs -> Nat] /\ responses[hot] = 0
        BY <1>0, <2>1, <3>1 DEF ItemsOK, Answered
      <3> QED
        BY <1>0, <2>2, <3>2 DEF AnsweredOnce
    <2>8. hot \notin incoming /\ hot \notin Range(wk_items)
      BY <1>0, <2>4 DEF AnsweredOnce
    <2> QED
      BY <1>0, <2>2, <2>3, <2>4, <2>5, <2>6, <2>7, <2>8 DEF AnsweredOnce
  <1>5. CASE WorkerCount
    <2>1. todo' = <<>> /\ UNCHANGED <<wk_items, responses, incoming, hot>>
      BY <1>5, Zenon DEF WorkerCount, netVars, looperVars
    <2>2. Answered' = Answered /\ InHand' = InHand
      BY <2>1, AnsweredSame DEF InHand
    <2> QED
      BY <1>0, <2>1, <2>2, EmptyRange DEF AnsweredOnce, Distinct
  <1>6. CASE WorkerSwap
    <2>1. /\ todo = <<>> /\ todo' = wk_items /\ wk_items' = <<>>
          /\ UNCHANGED <<responses, incoming, hot>>
      BY <1>0, <1>6 DEF WorkerSwap, ItemsCounted, netVars, looperVars
    <2>2. Answered' = Answered
      BY <2>1, AnsweredSame
    <2>3. InHand = InHand' \cup Range(todo') /\ Range(wk_items') = {}
      BY <2>1, EmptyRange DEF InHand
    <2>4. InHand' \cap Range(todo') = {}
      BY <1>0, <2>1, EmptyRange DEF AnsweredOnce, InHand
    <2>5. Distinct(wk_items') /\ Distinct(todo')
      BY <1>0, <2>1 DEF AnsweredOnce, Distinct
    <2>6. \A i \in DOMAIN todo' : todo'[i] \notin Answered
      BY <1>0, <1>d, <2>1 DEF AnsweredOnce, InHand, Range
    <2> QED
      BY <1>0, <2>1, <2>2, <2>3, <2>4, <2>5, <2>6 DEF AnsweredOnce
  <1>7. CASE WorkerHandled
    <2>1. /\ next \in 1..Len(todo) /\ Len(todo) \in Nat /\ DOMAIN todo = 1..Len(todo)
          /\ worker = "handling" /\ next' = next + 1
          /\ UNCHANGED <<wk_items, todo, incoming, hot>>
      BY <1>0, <1>d, <1>7 DEF WorkerHandled, NextItem, ItemsCounted, itemVars, looperVars
    <2>2. todo[next] \in Rpcs /\ todo[next] \in Range(todo)
      BY <1>d, <2>1 DEF Range
    <2>3. /\ Answered' = Answered \cup {todo[next]}
          /\ responses' = [responses EXCEPT ![todo[next]] = @ + 1]
      BY <1>0, <1>7, <2>2, OneMoreAnswered DEF WorkerHandled
    <2>4. todo[next] \notin Answered
      BY <1>0, <2>1 DEF AnsweredOnce
    <2>5. \A r \in Rpcs : responses'[r] <= 1
      <3>1. responses \in [Rpcs -> Nat] /\ responses[todo[next]] = 0
        BY <1>0, <2>2, <2>4 DEF ItemsOK, Answered
      <3> QED
        BY <1>0, <2>2, <2>3, <3>1 DEF AnsweredOnce
    <2>6. \A i \in DOMAIN todo : i >= next + 1 => todo[i] \notin Answered'
      <3>1. ASSUME NEW i \in DOMAIN todo, i >= next + 1 PROVE todo[i] \notin Answered'
        <4>1. i # next /\ i >= next
          BY <2>1, <3>1
        <4>2. todo[i] # todo[next]
          BY <1>0, <2>1, <4>1 DEF AnsweredOnce, Distinct
        <4>3. todo[i] \notin Answered
          BY <1>0, <2>1, <4>1 DEF AnsweredOnce
        <4> QED
          BY <2>3, <4>2, <4>3
      <3> QED
        BY <3>1
    <2>7. todo[next] \notin incoming /\ todo[next] \notin InHand
      BY <1>0, <2>2 DEF AnsweredOnce
    <2>8. InHand' = InHand
      BY <2>1 DEF InHand
    <2> QED
      BY <1>0, <2>1, <2>3, <2>5, <2>6, <2>7, <2>8 DEF AnsweredOnce
  <1>8. ASSUME UNCHANGED <<wk_items, todo, next, worker, responses, incoming, hot>>
        PROVE  AnsweredOnce'
    <2>1. InHand' = InHand /\ Answered' = Answered
      BY <1>8, AnsweredSame DEF InHand
    <2> QED
      BY <1>0, <1>8, <2>1 DEF AnsweredOnce
  <1>9. CASE Bgwait
    BY <1>8, <1>9 DEF Bgwait, itemVars, workerVars, netVars, looperVars
  <1>10. CASE BgwaitTest
    BY <1>8, <1>10 DEF BgwaitTest, itemVars, workerVars, netVars, looperVars
  <1> QED
    BY <1>1, <1>2, <1>3, <1>4, <1>5, <1>6, <1>7, <1>9, <1>10 DEF Loud

LEMMA InitInv == Init => WorkInv
  <1> SUFFICES ASSUME Init PROVE WorkInv
    OBVIOUS
  <1>1. PointsOK
    BY DEF Init, PointsOK
  <1>2. ItemsOK
    BY DEF Init, ItemsOK
  <1>3. WorkerCounted /\ SingleHandler
    BY DEF Init, WorkerCounted, SingleHandler
  <1>4. ItemsCounted
    BY DEF Init, ItemsCounted
  <1>5. SnapWaited
    BY DEF Init, SnapWaited
  <1>6. Range(<<>>) = {} /\ Answered = {}
    BY EmptyRange DEF Init, Answered
  <1>7. AnsweredOnce
    BY <1>6 DEF Init, AnsweredOnce, InHand, Distinct
  <1> QED
    BY <1>1, <1>2, <1>3, <1>4, <1>5, <1>7 DEF WorkInv, TypeOK

LEMMA StepInv == ASSUME WorkInv, [Next]_vars PROVE WorkInv'
  <1>1. CASE Next
    <2>1. PointsOK' /\ ItemsOK'
      BY <1>1, PointsStep, ItemsStep DEF WorkInv, TypeOK
    <2>2. WorkerCounted' /\ SingleHandler'
      BY <1>1, CountedStep
    <2>3. CASE Calm
      BY <2>1, <2>2, <2>3, CalmItems DEF WorkInv, TypeOK
    <2>4. CASE Loud
      BY <2>1, <2>2, <2>4, ItemsCountedStep, SnapStep, OnceStep DEF WorkInv, TypeOK
    <2> QED
      BY <1>1, <2>3, <2>4, NextSplit
  <1>2. CASE UNCHANGED vars
    <2> USE <1>2 DEF vars, bgVars, itemVars, looperVars, workerVars, netVars, callVars
    <2>1. PointsOK' = PointsOK /\ ItemsOK' = ItemsOK
      BY DEF PointsOK, ItemsOK
    <2>2. WorkerCounted' = WorkerCounted /\ SingleHandler' = SingleHandler
      BY DEF WorkerCounted, SingleHandler
    <2>3. Answered' = Answered /\ InHand' = InHand
      BY DEF Answered, InHand
    <2>4. ItemsCounted' = ItemsCounted
      BY <2>3 DEF ItemsCounted
    <2>5. SnapWaited' = SnapWaited
      BY <2>3 DEF SnapWaited
    <2>6. AnsweredOnce' = AnsweredOnce
      BY <2>3 DEF AnsweredOnce, Distinct
    <2> QED
      BY <2>1, <2>2, <2>4, <2>5, <2>6 DEF WorkInv, TypeOK
  <1> QED
    BY <1>1, <1>2

\* The worker's bookkeeping holds in every reachable state, for any set of
\* RPCs, any number of pauses, with or without lock-free queues.
THEOREM WorkInvariant == Spec => []WorkInv
  <1>1. Init => WorkInv
    BY InitInv
  <1>2. WorkInv /\ [Next]_vars => WorkInv'
    BY StepInv
  <1> QED
    BY <1>1, <1>2, PTL DEF Spec

\* When nn_shuffler_bgwait returns, every RPC handed to the worker before the
\* call has been answered.
THEOREM BgwaitWaits == Spec => []BgwaitMeansDone
  <1>1. WorkInv => BgwaitMeansDone
    BY DEF WorkInv, SnapWaited, BgwaitMeansDone
  <1> QED
    BY <1>1, WorkInvariant, PTL

=============================================================================
