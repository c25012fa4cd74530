--------------------------- MODULE FlushOpsProofs ---------------------------
(***************************************************************************)
(* FlushInv is an inductive invariant of FlushOps: flush operations are    *)
(* serialized, their references are counted, and a flush that is reported  *)
(* as a success left nothing behind.                                       *)
(***************************************************************************)
EXTENDS FlushOps, TLAPS, FiniteSetTheorems

-----------------------------------------------------------------------------
\* Operators.

LEMMA NetOf == ASSUME NEW o \in Osets PROVE WorkerOf(o) \in NetThreads
  <1>1. o # Deliver
    BY FlushOpsAssumption, Zenon
  <1>2. CASE o \in LocalSets
    BY <1>1, <1>2, Zenon DEF WorkerOf, NetThreads
  <1>3. CASE o \notin LocalSets
    BY <1>1, <1>3, Zenon DEF WorkerOf, NetThreads
  <1> QED
    BY <1>2, <1>3, Zenon

LEMMA LenFacts ==
  ASSUME NEW S, NEW s \in Seq(S)
  PROVE  /\ Len(s) \in Nat /\ DOMAIN s = 1..Len(s) /\ (s # <<>> => Len(s) > 0)
         /\ \A i \in 1..Len(s) : s[i] \in S
  OBVIOUS

LEMMA AppendFacts ==
  ASSUME NEW S, NEW s \in Seq(S), NEW x \in S
  PROVE  /\ Append(s, x) \in Seq(S) /\ Len(Append(s, x)) = Len(s) + 1
         /\ \A i \in 1..Len(s) : Append(s, x)[i] = s[i]
         /\ Append(s, x)[Len(s) + 1] = x
  OBVIOUS

LEMMA HeadTailFacts ==
  ASSUME NEW S, NEW s \in Seq(S), s # <<>>
  PROVE  /\ Head(s) \in S /\ Head(s) = s[1]
         /\ Tail(s) \in Seq(S) /\ Len(Tail(s)) = Len(s) - 1
         /\ \A i \in 1..Len(Tail(s)) : Tail(s)[i] = s[i + 1]
  OBVIOUS

LEMMA AppendElements ==
  ASSUME NEW S, NEW s \in Seq(S), NEW x \in S
  PROVE  /\ Append(s, x) \in Seq(S) /\ Len(Append(s, x)) = Len(s) + 1
         /\ Range(Append(s, x)) = Range(s) \cup {x}
  <1>1. /\ Append(s, x) \in Seq(S) /\ Len(Append(s, x)) = Len(s) + 1
        /\ \A i \in 1..Len(s) : Append(s, x)[i] = s[i]
        /\ Append(s, x)[Len(s) + 1] = x
    BY AppendFacts
  <1>2. Len(s) \in Nat /\ DOMAIN s = 1..Len(s)
        /\ DOMAIN Append(s, x) = 1..Len(s) + 1
    BY <1>1, LenFacts, Zenon
  <1>3. Range(s) \cup {x} \subseteq Range(Append(s, x))
    BY <1>1, <1>2 DEF Range
  <1>4. ASSUME NEW i \in DOMAIN Append(s, x)
        PROVE  Append(s, x)[i] \in Range(s) \cup {x}
    <2>1. CASE i = Len(s) + 1
      BY <1>1, <2>1, Zenon
    <2>2. CASE i # Len(s) + 1
      <3>1. i \in 1..Len(s)
        BY <1>2, <2>2
      <3> QED
        BY <1>1, <1>2, <3>1, Zenon DEF Range
    <2> QED
      BY <2>1, <2>2, Zenon
  <1> QED
    BY <1>1, <1>3, <1>4, Zenon DEF Range

\* A queue of distinct entries: appending a new one, taking the first.
LEMMA AppendOnce ==
  ASSUME NEW S, NEW s \in Seq(S), NEW x \in S, Once(s), x \notin Range(s)
  PROVE  Once(Append(s, x))
  <1>1. /\ \A i \in 1..Len(s) : Append(s, x)[i] = s[i]
        /\ Append(s, x)[Len(s) + 1] = x
        /\ Append(s, x) \in Seq(S) /\ Len(Append(s, x)) = Len(s) + 1
    BY AppendFacts
  <1>2. Len(s) \in Nat /\ DOMAIN s = 1..Len(s)
        /\ DOMAIN Append(s, x) = 1..Len(s) + 1
    BY <1>1, LenFacts, Zenon
  <1>3. \A i \in 1..Len(s) : s[i] # x
    BY <1>2, Zenon DEF Range
  <1>4. ASSUME NEW i \in 1..Len(s) + 1 PROVE i = Len(s) + 1 \/ i \in 1..Len(s)
    BY <1>2
  <1>5. ASSUME NEW i \in 1..Len(s) + 1, NEW j \in 1..Len(s) + 1,
               Append(s, x)[i] = Append(s, x)[j]
        PROVE  i = j
    <2>1. CASE i \in 1..Len(s) /\ j \in 1..Len(s)
      BY <1>1, <1>2, <1>5, <2>1, Zenon DEF Once
    <2>2. CASE i = Len(s) + 1 \/ j = Len(s) + 1
      BY <1>1, <1>3, <1>4, <1>5, <2>2, Zenon
    <2> QED
      BY <1>4, <2>1, <2>2, Zenon
  <1> QED
    BY <1>2, <1>5, Zenon DEF Once

LEMMA TailOnce ==
  ASSUME NEW S, NEW s \in Seq(S), s # <<>>, Once(s)
  PROVE  /\ Head(s) \in S /\ Tail(s) \in Seq(S) /\ Once(Tail(s))
         /\ Head(s) \notin Range(Tail(s)) /\ Range(s) = Range(Tail(s)) \cup {Head(s)}
  <1>1. /\ Head(s) \in S /\ Tail(s) \in Seq(S) /\ Len(Tail(s)) = Len(s) - 1
        /\ \A i \in 1..Len(Tail(s)) : Tail(s)[i] = s[i + 1]
    BY HeadTailFacts, Zenon
  <1>2. /\ Len(s) \in Nat /\ Len(s) > 0 /\ DOMAIN s = 1..Len(s)
        /\ DOMAIN Tail(s) = 1..Len(s) - 1 /\ Head(s) = s[1]
    BY <1>1, LenFacts, HeadTailFacts, Zenon
  <1>3. \A i \in DOMAIN Tail(s) : Tail(s)[i] = s[i + 1] /\ i + 1 \in DOMAIN s /\ i + 1 # 1
    BY <1>1, <1>2
  <1>4. Once(Tail(s))
    <2>1. ASSUME NEW i \in DOMAIN Tail(s), NEW j \in DOMAIN Tail(s),
                 Tail(s)[i] = Tail(s)[j]
          PROVE  i = j
      <3>1. i + 1 = j + 1
        BY <1>3, <2>1, Zenon DEF Once
      <3> QED
        BY <1>2, <3>1
    <2> QED
      BY <2>1, Zenon DEF Once
  <1>5. Head(s) \notin Range(Tail(s))
    <2>1. 1 \in DOMAIN s
      BY <1>2
    <2> QED
      BY <1>2, <1>3, <2>1 DEF Range, Once
  <1>6. ASSUME NEW i \in DOMAIN s PROVE s[i] \in Range(Tail(s)) \cup {Head(s)}
    <2>1. CASE i = 1
      BY <1>2, <2>1, Zenon
    <2>2. CASE i # 1
      <3>1. i - 1 \in DOMAIN Tail(s) /\ (i - 1) + 1 = i
        BY <1>2, <2>2
      <3> QED
        BY <1>3, <3>1, Zenon DEF Range
    <2> QED
      BY <2>1, <2>2, Zenon
  <1>7. Range(Tail(s)) \cup {Head(s)} \subseteq Range(s)
    <2>1. 1 \in DOMAIN s
      BY <1>2
    <2> QED
      BY <1>2, <1>3, <2>1 DEF Range
  <1> QED
    BY <1>1, <1>4, <1>5, <1>6, <1>7 DEF Range

LEMMA EmptyRange == Range(<<>>) = {}
  BY DEF Range

-----------------------------------------------------------------------------
\* Steps, by what they do to the current flush.

Active(f) == pc[f] \notin {"idle", "pending"}

\* The current flush stays the current one.
Moves ==
  /\ UNCHANGED <<curflush, flushoset, fpending, status, kind>>
  /\ \A f \in Flushers : pc'[f] = pc[f] \/ (Active(f) /\ Active(f)')
  /\ shut' \in {"discarded", "purged"} <=> shut \in {"discarded", "purged"}

Turns ==
  \/ \E f \in Flushers, k \in Kinds : Aquire(f, k)
  \/ \E f \in Flushers : Resume(f) \/ ResumeCancelled(f) \/ GiveUp(f) \/ Drop(f)
  \/ Discard

\* A flusher past aquire_flush goes on.
Works(f) ==
  \/ CheckRunning(f) \/ (\E q \in Queues : StartQ(f, q)) \/ DropRef(f)
  \/ WaitTest(f) \/ CleanQflush(f) \/ DeliverTest(f) \/ DeliverSleep(f)
  \/ \E n \in 0 .. MaxQueued : FlushDeliverStart(f, n)

LEMMA Going ==
  ASSUME LinksOK, NEW f \in Flushers, NEW l \in Points, Goto(f, l)
  PROVE  /\ pc' \in [Flushers -> Points] /\ pc'[f] = l
         /\ \A g \in Flushers : g # f => pc'[g] = pc[g]
  BY Zenon DEF LinksOK, Goto

LEMMA Waking ==
  ASSUME LinksOK, WakeCurrent
  PROVE  /\ pc' \in [Flushers -> Points]
         /\ \A f \in Flushers :
              \/ pc'[f] = pc[f]
              \/ pc[f] = "asleep" /\ pc'[f] = "wait"
              \/ pc[f] = "dasleep" /\ pc'[f] = "dtest"
         /\ \A f \in Flushers : curflush = f => pc'[f] \notin {"asleep", "dasleep"}
  <1>1. CASE curflush # None /\ pc[curflush] \in {"asleep", "dasleep"}
    <2>1. curflush \in Flushers
      BY <1>1, Zenon DEF LinksOK
    <2>2. pc' = [pc EXCEPT ![curflush] = IF @ = "asleep" THEN "wait" ELSE "dtest"]
      BY <1>1, Zenon DEF WakeCurrent
    <2>3. pc \in [Flushers -> Points]
      BY Zenon DEF LinksOK
    <2>4. \/ pc[curflush] = "asleep" /\ pc' = [pc EXCEPT ![curflush] = "wait"]
          \/ pc[curflush] = "dasleep" /\ pc' = [pc EXCEPT ![curflush] = "dtest"]
      BY <1>1, <2>2, Zenon
    <2>5. /\ pc' \in [Flushers -> Points]
          /\ \A f \in Flushers : f # curflush => pc'[f] = pc[f]
          /\ \/ pc[curflush] = "asleep" /\ pc'[curflush] = "wait"
             \/ pc[curflush] = "dasleep" /\ pc'[curflush] = "dtest"
      BY <2>1, <2>3, <2>4, Zenon DEF Points
    <2>6. ASSUME NEW f \in Flushers
          PROVE  /\ \/ pc'[f] = pc[f]
                    \/ pc[f] = "asleep" /\ pc'[f] = "wait"
                    \/ pc[f] = "dasleep" /\ pc'[f] = "dtest"
                 /\ curflush = f => pc'[f] \notin {"asleep", "dasleep"}
      <3>1. CASE f = curflush
        BY <2>5, <3>1, Zenon
      <3>2. CASE f # curflush
        BY <2>5, <3>2, Zenon
      <3> QED
        BY <3>1, <3>2, Zenon
    <2> QED
      BY <2>5, <2>6, Zenon
  <1>2. CASE ~(curflush # None /\ pc[curflush] \in {"asleep", "dasleep"})
    <2>1. pc' = pc
      BY <1>2, Zenon DEF WakeCurrent
    <2>2. \A f \in Flushers : curflush = f => curflush # None
      BY FlushOpsAssumption, Zenon
    <2>3. pc \in [Flushers -> Points]
      BY DEF LinksOK
    <2>4. \A f \in Flushers : curflush = f => pc[f] \notin {"asleep", "dasleep"}
      BY <1>2, <2>2, Zenon
    <2> QED
      BY <2>1, <2>3, <2>4, Zenon
  <1> QED
    BY <1>1, <1>2, Zenon

LEMMA MovingFlusher ==
  ASSUME LinksOK, NEW f \in Flushers, Works(f)
  PROVE  Moves /\ pc' \in [Flushers -> Points]
  <1>0. ASSUME NEW l \in Points \ {"idle", "pending"}, Goto(f, l), Active(f)
        PROVE  /\ pc' \in [Flushers -> Points]
               /\ \A g \in Flushers : pc'[g] = pc[g] \/ (Active(g) /\ Active(g)')
    BY <1>0, Going, Zenon DEF Active
  <1>1. CASE CheckRunning(f)
    <2>1. Active(f) /\ (Goto(f, "dstart") \/ Goto(f, "start"))
      BY <1>1, Zenon DEF CheckRunning, Active
    <2> QED
      BY <1>0, <1>1, <2>1, Zenon DEF CheckRunning, Moves, flushVars, Points
  <1>2. CASE \E q \in Queues : StartQ(f, q)
    BY <1>2, Zenon DEF StartQ, Moves, flushVars, LinksOK
  <1>3. CASE DropRef(f)
    <2>1. Active(f) /\ Goto(f, "wait")
      BY <1>3, Zenon DEF DropRef, Active
    <2> QED
      BY <1>0, <1>3, <2>1, Zenon DEF DropRef, Moves, flushVars, Points
  <1>4. CASE WaitTest(f)
    <2>1. Active(f) /\ (Goto(f, "asleep") \/ Goto(f, "clean") \/ Goto(f, "drop"))
      BY <1>4, Zenon DEF WaitTest, Active
    <2> QED
      BY <1>0, <1>4, <2>1, Zenon DEF WaitTest, Moves, flushVars, Points
  <1>5. CASE CleanQflush(f)
    <2>1. Active(f) /\ Goto(f, "drop")
      BY <1>5, Zenon DEF CleanQflush, Active
    <2> QED
      BY <1>0, <1>5, <2>1, Zenon DEF CleanQflush, Moves, flushVars, Points
  <1>6. CASE DeliverTest(f)
    <2>1. Active(f) /\ (Goto(f, "dsleep") \/ Goto(f, "drop"))
      BY <1>6, Zenon DEF DeliverTest, Active
    <2> QED
      BY <1>0, <1>6, <2>1, Zenon DEF DeliverTest, Moves, flushVars, Points
  <1>7. CASE DeliverSleep(f)
    <2>1. Active(f) /\ Goto(f, "dasleep")
      BY <1>7, Zenon DEF DeliverSleep, Active
    <2> QED
      BY <1>0, <1>7, <2>1, Zenon DEF DeliverSleep, Moves, flushVars, Points
  <1>8. CASE \E n \in 0 .. MaxQueued : FlushDeliverStart(f, n)
    <2>1. Active(f) /\ Goto(f, "dtest")
      BY <1>8, Zenon DEF FlushDeliverStart, Active
    <2> QED
      BY <1>0, <1>8, <2>1, Zenon DEF FlushDeliverStart, Moves, flushVars,
         Points
  <1> QED
    BY <1>1, <1>2, <1>3, <1>4, <1>5, <1>6, <1>7, <1>8, Zenon DEF Works

\* Everybody else.
Others ==
  \/ \E w \in NetThreads :
       \/ \E o \in Osets, q \in Queues : WorkerOf(o) = w /\ QueueDone(o, q)
       \/ QueueDeref(w) \/ QueueSignal(w)
  \/ DeliverOne \/ (\E w \in Workers : WorkerExit(w) \/ BeginStop(w))
  \/ DisableSend \/ PurgeReqs \/ UNCHANGED vars

LEMMA MovingOthers ==
  ASSUME LinksOK, Others PROVE Moves /\ pc' \in [Flushers -> Points]
  <1>1. CASE \E w \in NetThreads :
               \/ \E o \in Osets, q \in Queues : WorkerOf(o) = w /\ QueueDone(o, q)
               \/ QueueDeref(w)
    BY <1>1, Zenon DEF QueueDone, QueueDeref, Moves, flushVars, LinksOK
  <1>2. ASSUME WakeCurrent \/ UNCHANGED pc
        PROVE  /\ pc' \in [Flushers -> Points]
               /\ \A f \in Flushers : pc'[f] = pc[f] \/ (Active(f) /\ Active(f)')
    <2>1. CASE WakeCurrent
      BY <2>1, Waking, Zenon DEF Active
    <2>2. CASE UNCHANGED pc
      BY <2>2, Zenon DEF LinksOK
    <2> QED
      BY <1>2, <2>1, <2>2, Zenon
  <1>3. CASE \E w \in NetThreads : QueueSignal(w)
    <2>1. /\ WakeCurrent \/ UNCHANGED pc
          /\ UNCHANGED <<curflush, flushoset, fpending, status, kind, shut>>
      BY <1>3, Zenon DEF QueueSignal, flushVars
    <2> QED
      BY <1>2, <2>1, Zenon DEF Moves
  <1>4. CASE DeliverOne
    <2>1. /\ WakeCurrent \/ UNCHANGED pc
          /\ UNCHANGED <<curflush, flushoset, fpending, status, kind, shut>>
      BY <1>4, Zenon DEF DeliverOne, flushVars
    <2> QED
      BY <1>2, <2>1 DEF Moves
  <1>5. CASE \E w \in Workers : WorkerExit(w) \/ BeginStop(w)
    BY <1>5, Zenon DEF WorkerExit, BeginStop, Moves, flushVars, LinksOK
  <1>6. CASE DisableSend \/ PurgeReqs
    BY <1>6, Zenon DEF DisableSend, PurgeReqs, Moves, flushVars, LinksOK
  <1>7. CASE UNCHANGED vars
    BY <1>7, Zenon DEF vars, Moves, flushVars, LinksOK
  <1> QED
    BY <1>1, <1>3, <1>4, <1>5, <1>6, <1>7, Zenon DEF Others

LEMMA NextSplit ==
  ASSUME [Next]_vars, ~overtaken
  PROVE  \/ Turns \/ Others
         \/ \E f \in Flushers : Works(f)
  BY Zenon DEF Next, Turns, Others, Works, FlusherStep, NetStep, Delivery, Exit, Shutdown, Quiescent

\* Once a released flush is overtaken, the model has ended.
LEMMA Ended ==
  ASSUME [Next]_vars, overtaken PROVE UNCHANGED vars
  BY Zenon DEF Next, FlusherStep, NetStep, Delivery, Exit, Shutdown, Quiescent

LEMMA MovesOrTurns ==
  ASSUME LinksOK, [Next]_vars, ~overtaken
  PROVE  Turns \/ (Moves /\ pc' \in [Flushers -> Points])
  BY NextSplit, MovingOthers, MovingFlusher, Zenon

-----------------------------------------------------------------------------
\* Types.

\* What a flush that ends does: drop_curflush.
LEMMA Dropping ==
  ASSUME LinksOK, Once(fpending), DropCurflush
  PROVE  /\ curflush' = None /\ flushoset' = None /\ fpending' \in Seq(Flushers)
         /\ status' \in [Flushers -> {"pending", "ready", "cancel"}]
         /\ Once(fpending')
         /\ \/ fpending = <<>> /\ UNCHANGED <<fpending, status>>
            \/ /\ Head(fpending) \in Flushers
               /\ Range(fpending) = Range(fpending') \cup {Head(fpending)}
               /\ Head(fpending) \notin Range(fpending')
               /\ status' = [status EXCEPT ![Head(fpending)] = "ready"]
  <1>1. /\ curflush' = None /\ flushoset' = None /\ NextPending
        /\ fpending \in Seq(Flushers)
        /\ status \in [Flushers -> {"pending", "ready", "cancel"}]
    BY Zenon DEF DropCurflush, LinksOK
  <1>2. CASE fpending = <<>> /\ UNCHANGED <<fpending, status>>
    BY <1>1, <1>2, Zenon DEF Once
  <1>3. CASE /\ fpending # <<>> /\ fpending' = Tail(fpending)
             /\ status' = [status EXCEPT ![Head(fpending)] = "ready"]
    <2>1. /\ Head(fpending) \in Flushers /\ Tail(fpending) \in Seq(Flushers)
          /\ Once(Tail(fpending)) /\ Head(fpending) \notin Range(Tail(fpending))
          /\ Range(fpending) = Range(Tail(fpending)) \cup {Head(fpending)}
      BY <1>1, <1>3, TailOnce, Zenon
    <2>2. status' \in [Flushers -> {"pending", "ready", "cancel"}]
      BY <1>1, <1>3, Zenon
    <2>3. Once(fpending')
      BY <1>3, <2>1, Zenon DEF Once
    <2> QED
      BY <1>1, <1>3, <2>1, <2>2, <2>3, Zenon
  <1> QED
    BY <1>1, <1>2, <1>3, Zenon DEF NextPending

LEMMA LinksStep ==
  ASSUME LinksOK, Once(fpending), Marked, [Next]_vars, ~overtaken PROVE LinksOK'
  <1>0. /\ flushlock \in Flushers \cup {None} /\ curflush \in Flushers \cup {None}
        /\ flushoset \in Osets \cup {None} /\ fpending \in Seq(Flushers)
        /\ pc \in [Flushers -> Points]
        /\ status \in [Flushers -> {"pending", "ready", "cancel"}]
        /\ kind \in [Flushers -> Osets \cup {Deliver, None}]
        /\ shut \in {"no", "disabled", "discarded", "purged"}
    BY Zenon DEF LinksOK
  <1>1. ASSUME Moves, pc' \in [Flushers -> Points], flushlock' = flushlock,
               shut' \in {"no", "disabled", "discarded", "purged"}
        PROVE  LinksOK'
    BY <1>0, <1>1, Zenon DEF Moves, LinksOK
  <1>7. CASE Others
    <2>1. flushlock' = flushlock /\ shut' \in {"no", "disabled", "discarded", "purged"}
      BY <1>0, <1>7 DEF Others, QueueDone, QueueDeref, QueueSignal, DeliverOne, WorkerExit,
                 BeginStop, DisableSend, PurgeReqs, vars
    <2> QED
      BY <1>1, <1>7, <2>1, MovingOthers, Zenon
  <1>8. ASSUME NEW f \in Flushers, Works(f)
        PROVE  LinksOK'
    <2>1. flushlock' = flushlock /\ shut' \in {"no", "disabled", "discarded", "purged"}
      BY <1>0, <1>8, Zenon DEF Works, CheckRunning, StartQ, DropRef, WaitTest,
         CleanQflush, DeliverTest, DeliverSleep, FlushDeliverStart
    <2> QED
      BY <1>1, <1>8, <2>1, MovingFlusher, Zenon
  <1>2. ASSUME NEW f \in Flushers, NEW k \in Kinds, Aquire(f, k) PROVE LinksOK'
    <2>1. k \in Osets \cup {Deliver}
      BY FlushOpsAssumption, Zenon
    <2>2. kind' \in [Flushers -> Osets \cup {Deliver, None}]
      BY <1>0, <1>2, <2>1, Zenon DEF Aquire
    <2>3. status' \in [Flushers -> {"pending", "ready", "cancel"}]
      BY <1>0, <1>2, Zenon DEF Aquire
    <2>4. UNCHANGED <<flushlock, shut>>
      BY <1>2, Zenon DEF Aquire
    <2>5. CASE Busy /\ fpending' = Append(fpending, f) /\ Goto(f, "pending")
               /\ UNCHANGED <<curflush, flushoset>>
      <3>1. fpending' \in Seq(Flushers)
        BY <1>0, <2>5, AppendElements, Zenon
      <3>2. pc' \in [Flushers -> Points]
        BY <2>5, Going, Zenon DEF Points
      <3> QED
        BY <1>0, <2>2, <2>3, <2>4, <2>5, <3>1, <3>2, Zenon DEF LinksOK
    <2>6. CASE Setup(f, k) /\ UNCHANGED fpending
      <3>1. pc' \in [Flushers -> Points]
        BY <2>6, Going, Zenon DEF Points, Setup
      <3>2. curflush' = f /\ flushoset' \in Osets \cup {None}
        BY <2>1, <2>6, Zenon DEF Setup
      <3> QED
        BY <1>0, <2>2, <2>3, <2>4, <2>6, <3>1, <3>2, Zenon DEF LinksOK
    <2> QED
      BY <1>2, <2>5, <2>6, Zenon DEF Aquire
  <1>3. ASSUME NEW f \in Flushers, Resume(f) PROVE LinksOK'
    <2>1. pc' \in [Flushers -> Points]
      BY <1>3, Going, Zenon DEF Points, Resume, Setup
    <2>2. kind[f] \in Osets \cup {Deliver}
      BY <1>3, Zenon DEF Resume, Marked
    <2>3. curflush' = f /\ flushoset' \in Osets \cup {None}
          /\ UNCHANGED <<flushlock, fpending, status, kind, shut>>
      BY <1>3, <2>2, Zenon DEF Resume, Setup
    <2> QED
      BY <1>0, <2>1, <2>3, Zenon DEF LinksOK
  <1>4. ASSUME NEW f \in Flushers, ResumeCancelled(f) PROVE LinksOK'
    <2>1. pc' \in [Flushers -> Points]
      BY <1>4, Going, Zenon DEF Points, ResumeCancelled
    <2>2. flushlock' = f /\ UNCHANGED <<curflush, flushoset, fpending, status, kind, shut>>
      BY <1>4, Zenon DEF ResumeCancelled, flushVars
    <2> QED
      BY <1>0, <2>1, <2>2, Zenon DEF LinksOK
  <1>5. ASSUME NEW f \in Flushers, GiveUp(f) \/ Drop(f) PROVE LinksOK'
    <2>1. DropCurflush /\ Goto(f, "idle") /\ UNCHANGED <<flushlock, kind, shut>>
      BY <1>5, Zenon DEF GiveUp, Drop
    <2>2. pc' \in [Flushers -> Points]
      BY <2>1, Going, Zenon DEF Points
    <2> QED
      BY <1>0, <2>1, <2>2, Dropping, Zenon DEF LinksOK
  <1>6. CASE Discard
    <2>1. pc' \in [Flushers -> Points]
      BY <1>6, Waking, Zenon DEF Discard, DiscardSignal
    <2>2. status' \in [Flushers -> {"pending", "ready", "cancel"}]
      BY <1>0, <1>6, Zenon DEF Discard
    <2>3. /\ fpending' = <<>> /\ shut' = "discarded"
          /\ UNCHANGED <<flushlock, curflush, flushoset, kind>>
      BY <1>6, Zenon DEF Discard
    <2> QED
      BY <1>0, <2>1, <2>2, <2>3 DEF LinksOK
  <1> QED
    BY <1>2, <1>3, <1>4, <1>5, <1>6, <1>7, <1>8, NextSplit, Zenon DEF Turns

-----------------------------------------------------------------------------
\* The current flush and those that wait for their turn.

Serial == LinksOK /\ OneCurrent /\ Queued

LEMMA ReleasedIs ==
  /\ \A f \in Flushers : f \in Released <=> pc[f] = "pending" /\ status[f] = "ready"
  /\ Released \subseteq Flushers
  BY Zenon DEF Released

LEMMA ReleasedIsNext ==
  /\ \A f \in Flushers : f \in Released' <=> pc'[f] = "pending" /\ status'[f] = "ready"
  /\ Released' \subseteq Flushers
  BY Zenon DEF Released

\* As long as the current flush stays the current one.
LEMMA MovesSerial == ASSUME Serial, Moves PROVE OneCurrent' /\ Queued' /\ Released' = Released
  <1>0. /\ \A f \in Flushers : curflush = f <=> Active(f)
        /\ curflush # None => Released = {}
        /\ \A f, g \in Released : f = g
    BY Zenon DEF Serial, OneCurrent, Active
  <1>1. /\ UNCHANGED <<curflush, fpending, status>>
        /\ \A f \in Flushers : pc'[f] = pc[f] \/ (Active(f) /\ Active(f)')
        /\ shut' \in {"discarded", "purged"} <=> shut \in {"discarded", "purged"}
    BY Zenon DEF Moves
  <1>2. \A f \in Flushers : Active(f)' <=> Active(f)
    BY <1>1, Zenon DEF Active
  <1>3. \A f \in Flushers : pc'[f] = "pending" <=> pc[f] = "pending"
    BY <1>1, Zenon DEF Active
  <1>4. Released' = Released
    BY <1>1, <1>3, ReleasedIs, ReleasedIsNext, Zenon
  <1>5. OneCurrent'
    BY <1>0, <1>1, <1>2, <1>4, Zenon DEF OneCurrent, Active
  <1>6. Queued'
    BY <1>1, <1>3, Zenon DEF Serial, Queued, Once
  <1> QED
    BY <1>4, <1>5, <1>6, Zenon

\* Which flush a step releases, and that it leaves one current flush.
LEMMA TurnsSerial ==
  ASSUME Serial, Turns, ~overtaken' PROVE OneCurrent' /\ Queued'
  <1>0. /\ \A f \in Flushers : curflush = f <=> pc[f] \notin {"idle", "pending"}
        /\ curflush # None => Released = {}
        /\ \A f, g \in Released : f = g
        /\ curflush \in Flushers \cup {None} /\ None \notin Flushers
        /\ fpending \in Seq(Flushers)
        /\ status \in [Flushers -> {"pending", "ready", "cancel"}]
    BY FlushOpsAssumption, Zenon DEF Serial, OneCurrent, LinksOK
  <1>q. /\ Once(fpending)
        /\ \A f \in Flushers : f \in Range(fpending) <=> status[f] = "pending"
        /\ \A f \in Flushers : status[f] = "pending" => pc[f] = "pending"
        /\ \A f \in Flushers : status[f] = "cancel" => shut \in {"discarded", "purged"}
        /\ shut \in {"discarded", "purged"} => fpending = <<>>
    BY Zenon DEF Serial, Queued
  <1>1. ASSUME NEW f \in Flushers, NEW k \in Kinds, Aquire(f, k), Busy
        PROVE OneCurrent' /\ Queued'
    <2>1. /\ fpending' = Append(fpending, f) /\ Goto(f, "pending")
          /\ UNCHANGED <<curflush, shut>> /\ pc[f] = "idle"
          /\ shut \in {"no", "disabled"} /\ status' = [status EXCEPT ![f] = "pending"]
      BY <1>1, Zenon DEF Aquire, Busy
    <2>2. pc'[f] = "pending" /\ \A g \in Flushers : g # f => pc'[g] = pc[g]
      BY <2>1, Going, Zenon DEF Serial, Points
    <2>3. status'[f] = "pending" /\ \A g \in Flushers : g # f => status'[g] = status[g]
      BY <1>0, <2>1, Zenon
    <2>4. Released' = Released
      <3>1. ASSUME NEW g \in Flushers PROVE g \in Released' <=> g \in Released
        <4>1. CASE g = f
          BY <2>1, <2>3, <4>1, ReleasedIs, ReleasedIsNext, Zenon
        <4>2. CASE g # f
          BY <2>2, <2>3, <4>2, ReleasedIs, ReleasedIsNext, Zenon
        <4> QED
          BY <4>1, <4>2, Zenon
      <3> QED
        BY <3>1, ReleasedIs, ReleasedIsNext, Zenon
    <2>5. OneCurrent'
      BY <1>0, <2>1, <2>2, <2>4, Zenon DEF OneCurrent
    <2>6. f \notin Range(fpending)
      BY <1>q, <2>1, Zenon
    <2>7. Once(fpending') /\ Range(fpending') = Range(fpending) \cup {f}
      BY <1>0, <1>q, <2>1, <2>6, AppendOnce, AppendElements
    <2>8. Queued'
      BY <1>q, <2>1, <2>2, <2>3, <2>7, Zenon DEF Queued
    <2> QED
      BY <2>5, <2>8, Zenon
  \* a flush that nobody is in the way of
  <1>2. ASSUME NEW f \in Flushers, pc[f] \in {"idle", "pending"}, Goto(f, "check"), ~Busy,
               curflush' = f, status'[f] = "ready",
               Released \subseteq {f}, UNCHANGED <<fpending, shut>>,
               \A g \in Flushers : g # f => status'[g] = status[g],
               f \notin Range(fpending)
        PROVE  OneCurrent' /\ Queued'
    <2>2. pc'[f] = "check" /\ \A g \in Flushers : g # f => pc'[g] = pc[g]
      BY <1>2, Going, Zenon DEF Serial, Points
    <2>3. Released' = {}
      BY <1>2, <2>2, ReleasedIs, ReleasedIsNext, Zenon
    <2>4. OneCurrent'
      BY <1>0, <1>2, <2>2, <2>3, Zenon DEF OneCurrent, Busy
    <2>5. Queued'
      BY <1>q, <1>2, <2>2, Zenon DEF Queued, Once
    <2> QED
      BY <2>4, <2>5, Zenon
  <1>3. ASSUME NEW f \in Flushers, NEW k \in Kinds, Aquire(f, k), ~Busy
        PROVE OneCurrent' /\ Queued'
    <2>1. /\ Goto(f, "check") /\ curflush' = f /\ UNCHANGED <<fpending, shut>> /\ pc[f] = "idle"
          /\ status' = [status EXCEPT ![f] = "ready"]
      BY <1>3, Zenon DEF Aquire, Setup
    <2>2. Released = {}
      BY <1>3, Zenon DEF Aquire
    <2>3. status'[f] = "ready" /\ \A g \in Flushers : g # f => status'[g] = status[g]
      BY <1>0, <2>1, Zenon
    <2>4. f \notin Range(fpending)
      BY <1>q, <2>1, Zenon
    <2> QED
      BY <1>2, <1>3, <2>1, <2>2, <2>3, <2>4, Zenon
  <1>4. ASSUME NEW f \in Flushers, Resume(f) PROVE OneCurrent' /\ Queued'
    <2>1. /\ Goto(f, "check") /\ curflush' = f /\ UNCHANGED <<fpending, shut, status>>
          /\ pc[f] = "pending" /\ status[f] = "ready"
      BY <1>4, Zenon DEF Resume, Setup
    <2>2. Released \subseteq {f} /\ ~Busy
      BY <1>0, <2>1, ReleasedIs, Zenon DEF Busy
    <2>3. f \notin Range(fpending)
      BY <1>q, <2>1, Zenon
    <2> QED
      BY <1>2, <2>1, <2>2, <2>3, Zenon
  <1>5. ASSUME NEW f \in Flushers, ResumeCancelled(f) PROVE OneCurrent' /\ Queued'
    <2>1. /\ Goto(f, "idle") /\ UNCHANGED <<curflush, fpending, shut, status>>
          /\ pc[f] = "pending" /\ status[f] = "cancel"
      BY <1>5, Zenon DEF ResumeCancelled, flushVars
    <2>2. pc'[f] = "idle" /\ \A g \in Flushers : g # f => pc'[g] = pc[g]
      BY <2>1, Going, Zenon DEF Serial, Points
    <2>3. Released' = Released
      BY <2>1, <2>2, ReleasedIs, ReleasedIsNext, Zenon
    <2>4. OneCurrent'
      BY <1>0, <2>1, <2>2, <2>3, Zenon DEF OneCurrent
    <2>5. Queued'
      BY <1>q, <2>1, <2>2, Zenon DEF Queued, Once
    <2> QED
      BY <2>4, <2>5
  <1>6. ASSUME NEW f \in Flushers, GiveUp(f) \/ Drop(f) PROVE OneCurrent' /\ Queued'
    <2>1. /\ pc[f] \in {"check", "drop"} /\ DropCurflush /\ Goto(f, "idle") /\ UNCHANGED shut
      BY <1>6, Zenon DEF GiveUp, Drop
    <2>2. pc'[f] = "idle" /\ \A g \in Flushers : g # f => pc'[g] = pc[g]
      BY <2>1, Going, Zenon DEF Serial, Points
    <2>3. curflush = f /\ Released = {} /\ status[f] # "pending"
      BY <1>0, <1>q, <2>1, Zenon
    <2>4. \A g \in Flushers : pc'[g] \in {"idle", "pending"}
      BY <1>0, <2>2, <2>3, Zenon
    <2>5. curflush' = None /\ Once(fpending')
      BY <1>q, <2>1, Dropping, Zenon DEF Serial
    <2>6. CASE fpending = <<>> /\ UNCHANGED <<fpending, status>>
      <3>1. Released' = {}
        BY <2>2, <2>3, <2>6, ReleasedIs, ReleasedIsNext, Zenon
      <3>2. OneCurrent'
        BY <1>0, <2>4, <2>5, <3>1, Zenon DEF OneCurrent
      <3>3. Queued'
        BY <1>q, <2>1, <2>2, <2>3, <2>5, <2>6, Zenon DEF Queued
      <3> QED
        BY <3>2, <3>3
    <2>7. CASE /\ Head(fpending) \in Flushers
               /\ Range(fpending) = Range(fpending') \cup {Head(fpending)}
               /\ Head(fpending) \notin Range(fpending')
               /\ status' = [status EXCEPT ![Head(fpending)] = "ready"]
      <3> DEFINE h == Head(fpending)
      <3>0. h \in Flushers /\ h \in Range(fpending)
        BY <2>7, Zenon
      <3>1. status'[h] = "ready" /\ \A g \in Flushers : g # h => status'[g] = status[g]
        BY <1>0, <2>7, Zenon
      <3>2. pc[h] = "pending" /\ h # f
        BY <1>q, <2>1, <3>0, Zenon
      <3>3. Released' = {h}
        BY <2>2, <2>3, <3>0, <3>1, <3>2, ReleasedIs, ReleasedIsNext, Zenon
      <3>4. OneCurrent'
        BY <1>0, <2>4, <2>5, <3>3, Zenon DEF OneCurrent
      <3>5. shut \notin {"discarded", "purged"}
        BY <1>q, <3>0, EmptyRange, Zenon
      <3>6. \A g \in Flushers : g \in Range(fpending') <=> status'[g] = "pending"
        BY <1>q, <2>7, <3>0, <3>1, Zenon
      <3>7. \A g \in Flushers : status'[g] = "pending" => pc'[g] = "pending"
        BY <1>q, <2>2, <2>3, <3>1, Zenon
      <3>8. Queued'
        BY <1>q, <2>1, <2>5, <3>1, <3>5, <3>6, <3>7, Zenon DEF Queued
      <3> QED
        BY <3>4, <3>8
    <2> QED
      BY <1>q, <2>1, <2>6, <2>7, Dropping, Zenon DEF Serial
  <1>7. CASE Discard
    <2>1. /\ fpending' = <<>> /\ shut' = "discarded" /\ curflush' = curflush /\ WakeCurrent
          /\ status' = [f \in Flushers |-> IF f \in Cancelled THEN "cancel" ELSE status[f]]
      BY <1>7, Zenon DEF Discard, DiscardSignal
    <2>2. \A f \in Flushers : pc'[f] = pc[f] \/ (pc[f] \notin {"idle", "pending"}
                                             /\ pc'[f] \notin {"idle", "pending"})
      BY <2>1, Waking, Zenon DEF Serial
    <2>3. \A f \in Flushers : status'[f] = IF f \in Cancelled THEN "cancel" ELSE status[f]
      BY <2>1, Zenon
    <2>4. \A f \in Flushers : f \in Range(fpending) => f \in Cancelled
      BY Zenon DEF Cancelled
    <2>5. Released' \subseteq Released
      BY <2>2, <2>3, ReleasedIs, ReleasedIsNext, Zenon
    <2>6. OneCurrent'
      <3>1. \A f \in Flushers : curflush' = f <=> pc'[f] \notin {"idle", "pending"}
        BY <1>0, <2>1, <2>2, Zenon
      <3>2. curflush' # None => Released' = {}
        BY <1>0, <2>1, <2>5, Zenon
      <3>3. \A f, g \in Released' : f = g
        BY <1>0, <2>5, Zenon
      <3> QED
        BY <3>1, <3>2, <3>3, Zenon DEF OneCurrent
    <2>7. \A f \in Flushers : status'[f] # "pending"
      BY <1>q, <2>3, <2>4, Zenon
    <2>8. Queued'
      BY <2>1, <2>7, EmptyRange DEF Queued, Once
    <2> QED
      BY <2>6, <2>8, Zenon
  <1> QED
    BY <1>1, <1>3, <1>4, <1>5, <1>6, <1>7, Zenon DEF Turns

-----------------------------------------------------------------------------
\* The marks on the output sets.

\* The flusher that takes a step past aquire_flush is the current one.
LEMMA Current ==
  ASSUME OneCurrent, LinksOK, NEW f \in Flushers, pc[f] \notin {"idle", "pending"}
  PROVE  /\ curflush = f /\ curflush # None /\ Released = {}
         /\ \A g \in Flushers : g # f => pc[g] \in {"idle", "pending"}
  BY FlushOpsAssumption, Zenon DEF OneCurrent

\* The parts of Marked.
KindOf(f) ==
  /\ pc[f] # "idle" => kind[f] \in Osets \cup {Deliver}
  /\ pc[f] \in {"start", "wait", "asleep", "clean"} => kind[f] \in Osets
  /\ pc[f] \in {"dstart", "dtest", "dsleep", "dasleep"} => kind[f] = Deliver

CleanOf(f) == pc[f] = "clean" => status[f] = "cancel" /\ ~osetflushing[kind[f]]

SleepOf(f) == pc[f] \in {"dsleep", "dasleep"} /\ status[f] = "ready" => dflush_counter > 0

SetOf == flushoset = IF curflush = None THEN None
                     ELSE IF kind[curflush] = Deliver THEN None ELSE kind[curflush]

MarkOf == \A o \in Osets : osetflushing[o] => flushoset = o

LEMMA MarkedParts ==
  Marked <=> (\A f \in Flushers : KindOf(f) /\ CleanOf(f) /\ SleepOf(f)) /\ SetOf /\ MarkOf
  BY Zenon DEF Marked, KindOf, CleanOf, SleepOf, SetOf, MarkOf

LEMMA MarkedPartsNext ==
  Marked' <=> (\A f \in Flushers : KindOf(f)' /\ CleanOf(f)' /\ SleepOf(f)') /\ SetOf' /\ MarkOf'
  BY Zenon DEF Marked, KindOf, CleanOf, SleepOf, SetOf, MarkOf

\* A step that leaves the marks alone, and where each flusher was or wakes up.
LEMMA MarkedStays ==
  ASSUME Marked, UNCHANGED <<curflush, flushoset, kind, status>>,
         \A o \in Osets : osetflushing'[o] => osetflushing[o],
         \A f \in Flushers : \/ pc'[f] = pc[f]
                             \/ pc'[f] \in {"wait", "start", "asleep"} /\ kind[f] \in Osets
                             \/ pc'[f] \in {"dstart", "dtest"} /\ kind[f] = Deliver
                             \/ pc'[f] = "drop" /\ pc[f] # "idle"
                             \/ pc'[f] = "idle",
         \A f \in Flushers : SleepOf(f)'
  PROVE  Marked'
  <1>1. ASSUME NEW f \in Flushers PROVE KindOf(f)' /\ CleanOf(f)'
    <2>1. KindOf(f) /\ CleanOf(f)
      BY MarkedParts, Zenon
    <2>2. KindOf(f)'
      BY <2>1, Zenon DEF KindOf
    <2>3. CASE pc'[f] = "clean"
      <3>1. pc[f] = "clean" /\ kind[f] \in Osets
        BY <2>1, <2>3, Zenon DEF KindOf
      <3> QED
        BY <2>1, <2>2, <3>1, Zenon DEF CleanOf
    <2>4. CASE pc'[f] # "clean"
      BY <2>2, <2>4, Zenon DEF CleanOf
    <2> QED
      BY <2>3, <2>4, Zenon
  <1>2. SetOf'
    BY MarkedParts, Zenon DEF SetOf
  <1>3. MarkOf'
    BY MarkedParts, Zenon DEF MarkOf
  <1> QED
    BY <1>1, <1>2, <1>3, MarkedPartsNext, Zenon

LEMMA SetupMarked ==
  ASSUME LinksOK, CountsOK, OneCurrent, Marked, ~Busy,
         NEW f \in Flushers, NEW k \in Osets \cup {Deliver}, Setup(f, k),
         pc[f] \in {"idle", "pending"}, kind'[f] = k, status'[f] = "ready",
         \A g \in Flushers : g # f => kind'[g] = kind[g] /\ status'[g] = status[g]
  PROVE  Marked'
  <1>1. pc'[f] = "check" /\ \A g \in Flushers : g # f => pc'[g] = pc[g]
    BY Going, Zenon DEF Setup, Points
  <1>2. \A g \in Flushers : pc[g] \in {"idle", "pending"}
    BY FlushOpsAssumption DEF OneCurrent, Busy
  <1>3. ASSUME NEW g \in Flushers PROVE KindOf(g)' /\ CleanOf(g)' /\ SleepOf(g)'
    <2>0. KindOf(g)
      BY MarkedParts, Zenon
    <2>1. CASE g = f
      BY <1>1, <2>1, Zenon DEF KindOf, CleanOf, SleepOf
    <2>2. CASE g # f
      BY <1>1, <1>2, <2>0, <2>2, Zenon DEF KindOf, CleanOf, SleepOf
    <2> QED
      BY <2>1, <2>2, Zenon
  <1>4. SetOf'
    BY FlushOpsAssumption, Zenon DEF Setup, SetOf
  <1>5. flushoset = None
    BY MarkedParts, Zenon DEF SetOf, Busy
  <1>6. \A o \in Osets : ~osetflushing[o]
    BY <1>5, MarkedParts, FlushOpsAssumption, Zenon DEF MarkOf
  <1>7. MarkOf'
    <2>1. CASE k = Deliver
      BY <1>6, <2>1, Zenon DEF Setup, MarkOf
    <2>2. CASE k # Deliver
      <3>1. flushoset' = k /\ osetflushing' = [osetflushing EXCEPT ![k] = TRUE]
        BY <2>2, Zenon DEF Setup
      <3>2. \A o \in Osets : o # k => osetflushing'[o] = osetflushing[o]
        BY <3>1, Zenon DEF CountsOK
      <3> QED
        BY <1>6, <3>1, <3>2, Zenon DEF MarkOf
    <2> QED
      BY <2>1, <2>2, Zenon
  <1> QED
    BY <1>3, <1>4, <1>7, MarkedPartsNext, Zenon

LEMMA MarkedTurns ==
  ASSUME Serial, CountsOK, Marked, Turns, ~overtaken' PROVE Marked'
  <1>0. /\ LinksOK /\ OneCurrent /\ None \notin Flushers
        /\ osetflushing \in [Osets -> BOOLEAN]
        /\ status \in [Flushers -> {"pending", "ready", "cancel"}]
        /\ kind \in [Flushers -> Osets \cup {Deliver, None}]
        /\ \A g \in Flushers : status[g] = "pending" => pc[g] = "pending"
    BY FlushOpsAssumption, Zenon DEF Serial, CountsOK, LinksOK, Queued
  <1>1. ASSUME NEW f \in Flushers, NEW k \in Kinds, Aquire(f, k), Busy PROVE Marked'
    <2>1. /\ Goto(f, "pending") /\ UNCHANGED <<curflush, flushoset, osetflushing, dflush_counter>>
          /\ pc[f] = "idle" /\ kind' = [kind EXCEPT ![f] = k]
          /\ status' = [status EXCEPT ![f] = "pending"]
      BY <1>1, Zenon DEF Aquire, Busy
    <2>2. pc'[f] = "pending" /\ \A g \in Flushers : g # f => pc'[g] = pc[g]
      BY <1>0, <2>1, Going, Zenon DEF Points
    <2>3. /\ kind'[f] = k /\ k \in Osets \cup {Deliver}
          /\ \A g \in Flushers : g # f => kind'[g] = kind[g] /\ status'[g] = status[g]
      BY <1>0, <2>1, FlushOpsAssumption, Zenon
    <2>4. ASSUME NEW g \in Flushers PROVE KindOf(g)' /\ CleanOf(g)' /\ SleepOf(g)'
      <3>0. KindOf(g) /\ CleanOf(g) /\ SleepOf(g)
        BY MarkedParts, Zenon
      <3>1. CASE g = f
        BY <2>2, <2>3, <3>1, Zenon DEF KindOf, CleanOf, SleepOf
      <3>2. CASE g # f
        <4>1. pc'[g] = pc[g] /\ kind'[g] = kind[g] /\ status'[g] = status[g]
          BY <2>2, <2>3, <3>2, Zenon
        <4> QED
          BY <2>1, <3>0, <4>1, Zenon DEF KindOf, CleanOf, SleepOf
      <3> QED
        BY <3>1, <3>2, Zenon
    <2>5. curflush # f /\ curflush \in Flushers
      BY <1>0, <1>1, <2>1, Zenon DEF OneCurrent, Busy, LinksOK
    <2>6. SetOf'
      BY <2>1, <2>3, <2>5, MarkedParts, Zenon DEF SetOf
    <2>7. MarkOf'
      BY <2>1, MarkedParts, Zenon DEF MarkOf
    <2> QED
      BY <2>4, <2>6, <2>7, MarkedPartsNext, Zenon
  <1>2. ASSUME NEW f \in Flushers, NEW k \in Kinds, Aquire(f, k), ~Busy PROVE Marked'
    <2>1. /\ Setup(f, k) /\ pc[f] = "idle" /\ kind' = [kind EXCEPT ![f] = k]
          /\ status' = [status EXCEPT ![f] = "ready"] /\ k \in Osets \cup {Deliver}
      BY <1>2, FlushOpsAssumption, Zenon DEF Aquire, Busy
    <2>2. /\ kind'[f] = k /\ status'[f] = "ready"
          /\ \A g \in Flushers : g # f => kind'[g] = kind[g] /\ status'[g] = status[g]
      BY <1>0, <2>1, Zenon
    <2> QED
      BY <1>0, <1>2, <2>1, <2>2, SetupMarked, Zenon
  <1>3. ASSUME NEW f \in Flushers, Resume(f) PROVE Marked'
    <2>1. /\ pc[f] = "pending" /\ status[f] = "ready" /\ Setup(f, kind[f])
          /\ UNCHANGED <<kind, status>>
      BY <1>3, Zenon DEF Resume
    <2>2. kind[f] \in Osets \cup {Deliver}
      BY <2>1, MarkedParts, Zenon DEF KindOf
    <2>3. ~Busy
      BY <1>0, <2>1, ReleasedIs, Zenon DEF OneCurrent, Busy
    <2> QED
      BY <1>0, <2>1, <2>2, <2>3, SetupMarked, Zenon
  <1>4. ASSUME NEW f \in Flushers, ResumeCancelled(f) PROVE Marked'
    <2>1. Goto(f, "idle") /\ UNCHANGED <<curflush, flushoset, kind, status, osetflushing, dflush_counter>>
      BY <1>4, Zenon DEF ResumeCancelled, flushVars, osetVars
    <2>2. pc'[f] = "idle" /\ \A g \in Flushers : g # f => pc'[g] = pc[g]
      BY <1>0, <2>1, Going, Zenon DEF Points
    <2>3. \A g \in Flushers : SleepOf(g)'
      BY <2>1, <2>2, MarkedParts, Zenon DEF SleepOf
    <2> QED
      BY <2>1, <2>2, <2>3, MarkedStays, Zenon
  <1>5. ASSUME NEW f \in Flushers, GiveUp(f) \/ Drop(f) PROVE Marked'
    <2>1. /\ pc[f] \in {"check", "drop"} /\ DropCurflush /\ Goto(f, "idle")
          /\ UNCHANGED <<kind, dflush_counter>>
      BY <1>5, Zenon DEF GiveUp, Drop
    <2>2. pc'[f] = "idle" /\ \A g \in Flushers : g # f => pc'[g] = pc[g]
      BY <1>0, <2>1, Going, Zenon DEF Points
    <2>3. \A g \in Flushers : pc'[g] \in {"idle", "pending"} /\ (pc'[g] # "idle" => pc[g] # "idle")
      BY <1>0, <2>1, <2>2, Current, Zenon
    <2>4. ASSUME NEW g \in Flushers PROVE KindOf(g)' /\ CleanOf(g)' /\ SleepOf(g)'
      BY <2>1, <2>3, MarkedParts, Zenon DEF KindOf, CleanOf, SleepOf
    <2>5. SetOf'
      BY <2>1, Zenon DEF DropCurflush, SetOf
    <2>6. ASSUME NEW o \in Osets PROVE ~osetflushing'[o]
      <3>1. osetflushing' = IF flushoset = None THEN osetflushing
                            ELSE [osetflushing EXCEPT ![flushoset] = FALSE]
        BY <2>1, Zenon DEF DropCurflush
      <3>2. osetflushing[o] => flushoset = o /\ o # None
        BY MarkedParts, FlushOpsAssumption, Zenon DEF MarkOf
      <3> QED
        BY <1>0, <3>1, <3>2, Zenon
    <2>7. MarkOf'
      BY <2>6, Zenon DEF MarkOf
    <2> QED
      BY <2>4, <2>5, <2>7, MarkedPartsNext, Zenon
  <1>6. CASE Discard
    <2>1. /\ WakeCurrent /\ UNCHANGED <<curflush, flushoset, osetflushing, dflush_counter, kind>>
          /\ status' = [g \in Flushers |-> IF g \in Cancelled THEN "cancel" ELSE status[g]]
      BY <1>6, Zenon DEF Discard, DiscardSignal, osetVars
    <2>2. ASSUME NEW g \in Flushers PROVE KindOf(g)' /\ CleanOf(g)' /\ SleepOf(g)'
      <3>0. KindOf(g) /\ CleanOf(g) /\ SleepOf(g)
        BY MarkedParts, Zenon
      <3>1. \/ pc'[g] = pc[g]
            \/ pc[g] = "asleep" /\ pc'[g] = "wait"
            \/ pc[g] = "dasleep" /\ pc'[g] = "dtest"
        BY <1>0, <2>1, Waking, Zenon
      <3>2. status'[g] = status[g] \/ status'[g] = "cancel"
        BY <2>1, Zenon
      <3>3. KindOf(g)'
        BY <2>1, <3>0, <3>1, Zenon DEF KindOf
      <3>4. CleanOf(g)'
        BY <2>1, <3>0, <3>1, <3>2, Zenon DEF CleanOf
      <3>5. SleepOf(g)'
        BY <2>1, <3>0, <3>1, <3>2, Zenon DEF SleepOf
      <3> QED
        BY <3>3, <3>4, <3>5, Zenon
    <2>3. SetOf' /\ MarkOf'
      BY <2>1, MarkedParts, Zenon DEF SetOf, MarkOf
    <2> QED
      BY <2>2, <2>3, MarkedPartsNext, Zenon
  <1> QED
    BY <1>1, <1>2, <1>3, <1>4, <1>5, <1>6, Zenon DEF Turns

LEMMA MarkedFlusher ==
  ASSUME LinksOK, CountsOK, OneCurrent, Queued, Marked, NEW f \in Flushers, Works(f)
  PROVE  Marked'
  <1>0. /\ osetflushing \in [Osets -> BOOLEAN] /\ dflush_counter \in Nat
        /\ status \in [Flushers -> {"pending", "ready", "cancel"}]
        /\ KindOf(f) /\ \A g \in Flushers : SleepOf(g)
    BY MarkedParts, Zenon DEF CountsOK, LinksOK
  <1>c. ASSUME pc[f] \notin {"idle", "pending"}
        PROVE  \A g \in Flushers : g # f => pc[g] \in {"idle", "pending"}
    BY <1>c, Current, Zenon
  \* the marks stay, the flusher goes on
  <1>1. ASSUME NEW l \in Points, Goto(f, l), pc[f] \notin {"idle", "pending"},
               UNCHANGED <<curflush, flushoset, kind, status>>,
               \A o \in Osets : osetflushing'[o] => osetflushing[o],
               \/ l \in {"wait", "start", "asleep"} /\ kind[f] \in Osets
               \/ l \in {"dstart", "dtest"} /\ kind[f] = Deliver
               \/ l = "drop"
        PROVE  Marked'
    <2>1. pc'[f] = l /\ \A g \in Flushers : g # f => pc'[g] = pc[g]
      BY <1>1, Going, Zenon
    <2>2. ASSUME NEW g \in Flushers PROVE SleepOf(g)'
      <3>1. CASE g = f
        BY <1>1, <2>1, <3>1, Zenon DEF SleepOf
      <3>2. CASE g # f
        BY <1>1, <1>c, <2>1, <3>2, Zenon DEF SleepOf
      <3> QED
        BY <3>1, <3>2, Zenon
    <2> QED
      BY <1>1, <2>1, <2>2, MarkedStays, Zenon
  <1>2. CASE CheckRunning(f)
    <2>1. /\ pc[f] = "check" /\ Goto(f, IF kind[f] = Deliver THEN "dstart" ELSE "start")
          /\ UNCHANGED <<curflush, flushoset, kind, status, osetflushing>>
      BY <1>2, Zenon DEF CheckRunning, flushVars, osetVars
    <2>2. CASE kind[f] = Deliver
      <3>1. Goto(f, "dstart")
        BY <2>1, <2>2, Zenon
      <3> QED
        BY <1>1, <2>1, <2>2, <3>1, Zenon DEF Points
    <2>3. CASE kind[f] # Deliver
      <3>1. Goto(f, "start") /\ kind[f] \in Osets
        BY <1>0, <2>1, <2>3, Zenon DEF KindOf
      <3> QED
        BY <1>1, <2>1, <3>1, Zenon DEF Points
    <2> QED
      BY <2>2, <2>3, Zenon
  <1>3. CASE \E q \in Queues : StartQ(f, q)
    <2>1. UNCHANGED <<curflush, flushoset, kind, status, osetflushing, pc, dflush_counter>>
      BY <1>3, Zenon DEF StartQ, flushVars
    <2>2. \A g \in Flushers : SleepOf(g)'
      BY <1>0, <2>1, Zenon DEF SleepOf
    <2> QED
      BY <2>1, <2>2, MarkedStays, Zenon
  <1>4. CASE DropRef(f)
    <2>1. /\ pc[f] = "start" /\ Goto(f, "wait") /\ kind[f] \in Osets
          /\ UNCHANGED <<curflush, flushoset, kind, status>>
          /\ osetflushing' = [osetflushing EXCEPT ![kind[f]] = StillFlushing(kind[f])]
      BY <1>0, <1>4, Zenon DEF DropRef, flushVars, KindOf
    <2>2. \A o \in Osets : osetflushing'[o] => osetflushing[o]
      BY <1>0, <2>1, Zenon DEF StillFlushing
    <2> QED
      BY <1>1, <2>1, <2>2, Zenon DEF Points
  <1>5. CASE WaitTest(f)
    <2>0. pc[f] = "wait" /\ kind[f] \in Osets /\ UNCHANGED <<curflush, flushoset, kind, status>>
      BY <1>0, <1>5, Zenon DEF WaitTest, flushVars, KindOf
    <2>1. CASE Goto(f, "asleep") /\ UNCHANGED osetflushing
      BY <1>1, <2>0, <2>1, Zenon DEF Points
    <2>2. CASE /\ osetflushing' = [osetflushing EXCEPT ![kind[f]] = FALSE]
               /\ Goto(f, IF status[f] = "cancel" THEN "clean" ELSE "drop")
      <3>1. \A o \in Osets : osetflushing'[o] => osetflushing[o]
        BY <1>0, <2>2, Zenon
      <3>2. CASE status[f] # "cancel"
        <4>1. Goto(f, "drop")
          BY <2>2, <3>2, Zenon
        <4> QED
          BY <1>1, <2>0, <3>1, <4>1, Zenon DEF Points
      <3>3. CASE status[f] = "cancel"
        <4>1. pc'[f] = "clean" /\ \A g \in Flushers : g # f => pc'[g] = pc[g]
          BY <2>2, <3>3, Going, Zenon DEF Points
        <4>2. ~osetflushing'[kind[f]]
          BY <1>0, <2>0, <2>2, Zenon
        <4>3. ASSUME NEW g \in Flushers PROVE KindOf(g)' /\ CleanOf(g)' /\ SleepOf(g)'
          <5>1. CASE g = f
            BY <2>0, <3>3, <4>1, <4>2, <5>1, Zenon DEF KindOf, CleanOf, SleepOf
          <5>2. CASE g # f
            <6>1. pc[g] \in {"idle", "pending"} /\ pc'[g] = pc[g] /\ KindOf(g)
              BY <1>c, <2>0, <4>1, <5>2, MarkedParts, Zenon
            <6> QED
              BY <2>0, <6>1, Zenon DEF KindOf, CleanOf, SleepOf
          <5> QED
            BY <5>1, <5>2, Zenon
        <4>4. SetOf' /\ MarkOf'
          BY <2>0, <3>1, MarkedParts, Zenon DEF SetOf, MarkOf
        <4> QED
          BY <4>3, <4>4, MarkedPartsNext, Zenon
      <3> QED
        BY <3>2, <3>3, Zenon
    <2> QED
      BY <1>5, <2>1, <2>2, Zenon DEF WaitTest, AfterWait
  <1>6. CASE CleanQflush(f)
    <2>1. /\ pc[f] = "clean" /\ Goto(f, "drop")
          /\ UNCHANGED <<curflush, flushoset, kind, status, osetflushing>>
      BY <1>6, Zenon DEF CleanQflush, flushVars
    <2> QED
      BY <1>1, <2>1, Zenon DEF Points
  <1>7. CASE \E n \in 0 .. MaxQueued : FlushDeliverStart(f, n)
    <2>1. /\ pc[f] = "dstart" /\ Goto(f, "dtest") /\ kind[f] = Deliver
          /\ UNCHANGED <<curflush, flushoset, kind, status, osetflushing>>
      BY <1>0, <1>7, Zenon DEF FlushDeliverStart, flushVars, osetVars, KindOf
    <2> QED
      BY <1>1, <2>1, Zenon DEF Points
  \* the flusher goes to sleep because it has something to wait for
  <1>8. ASSUME NEW l \in {"dsleep", "dasleep"}, Goto(f, l), pc[f] \in {"dtest", "dsleep"},
               UNCHANGED <<curflush, flushoset, kind, status, osetflushing>>,
               status[f] = "ready" => dflush_counter' > 0
        PROVE  Marked'
    <2>1. pc'[f] = l /\ \A g \in Flushers : g # f => pc'[g] = pc[g]
      BY <1>8, Going, Zenon DEF Points
    <2>2. ASSUME NEW g \in Flushers PROVE KindOf(g)' /\ CleanOf(g)' /\ SleepOf(g)'
      <3>1. CASE g = f
        <4>1. kind[f] = Deliver
          BY <1>0, <1>8, Zenon DEF KindOf
        <4>2. KindOf(f)' /\ CleanOf(f)'
          BY <1>8, <2>1, <4>1, Zenon DEF KindOf, CleanOf
        <4>3. SleepOf(f)'
          BY <1>8, <2>1, Zenon DEF SleepOf
        <4> QED
          BY <3>1, <4>2, <4>3, Zenon
      <3>2. CASE g # f
        <4>1. pc[g] \in {"idle", "pending"} /\ pc'[g] = pc[g] /\ KindOf(g)
          BY <1>8, <1>c, <2>1, <3>2, MarkedParts, Zenon
        <4> QED
          BY <1>8, <4>1, Zenon DEF KindOf, CleanOf, SleepOf
      <3> QED
        BY <3>1, <3>2, Zenon
    <2>3. SetOf' /\ MarkOf'
      BY <1>8, MarkedParts, Zenon DEF SetOf, MarkOf
    <2> QED
      BY <2>2, <2>3, MarkedPartsNext, Zenon
  <1>9. CASE DeliverTest(f)
    <2>0. pc[f] = "dtest" /\ UNCHANGED <<curflush, flushoset, kind, status, osetflushing>>
      BY <1>9, Zenon DEF DeliverTest, flushVars, osetVars
    <2>1. CASE dflush_counter > 0 /\ Goto(f, "dsleep") /\ UNCHANGED dflush_counter
      BY <1>8, <2>0, <2>1, Zenon
    <2>2. CASE Goto(f, "drop")
      BY <1>1, <2>0, <2>2, Zenon DEF Points
    <2> QED
      BY <1>9, <2>1, <2>2, Zenon DEF DeliverTest
  <1>10. CASE DeliverSleep(f)
    <2>1. /\ pc[f] = "dsleep" /\ Goto(f, "dasleep")
          /\ UNCHANGED <<curflush, flushoset, kind, status, osetflushing, dflush_counter>>
      BY <1>10, Zenon DEF DeliverSleep, flushVars, osetVars
    <2>2. status[f] = "ready" => dflush_counter' > 0
      BY <1>0, <2>1, Zenon DEF SleepOf
    <2> QED
      BY <1>8, <2>1, <2>2, Zenon
  <1> QED
    BY <1>2, <1>3, <1>4, <1>5, <1>6, <1>7, <1>9, <1>10, Zenon DEF Works

LEMMA MarkedOthers ==
  ASSUME LinksOK, CountsOK, OneCurrent, Marked, Others PROVE Marked'
  <1>0. /\ osetflushing \in [Osets -> BOOLEAN] /\ dflush_counter \in Nat
        /\ \A g \in Flushers : SleepOf(g) /\ KindOf(g)
    BY MarkedParts, Zenon DEF CountsOK
  <1>1. ASSUME UNCHANGED <<curflush, flushoset, kind, status, pc, dflush_counter>>,
               \A o \in Osets : osetflushing'[o] => osetflushing[o]
        PROVE  Marked'
    <2>1. \A g \in Flushers : SleepOf(g)'
      BY <1>0, <1>1, Zenon DEF SleepOf
    <2> QED
      BY <1>1, <2>1, MarkedStays, Zenon
  <1>2. ASSUME WakeCurrent, UNCHANGED <<curflush, flushoset, kind, status>>,
               \A o \in Osets : osetflushing'[o] => osetflushing[o],
               \A g \in Flushers : SleepOf(g)'
        PROVE  Marked'
    <2>1. ASSUME NEW g \in Flushers
          PROVE  \/ pc'[g] = pc[g]
                 \/ pc'[g] = "wait" /\ kind[g] \in Osets
                 \/ pc'[g] = "dtest" /\ kind[g] = Deliver
      <3>1. \/ pc'[g] = pc[g]
            \/ pc[g] = "asleep" /\ pc'[g] = "wait"
            \/ pc[g] = "dasleep" /\ pc'[g] = "dtest"
        BY <1>2, Waking, Zenon
      <3> QED
        BY <1>0, <3>1, Zenon DEF KindOf
    <2> QED
      BY <1>2, <2>1, MarkedStays, Zenon
  <1>3. ASSUME NEW o \in Osets, NEW q \in Queues, QueueDone(o, q) PROVE Marked'
    BY <1>1, <1>3, Zenon DEF QueueDone, flushVars
  <1>4. ASSUME NEW w \in NetThreads, QueueDeref(w) PROVE Marked'
    BY <1>1, <1>4, Zenon DEF QueueDeref, flushVars
  <1>5. ASSUME NEW w \in NetThreads, QueueSignal(w) PROVE Marked'
    <2>0. UNCHANGED <<curflush, flushoset, kind, status, dflush_counter>>
      BY <1>5, Zenon DEF QueueSignal, flushVars
    <2>1. CASE UNCHANGED <<osetflushing, pc>>
      BY <1>1, <2>0, <2>1, Zenon
    <2>2. CASE WakeCurrent /\ osetflushing' = [osetflushing EXCEPT ![net[w].oset] = FALSE]
      <3>1. \A p \in Osets : osetflushing'[p] => osetflushing[p]
        BY <1>0, <2>2, Zenon
      <3>2. ASSUME NEW g \in Flushers PROVE SleepOf(g)'
        <4>1. \/ pc'[g] = pc[g]
              \/ pc[g] = "asleep" /\ pc'[g] = "wait"
              \/ pc[g] = "dasleep" /\ pc'[g] = "dtest"
          BY <2>2, Waking, Zenon
        <4> QED
          BY <1>0, <2>0, <4>1, Zenon DEF SleepOf
      <3> QED
        BY <1>2, <2>0, <2>2, <3>1, <3>2, Zenon
    <2> QED
      BY <1>5, <2>1, <2>2, Zenon DEF QueueSignal
  <1>6. CASE DeliverOne
    <2>0. /\ UNCHANGED <<curflush, flushoset, kind, status, osetflushing>> /\ ~DeliverLocked
          /\ dflush_counter > 0 /\ dflush_counter' = dflush_counter - 1
      BY <1>6, Zenon DEF DeliverOne, CountsDelivery, flushVars, osetVars
    <2>1. CASE dflush_counter' # 0 /\ UNCHANGED pc
      <3>1. dflush_counter' > 0
        BY <1>0, <2>0, <2>1
      <3>2. \A g \in Flushers : SleepOf(g)'
        BY <3>1, Zenon DEF SleepOf
      <3> QED
        BY <2>0, <2>1, <3>2, MarkedStays, Zenon
    <2>2. CASE WakeCurrent
      <3>1. ASSUME NEW g \in Flushers PROVE pc'[g] \notin {"dsleep", "dasleep"}
        <4>1. \/ pc'[g] = pc[g]
              \/ pc[g] = "asleep" /\ pc'[g] = "wait"
              \/ pc[g] = "dasleep" /\ pc'[g] = "dtest"
          BY <2>2, Waking, Zenon
        <4>2. pc[g] # "dsleep"
          BY <2>0, Zenon DEF DeliverLocked
        <4>3. pc[g] = "dasleep" => curflush = g
          BY Zenon DEF OneCurrent
        <4>4. curflush = g => pc'[g] # "dasleep"
          BY <2>2, Waking, Zenon
        <4> QED
          BY <4>1, <4>2, <4>3, <4>4
      <3>2. \A g \in Flushers : SleepOf(g)'
        BY <3>1, Zenon DEF SleepOf
      <3> QED
        BY <1>2, <2>0, <2>2, <3>2, Zenon
    <2> QED
      BY <1>6, <2>1, <2>2, Zenon DEF DeliverOne
  <1>7. CASE (\E w \in Workers : WorkerExit(w) \/ BeginStop(w)) \/ DisableSend
    BY <1>1, <1>7, Zenon DEF WorkerExit, BeginStop, DisableSend, flushVars,
       osetVars
  <1>8. CASE PurgeReqs
    <2>1. /\ UNCHANGED <<curflush, flushoset, kind, status, pc, dflush_counter>>
          /\ osetflushing' = [o \in Osets |-> FALSE]
      BY <1>8, Zenon DEF PurgeReqs, flushVars
    <2> QED
      BY <1>1, <2>1, Zenon
  <1>9. CASE UNCHANGED vars
    BY <1>1, <1>9, Zenon DEF vars, flushVars, osetVars
  <1> QED
    BY <1>3, <1>4, <1>5, <1>6, <1>7, <1>8, <1>9, Zenon DEF Others

-----------------------------------------------------------------------------
\* The sets that are not being flushed.

\* Nothing is added to what is under way.
LEMMA QuietKept ==
  ASSUME \A o \in Osets : oqflushing'[o] \subseteq oqflushing[o],
         \A w \in NetThreads : net'[w].oset \in {net[w].oset, None},
         NEW o \in Osets, Quiet(o)
  PROVE  Quiet(o)'
  BY FlushOpsAssumption, Zenon DEF Quiet

LEMMA QuietStays ==
  ASSUME QuietSets, flushoset' = flushoset,
         shut' \in {"no", "disabled"} \/ Released' # {} =>
           shut \in {"no", "disabled"} \/ Released # {},
         \A o \in Osets \ {flushoset} : Quiet(o) => Quiet(o)'
  PROVE  QuietSets'
  BY Zenon DEF QuietSets

LEMMA QuietStep ==
  ASSUME Serial, CountsOK, Marked, QuietSets, Counted, Turns, ~overtaken'
  PROVE  QuietSets'
  <1>0. /\ LinksOK /\ OneCurrent /\ None \notin Flushers \cup Osets
        /\ shut \in {"no", "disabled", "discarded", "purged"}
        /\ fpending \in Seq(Flushers) /\ Once(fpending)
        /\ shut \in {"discarded", "purged"} => fpending = <<>>
        /\ \A g \in Flushers : status[g] = "cancel" => shut \in {"discarded", "purged"}
        /\ \A g \in Flushers : status[g] = "pending" => pc[g] = "pending"
        /\ status \in [Flushers -> {"pending", "ready", "cancel"}]
    BY FlushOpsAssumption, Zenon DEF Serial, LinksOK, Queued
  <1>1. ASSUME UNCHANGED <<oqflushing, net>>, NEW o \in Osets, Quiet(o) PROVE Quiet(o)'
    BY <1>1, Zenon DEF Quiet
  <1>2. ASSUME NEW f \in Flushers, NEW k \in Kinds, Aquire(f, k) PROVE QuietSets'
    <2>1. UNCHANGED <<oqflushing, net, shut>> /\ shut \in {"no", "disabled"}
      BY <1>2, Zenon DEF Aquire
    <2>2. CASE Busy
      <3>1. flushoset' = flushoset
        BY <1>2, <2>2, Zenon DEF Aquire
      <3> QED
        BY <1>1, <2>1, <3>1, QuietStays, Zenon
    <2>3. CASE ~Busy
      <3>1. flushoset = None
        BY <2>3, MarkedParts, Zenon DEF SetOf, Busy
      <3>2. \A o \in Osets : Quiet(o)
        BY <1>0, <2>1, <3>1, Zenon DEF QuietSets
      <3> QED
        BY <1>1, <2>1, <3>2, Zenon DEF QuietSets
    <2> QED
      BY <2>2, <2>3, Zenon
  <1>3. ASSUME NEW f \in Flushers, Resume(f) PROVE QuietSets'
    <2>1. UNCHANGED <<oqflushing, net>> /\ pc[f] = "pending" /\ status[f] = "ready"
      BY <1>3, Zenon DEF Resume
    <2>2. f \in Released
      BY <2>1, ReleasedIs, Zenon
    <2>3. flushoset = None
      BY <1>0, <2>2, MarkedParts, Zenon DEF SetOf, OneCurrent
    <2>4. \A o \in Osets : Quiet(o)
      BY <1>0, <2>2, <2>3, Zenon DEF QuietSets
    <2> QED
      BY <1>1, <2>1, <2>4, Zenon DEF QuietSets
  <1>4. ASSUME NEW f \in Flushers, ResumeCancelled(f) PROVE QuietSets'
    <2>1. UNCHANGED <<oqflushing, net, flushoset, shut, status>> /\ Goto(f, "idle")
      BY <1>4, Zenon DEF ResumeCancelled, flushVars, osetVars
    <2>2. pc'[f] = "idle" /\ \A g \in Flushers : g # f => pc'[g] = pc[g]
      BY <1>0, <2>1, Going, Zenon DEF Points
    <2>3. Released' \subseteq Released
      BY <2>1, <2>2, ReleasedIs, ReleasedIsNext, Zenon
    <2> QED
      BY <1>1, <2>1, <2>3, QuietStays, Zenon
  <1>5. ASSUME NEW f \in Flushers, GiveUp(f) \/ Drop(f) PROVE QuietSets'
    <2>1. /\ pc[f] \in {"check", "drop"} /\ DropCurflush /\ Goto(f, "idle")
          /\ UNCHANGED <<oqflushing, net, shut, kind>>
      BY <1>5, Zenon DEF GiveUp, Drop
    <2>2. pc'[f] = "idle" /\ \A g \in Flushers : g # f => pc'[g] = pc[g]
      BY <1>0, <2>1, Going, Zenon DEF Points
    <2>3. curflush = f /\ Released = {}
      BY <1>0, <2>1, Current, Zenon
    <2>4. CASE shut \in {"discarded", "purged"}
      <3>1. UNCHANGED status
        <4>1. fpending = <<>>
          BY <1>0, <2>4, Zenon
        <4> QED
          BY <2>1, <4>1, Zenon DEF DropCurflush, NextPending
      <3>2. Released' = {}
        BY <2>2, <2>3, <3>1, ReleasedIs, ReleasedIsNext, Zenon
      <3> QED
        BY <2>1, <2>4, <3>2, Zenon DEF QuietSets
    <2>5. CASE shut \in {"no", "disabled"}
      <3>1. status[f] = "ready"
        BY <1>0, <2>1, <2>5, Zenon
      <3>2. ASSUME NEW o \in Osets PROVE Quiet(o)
        <4>1. CASE o # flushoset
          BY <2>5, <4>1, Zenon DEF QuietSets
        <4>2. CASE o = flushoset
          <5>1. kind[f] = o /\ kind[f] # Deliver
            BY <1>0, <2>3, <4>2, MarkedParts, FlushOpsAssumption, Zenon DEF
               SetOf
          <5> QED
            BY <2>1, <2>5, <3>1, <5>1, Zenon DEF Counted
        <4> QED
          BY <4>1, <4>2, Zenon
      <3> QED
        BY <1>1, <2>1, <3>2, Zenon DEF QuietSets
    <2> QED
      BY <1>0, <2>4, <2>5, Zenon
  <1>6. CASE Discard
    <2>1. /\ WakeCurrent /\ UNCHANGED <<oqflushing, net, flushoset>>
          /\ status' = [g \in Flushers |-> IF g \in Cancelled THEN "cancel" ELSE status[g]]
          /\ shut = "disabled"
      BY <1>6, Zenon DEF Discard, DiscardSignal, osetVars
    <2> QED
      BY <1>1, <2>1, QuietStays, Zenon
  <1> QED
    BY <1>2, <1>3, <1>4, <1>5, <1>6, Zenon DEF Turns

\* The current flush and the network threads only work on flushoset.
LEMMA QuietMoves ==
  ASSUME Serial, CountsOK, Marked, QuietSets, Others \/ \E f \in Flushers : Works(f)
  PROVE  QuietSets'
  <1>m. Moves
    BY MovingOthers, MovingFlusher, Zenon DEF Serial
  <1>0. /\ LinksOK /\ OneCurrent /\ Released' = Released
        /\ shut \in {"no", "disabled", "discarded", "purged"}
        /\ oqflushing \in [Osets -> SUBSET Queues]
        /\ net \in [NetThreads -> [at : {"idle", "deref", "signal"}, oset : Osets \cup {None}]]
        /\ None \notin Osets
    BY <1>m, MovesSerial, FlushOpsAssumption, Zenon DEF Serial, LinksOK,
       CountsOK
  <1>1. ASSUME \A o \in Osets \ {flushoset} : Quiet(o) => Quiet(o)',
               shut' = shut \/ shut' = "purged" \/ shut = "no"
        PROVE  QuietSets'
    BY <1>0, <1>1, <1>m, QuietStays, Zenon DEF Moves
  <1>2. ASSUME UNCHANGED <<oqflushing, net>>, shut' = shut \/ shut = "no" PROVE QuietSets'
    BY <1>1, <1>2, Zenon DEF Quiet
  \* the queues of the current flush's set
  <1>3. ASSUME NEW f \in Flushers, pc[f] \in {"start", "clean"},
               \A o \in Osets : o # kind[f] => oqflushing'[o] = oqflushing[o],
               UNCHANGED <<net, shut>>
        PROVE  QuietSets'
    <2>1. curflush = f /\ f # None
      BY <1>0, <1>3, Current, Zenon
    <2>2. kind[f] \in Osets
      BY <1>3, MarkedParts, Zenon DEF KindOf
    <2>3. flushoset = kind[f]
      BY <2>1, <2>2, MarkedParts, FlushOpsAssumption, Zenon DEF SetOf
    <2>4. ASSUME NEW o \in Osets \ {flushoset}, Quiet(o) PROVE Quiet(o)'
      BY <1>3, <2>3, <2>4, Zenon DEF Quiet
    <2> QED
      BY <1>1, <1>3, <2>4, Zenon
  <1>4. ASSUME NEW f \in Flushers, Works(f)
        PROVE  QuietSets'
    <2>1. CASE \E q \in Queues : StartQ(f, q)
      <3>1. pc[f] = "start" /\ UNCHANGED <<net, shut>>
        BY <2>1, Zenon DEF StartQ
      <3>2. \A o \in Osets : o # kind[f] => oqflushing'[o] = oqflushing[o]
        BY <1>0, <2>1, Zenon DEF StartQ
      <3> QED
        BY <1>3, <3>1, <3>2, Zenon
    <2>2. CASE CleanQflush(f)
      <3>1. pc[f] = "clean" /\ UNCHANGED <<net, shut>>
        BY <2>2, Zenon DEF CleanQflush
      <3>2. \A o \in Osets : o # kind[f] => oqflushing'[o] = oqflushing[o]
        BY <1>0, <2>2, Zenon DEF CleanQflush
      <3> QED
        BY <1>3, <3>1, <3>2, Zenon
    <2>3. CASE CheckRunning(f) \/ DropRef(f) \/ WaitTest(f) \/ DeliverTest(f) \/ DeliverSleep(f)
               \/ \E n \in 0 .. MaxQueued : FlushDeliverStart(f, n)
      BY <1>2, <2>3, Zenon DEF CheckRunning, DropRef, WaitTest, DeliverTest,
         DeliverSleep, FlushDeliverStart, osetVars
    <2> QED
      BY <1>4, <2>1, <2>2, <2>3, Zenon DEF Works
  <1>5. ASSUME NEW o \in Osets, NEW q \in Queues, QueueDone(o, q) PROVE QuietSets'
    <2>1. /\ q \in oqflushing[o] /\ oqflushing' = [oqflushing EXCEPT ![o] = @ \ {q}]
          /\ net' = [net EXCEPT ![WorkerOf(o)] = [at |-> "deref", oset |-> o]] /\ shut' = shut
      BY <1>5, Zenon DEF QueueDone
    <2>2. ASSUME NEW p \in Osets, Quiet(p) PROVE Quiet(p)'
      <3>1. p # o
        BY <2>1, <2>2, Zenon DEF Quiet
      <3>2. oqflushing'[p] = oqflushing[p]
        BY <1>0, <2>1, <3>1, Zenon
      <3>3. \A w \in NetThreads : net'[w].oset \in {net[w].oset, o}
        BY <1>0, <2>1, Zenon
      <3> QED
        BY <2>2, <3>1, <3>2, <3>3, Zenon DEF Quiet
    <2> QED
      BY <1>1, <2>1, <2>2, Zenon
  <1>6. ASSUME NEW w \in NetThreads, QueueDeref(w) \/ QueueSignal(w) PROVE QuietSets'
    <2>1. /\ UNCHANGED <<oqflushing, shut>>
          /\ \/ net' = [net EXCEPT ![w] = [at |-> "signal", oset |-> net[w].oset]]
             \/ net' = [net EXCEPT ![w] = [at |-> "idle", oset |-> None]]
      BY <1>6, Zenon DEF QueueDeref, QueueSignal
    <2>2. \A v \in NetThreads : net'[v].oset \in {net[v].oset, None}
      BY <1>0, <2>1
    <2>3. ASSUME NEW p \in Osets, Quiet(p) PROVE Quiet(p)'
      BY <2>1, <2>2, <2>3, QuietKept, Zenon
    <2> QED
      BY <1>1, <2>1, <2>3, Zenon
  <1>7. CASE PurgeReqs
    <2>1. shut' = "purged" /\ net' = net /\ oqflushing' = [o \in Osets |-> {}]
      BY <1>7, Zenon DEF PurgeReqs
    <2> QED
      BY <1>1, <2>1, Zenon DEF Quiet
  <1>8. CASE DeliverOne \/ (\E w \in Workers : WorkerExit(w) \/ BeginStop(w)) \/ DisableSend
             \/ UNCHANGED vars
    BY <1>2, <1>8, Zenon DEF DeliverOne, WorkerExit, BeginStop, DisableSend,
       vars, osetVars
  <1>9. CASE Others
    BY <1>5, <1>6, <1>7, <1>8, <1>9, Zenon DEF Others
  <1> QED
    BY <1>4, <1>9, Zenon

-----------------------------------------------------------------------------
\* The references of the current flush.

CountOf(f) ==
  /\ pc[f] = "check" /\ kind[f] # Deliver =>
       Quiet(kind[f]) /\ oqflush_counter[kind[f]] = 1
         /\ (shut # "purged" => osetflushing[kind[f]])
  /\ pc[f] = "start" => Starting(f)
  /\ pc[f] \in {"wait", "asleep"} => Waiting(f)
  /\ pc[f] = "drop" /\ status[f] = "ready" /\ kind[f] # Deliver /\ shut # "purged" =>
       Quiet(kind[f])

LEMMA CountedParts == Counted <=> \A f \in Flushers : CountOf(f)
  BY Zenon DEF Counted, CountOf

LEMMA CountedNext == Counted' <=> \A f \in Flushers : CountOf(f)'
  BY Zenon DEF Counted, CountOf

\* Nothing is counted for a flusher that is not, or not yet, the current one,
\* nor for a flush of the delivery queue.
LEMMA CountOfIdle ==
  ASSUME NEW f \in Flushers, pc'[f] \in {"idle", "pending", "clean"}
  PROVE  CountOf(f)'
  BY Zenon DEF CountOf

LEMMA CountOfDeliver ==
  ASSUME NEW f \in Flushers, kind'[f] = Deliver, pc'[f] \notin {"start", "wait", "asleep"}
  PROVE  CountOf(f)'
  BY Zenon DEF CountOf

\* Nothing changes about a set.
SetSame(o) ==
  /\ oqflushing'[o] = oqflushing[o] /\ oqflush_counter'[o] = oqflush_counter[o]
  /\ osetflushing'[o] = osetflushing[o]
  /\ \A l \in {"deref", "signal"} : At(o, l)' <=> At(o, l)
  /\ Quiet(o) => Quiet(o)'

LEMMA CountOfSame ==
  ASSUME NEW f \in Flushers, CountOf(f), SetSame(kind[f]), kind'[f] = kind[f],
         rem'[f] = rem[f], shut' = "purged" <=> shut = "purged",
         pc'[f] = pc[f] \/ (pc[f] = "asleep" /\ pc'[f] = "wait"),
         status'[f] = status[f] \/ (status'[f] = "cancel" /\ pc'[f] # "asleep")
  PROVE  CountOf(f)'
  <1> DEFINE o == kind[f]
  <1>1. Deref(o)' = Deref(o)
    BY Zenon DEF SetSame, Deref
  <1>2. CASE pc'[f] = "check"
    BY <1>2, Zenon DEF CountOf, SetSame
  <1>3. CASE pc'[f] = "start"
    <2>1. Starting(f)
      BY <1>3, Zenon DEF CountOf
    <2> QED
      BY <1>1, <1>3, <2>1, Zenon DEF CountOf, SetSame, Starting
  <1>4. CASE pc'[f] \in {"wait", "asleep"}
    <2>1. Waiting(f)
      BY <1>4, Zenon DEF CountOf
    <2>2. Waiting(f)'
      BY <1>1, <1>4, <2>1, Zenon DEF SetSame, Waiting
    <2> QED
      BY <1>4, <2>2, Zenon DEF CountOf
  <1>5. CASE pc'[f] = "drop"
    BY <1>5, Zenon DEF CountOf, SetSame
  <1>6. CASE pc'[f] \notin {"check", "start", "wait", "asleep", "drop"}
    BY <1>6, Zenon DEF CountOf
  <1> QED
    BY <1>2, <1>3, <1>4, <1>5, <1>6, Zenon

LEMMA SetUntouched ==
  ASSUME NEW o, UNCHANGED <<oqflushing, oqflush_counter, osetflushing, net>>
  PROVE  SetSame(o)
  BY Zenon DEF SetSame, At, Quiet

\* What is under way of a set is in its queues or in its network thread.
LEMMA QuietIf ==
  ASSUME CountsOK, NEW o \in Osets, oqflushing[o] = {}, ~At(o, "deref"), ~At(o, "signal")
  PROVE  Quiet(o)
  <1>1. ASSUME NEW w \in NetThreads, net[w].oset = o PROVE FALSE
    <2>1. /\ net[w] \in [at : {"idle", "deref", "signal"}, oset : Osets \cup {None}]
          /\ IF net[w].at = "idle" THEN net[w].oset = None
             ELSE net[w].oset \in Osets /\ WorkerOf(net[w].oset) = w
      BY Zenon DEF CountsOK
    <2>2. net[w].at # "idle"
      BY <1>1, <2>1, FlushOpsAssumption, Zenon
    <2>3. net[w].at \in {"deref", "signal"} /\ WorkerOf(o) = w
      BY <1>1, <2>1, <2>2, Zenon
    <2> QED
      BY <1>1, <2>3, Zenon DEF At
  <1> QED
    BY <1>1, Zenon DEF Quiet

LEMMA QuietMeans ==
  ASSUME NEW o \in Osets, Quiet(o)
  PROVE  oqflushing[o] = {} /\ ~At(o, "deref") /\ ~At(o, "signal") /\ Deref(o) = 0
  BY NetOf, Zenon DEF Quiet, At, Deref

LEMMA CountedTurns ==
  ASSUME Serial, CountsOK, Marked, QuietSets, Counted, Turns, ~overtaken'
  PROVE  Counted'
  <1>0. /\ LinksOK /\ OneCurrent
        /\ osetflushing \in [Osets -> BOOLEAN] /\ oqflush_counter \in [Osets -> Int]
        /\ kind \in [Flushers -> Osets \cup {Deliver, None}]
    BY Zenon DEF Serial, LinksOK, CountsOK
  <1>1. ASSUME NEW f \in Flushers, NEW k \in Osets \cup {Deliver}, Setup(f, k), kind'[f] = k,
               \A g \in Flushers : pc[g] \in {"idle", "pending"},
               UNCHANGED <<oqflushing, net>>, k \in Osets => Quiet(k)
        PROVE  Counted'
    <2>1. pc'[f] = "check" /\ \A g \in Flushers : g # f => pc'[g] = pc[g]
      BY <1>0, <1>1, Going, Zenon DEF Setup, Points
    <2>2. CountOf(f)'
      <3>1. CASE k = Deliver
        BY <1>1, <2>1, <3>1, CountOfDeliver, Zenon
      <3>2. CASE k \in Osets
        <4>1. /\ osetflushing' = [osetflushing EXCEPT ![k] = TRUE]
              /\ oqflush_counter' = [oqflush_counter EXCEPT ![k] = 1]
          BY <1>1, <3>2, FlushOpsAssumption, Zenon DEF Setup, SetupRefs
        <4>2. osetflushing'[k] /\ oqflush_counter'[k] = 1
          BY <1>0, <3>2, <4>1, Zenon
        <4>3. Quiet(k)'
          BY <1>1, <3>2, Zenon DEF Quiet
        <4> QED
          BY <1>1, <2>1, <4>2, <4>3, Zenon DEF CountOf
      <3> QED
        BY <1>1, <3>1, <3>2, Zenon
    <2>3. ASSUME NEW g \in Flushers, g # f PROVE CountOf(g)'
      BY <1>1, <2>1, <2>3, CountOfIdle, Zenon
    <2> QED
      BY <2>2, <2>3, CountedNext, Zenon
  <1>2. ASSUME NEW f \in Flushers, NEW k \in Kinds, Aquire(f, k) PROVE Counted'
    <2>0. k \in Osets \cup {Deliver}
      BY FlushOpsAssumption, Zenon
    <2>1. /\ UNCHANGED <<oqflushing, net, shut, rem>> /\ shut \in {"no", "disabled"}
          /\ pc[f] = "idle" /\ kind' = [kind EXCEPT ![f] = k]
          /\ status' = [status EXCEPT ![f] = IF Busy THEN "pending" ELSE "ready"]
      BY <1>2, Zenon DEF Aquire
    <2>2. CASE Busy
      <3>1. UNCHANGED <<osetflushing, oqflush_counter>> /\ Goto(f, "pending")
        BY <1>2, <2>2, Zenon DEF Aquire
      <3>2. pc'[f] = "pending" /\ \A g \in Flushers : g # f => pc'[g] = pc[g]
        BY <1>0, <3>1, Going, Zenon DEF Points
      <3>3. ASSUME NEW g \in Flushers, g # f PROVE CountOf(g)'
        <4>1. CountOf(g) /\ SetSame(kind[g])
          BY <2>1, <3>1, SetUntouched, CountedParts, Zenon
        <4>2. kind'[g] = kind[g] /\ status'[g] = status[g]
          BY <2>1, <3>3, Zenon DEF Serial, LinksOK
        <4> QED
          BY <2>1, <3>2, <3>3, <4>1, <4>2, CountOfSame, Zenon
      <3> QED
        BY <3>2, <3>3, CountOfIdle, CountedNext, Zenon
    <2>3. CASE ~Busy
      <3>1. flushoset = None /\ \A g \in Flushers : pc[g] \in {"idle", "pending"}
        BY <1>0, <2>3, MarkedParts, FlushOpsAssumption DEF SetOf, Busy, OneCurrent
      <3>2. \A o \in Osets : Quiet(o)
        BY <2>1, <3>1, FlushOpsAssumption, Zenon DEF QuietSets
      <3>3. Setup(f, k) /\ kind'[f] = k
        BY <1>0, <1>2, <2>1, <2>3, Zenon DEF Aquire
      <3> QED
        BY <1>1, <2>0, <2>1, <3>1, <3>2, <3>3, Zenon
    <2> QED
      BY <2>2, <2>3, Zenon
  <1>3. ASSUME NEW f \in Flushers, Resume(f) PROVE Counted'
    <2>1. /\ UNCHANGED <<oqflushing, net, kind>> /\ pc[f] = "pending" /\ status[f] = "ready"
          /\ Setup(f, kind[f])
      BY <1>3, Zenon DEF Resume
    <2>2. f \in Released
      BY <2>1, ReleasedIs, Zenon
    <2>3. flushoset = None /\ curflush = None /\ curflush \notin Flushers
      BY <2>2, MarkedParts, FlushOpsAssumption, Zenon DEF SetOf, OneCurrent,
         Serial
    <2>4. \A o \in Osets : Quiet(o)
      BY <2>2, <2>3, FlushOpsAssumption, Zenon DEF QuietSets
    <2>5. \A g \in Flushers : pc[g] \in {"idle", "pending"}
      BY <1>0, <2>3, Zenon DEF OneCurrent
    <2>6. kind[f] \in Osets \cup {Deliver}
      BY <2>1, MarkedParts, Zenon DEF KindOf
    <2> QED
      BY <1>1, <2>1, <2>4, <2>5, <2>6, Zenon
  <1>4. ASSUME NEW f \in Flushers, ResumeCancelled(f) PROVE Counted'
    <2>1. /\ UNCHANGED <<oqflushing, oqflush_counter, osetflushing, net, rem, kind, status, shut>>
          /\ Goto(f, "idle")
      BY <1>4, Zenon DEF ResumeCancelled, osetVars
    <2>2. pc'[f] = "idle" /\ \A g \in Flushers : g # f => pc'[g] = pc[g]
      BY <1>0, <2>1, Going, Zenon DEF Points
    <2>3. ASSUME NEW g \in Flushers, g # f PROVE CountOf(g)'
      <3>1. CountOf(g) /\ SetSame(kind[g])
        BY <2>1, SetUntouched, CountedParts, Zenon
      <3> QED
        BY <2>1, <2>2, <2>3, <3>1, CountOfSame, Zenon
    <2> QED
      BY <2>2, <2>3, CountOfIdle, CountedNext, Zenon
  <1>5. ASSUME NEW f \in Flushers, GiveUp(f) \/ Drop(f) PROVE Counted'
    <2>1. pc[f] \in {"check", "drop"} /\ Goto(f, "idle")
      BY <1>5, Zenon DEF GiveUp, Drop
    <2>2. pc'[f] = "idle" /\ \A g \in Flushers : g # f => pc'[g] = pc[g]
      BY <1>0, <2>1, Going, Zenon DEF Points
    <2>3. \A g \in Flushers : g # f => pc[g] \in {"idle", "pending"}
      BY <1>0, <2>1, Current, Zenon
    <2> QED
      BY <2>2, <2>3, CountOfIdle, CountedNext, Zenon
  <1>6. CASE Discard
    <2>1. /\ WakeCurrent
          /\ UNCHANGED <<oqflushing, oqflush_counter, osetflushing, net, kind, rem>>
          /\ status' = [g \in Flushers |-> IF g \in Cancelled THEN "cancel" ELSE status[g]]
          /\ shut = "disabled" /\ shut' = "discarded"
      BY <1>6, Zenon DEF Discard, DiscardSignal, osetVars
    <2>2. ASSUME NEW g \in Flushers PROVE CountOf(g)'
      <3>1. CountOf(g) /\ SetSame(kind[g])
        BY <2>1, SetUntouched, CountedParts, Zenon
      <3>2. /\ \/ pc'[g] = pc[g]
               \/ pc[g] = "asleep" /\ pc'[g] = "wait"
               \/ pc[g] = "dasleep" /\ pc'[g] = "dtest"
            /\ curflush = g => pc'[g] # "asleep"
        BY <1>0, <2>1, Waking, Zenon
      <3>3. CASE pc'[g] = "dtest"
        BY <3>3, Zenon DEF CountOf
      <3>4. CASE pc'[g] # "dtest"
        <4>1. pc'[g] = pc[g] \/ (pc[g] = "asleep" /\ pc'[g] = "wait")
          BY <3>2, <3>4, Zenon
        <4>2. pc'[g] # "asleep"
          BY <1>0, <3>2, Zenon DEF OneCurrent
        <4>3. status'[g] = status[g] \/ status'[g] = "cancel"
          BY <2>1, Zenon
        <4> QED
          BY <2>1, <3>1, <4>1, <4>2, <4>3, CountOfSame, Zenon
      <3> QED
        BY <3>3, <3>4, Zenon
    <2> QED
      BY <2>2, CountedNext, Zenon
  <1> QED
    BY <1>2, <1>3, <1>4, <1>5, <1>6, Zenon DEF Turns

LEMMA CountNat == ASSUME NEW S, IsFiniteSet(S) PROVE Cardinality(S) \in Nat
  BY FS_CardinalityType, Zenon

LEMMA CountZero ==
  ASSUME NEW S, IsFiniteSet(S) PROVE Cardinality(S) = 0 <=> S = {}
  BY FS_EmptySet, Zenon

LEMMA CountAdd ==
  ASSUME NEW S, IsFiniteSet(S), NEW q, q \notin S
  PROVE  /\ IsFiniteSet(S \cup {q}) /\ Cardinality(S \cup {q}) = Cardinality(S) + 1
         /\ Cardinality(S) \in Nat
  BY FS_AddElement, FS_CardinalityType, Zenon

LEMMA CountRemove ==
  ASSUME NEW S, IsFiniteSet(S), NEW q, q \in S
  PROVE  /\ IsFiniteSet(S \ {q}) /\ Cardinality(S \ {q}) = Cardinality(S) - 1
         /\ Cardinality(S) \in Nat /\ Cardinality(S \ {q}) \in Nat
  BY FS_RemoveElement, FS_CardinalityType, Zenon

LEMMA CountsStep ==
  ASSUME LinksOK, CountsOK, Marked, [Next]_vars, ~overtaken PROVE CountsOK'
  <1> DEFINE Net == [at : {"idle", "deref", "signal"}, oset : Osets \cup {None}]
             NetOK(n, w) == IF n.at = "idle" THEN n.oset = None
                            ELSE n.oset \in Osets /\ WorkerOf(n.oset) = w
  <1>0. /\ osetflushing \in [Osets -> BOOLEAN] /\ oqflush_counter \in [Osets -> Int]
        /\ oqflushing \in [Osets -> SUBSET Queues]
        /\ \A o \in Osets : IsFiniteSet(oqflushing[o])
        /\ rem \in [Flushers -> SUBSET Queues] /\ dflush_counter \in Nat
        /\ net \in [NetThreads -> Net] /\ \A w \in NetThreads : NetOK(net[w], w)
    BY Zenon DEF CountsOK
  <1>f. /\ \A f \in Flushers : pc[f] # "idle" => kind[f] \in Osets \cup {Deliver}
        /\ \A f \in Flushers : pc[f] \in {"start", "wait", "asleep", "clean"} => kind[f] \in Osets
        /\ flushoset \in Osets \cup {None}
    BY Zenon DEF Marked, LinksOK
  <1>1. ASSUME UNCHANGED <<osetflushing, oqflush_counter, oqflushing, rem, dflush_counter, net>>
        PROVE  CountsOK'
    BY <1>0, <1>1 DEF CountsOK
  <1>2. ASSUME NEW f \in Flushers, NEW k \in Osets \cup {Deliver}, Setup(f, k),
               UNCHANGED <<oqflushing, rem, dflush_counter, net>>
        PROVE  CountsOK'
    <2>1. osetflushing' \in [Osets -> BOOLEAN] /\ oqflush_counter' \in [Osets -> Int]
      <3>1. CASE k = Deliver
        BY <1>0, <1>2, <3>1, Zenon DEF Setup
      <3>2. CASE k # Deliver
        <4>1. /\ k \in Osets /\ osetflushing' = [osetflushing EXCEPT ![k] = TRUE]
              /\ oqflush_counter' = [oqflush_counter EXCEPT ![k] = 1]
          BY <1>2, <3>2, Zenon DEF Setup, SetupRefs
        <4> QED
          BY <1>0, <4>1
      <3> QED
        BY <3>1, <3>2, Zenon
    <2> QED
      BY <1>0, <1>2, <2>1 DEF CountsOK
  <1>3. ASSUME NEW f \in Flushers, NEW k \in Kinds, Aquire(f, k) PROVE CountsOK'
    <2>1. k \in Osets \cup {Deliver}
      BY FlushOpsAssumption, Zenon
    <2>2. UNCHANGED <<oqflushing, rem, dflush_counter, net>>
          /\ (Setup(f, k) \/ UNCHANGED <<osetflushing, oqflush_counter>>)
      BY <1>3, Zenon DEF Aquire
    <2> QED
      BY <1>1, <1>2, <2>1, <2>2, Zenon
  <1>4. ASSUME NEW f \in Flushers, Resume(f) PROVE CountsOK'
    BY <1>2, <1>4, <1>f DEF Resume
  <1>5. ASSUME NEW f \in Flushers, ResumeCancelled(f) PROVE CountsOK'
    BY <1>1, <1>5, Zenon DEF ResumeCancelled, osetVars
  <1>6. ASSUME NEW f \in Flushers, GiveUp(f) \/ Drop(f) PROVE CountsOK'
    <2>1. DropCurflush /\ UNCHANGED <<oqflush_counter, oqflushing, rem, dflush_counter, net>>
      BY <1>6, Zenon DEF GiveUp, Drop
    <2>2. osetflushing' \in [Osets -> BOOLEAN]
      BY <1>0, <2>1, Zenon DEF DropCurflush
    <2> QED
      BY <1>0, <2>1, <2>2 DEF CountsOK
  <1>7. CASE Discard
    BY <1>1, <1>7, Zenon DEF Discard, osetVars
  <1>8. ASSUME NEW f \in Flushers, CheckRunning(f) PROVE CountsOK'
    <2>1. rem' \in [Flushers -> SUBSET Queues]
      BY <1>0, <1>8, Zenon DEF CheckRunning
    <2> QED
      BY <1>0, <1>8, <2>1 DEF CheckRunning, CountsOK, osetVars
  <1>9. ASSUME NEW f \in Flushers, NEW q \in Queues, StartQ(f, q) PROVE CountsOK'
    <2>1. kind[f] \in Osets /\ UNCHANGED <<osetflushing, dflush_counter, net>>
      BY <1>9, <1>f, Zenon DEF StartQ
    <2>2. rem' \in [Flushers -> SUBSET Queues]
      BY <1>0, <1>9, Zenon DEF StartQ
    <2>3. oqflush_counter' \in [Osets -> Int]
      BY <1>0, <1>9, <2>1 DEF StartQ
    <2>4. \/ oqflushing' = oqflushing
          \/ oqflushing' = [oqflushing EXCEPT ![kind[f]] = @ \cup {q}]
      BY <1>9, Zenon DEF StartQ
    <2>5. IsFiniteSet(oqflushing[kind[f]] \cup {q})
      BY <1>0, <2>1, FS_AddElement, Zenon
    <2>6. /\ oqflushing' \in [Osets -> SUBSET Queues]
          /\ \A o \in Osets : IsFiniteSet(oqflushing'[o])
      <3>1. CASE oqflushing' = oqflushing
        BY <1>0, <3>1, Zenon
      <3>2. CASE oqflushing' = [oqflushing EXCEPT ![kind[f]] = @ \cup {q}]
        <4>1. oqflushing' \in [Osets -> SUBSET Queues]
          BY <1>0, <2>1, <3>2, Zenon
        <4>2. ASSUME NEW o \in Osets PROVE IsFiniteSet(oqflushing'[o])
          <5>1. oqflushing'[o] = IF o = kind[f] THEN oqflushing[kind[f]] \cup {q}
                                 ELSE oqflushing[o]
            BY <1>0, <2>1, <3>2, Zenon
          <5> QED
            BY <1>0, <2>5, <5>1, Zenon
        <4> QED
          BY <4>1, <4>2, Zenon
      <3> QED
        BY <2>4, <3>1, <3>2, Zenon
    <2> QED
      BY <1>0, <2>1, <2>2, <2>3, <2>6 DEF CountsOK
  <1>10. ASSUME NEW f \in Flushers, DropRef(f) PROVE CountsOK'
    <2>1. kind[f] \in Osets /\ UNCHANGED <<oqflushing, rem, dflush_counter, net>>
      BY <1>10, <1>f, Zenon DEF DropRef
    <2>2. oqflush_counter' \in [Osets -> Int]
      BY <1>0, <1>10, <2>1 DEF DropRef
    <2>3. StillFlushing(kind[f]) \in BOOLEAN
      BY Zenon DEF StillFlushing
    <2>4. osetflushing' \in [Osets -> BOOLEAN]
      BY <1>0, <1>10, <2>1, <2>3, Zenon DEF DropRef
    <2> QED
      BY <1>0, <2>1, <2>2, <2>4 DEF CountsOK
  <1>11. ASSUME NEW f \in Flushers, WaitTest(f) PROVE CountsOK'
    <2>1. kind[f] \in Osets /\ UNCHANGED <<oqflush_counter, oqflushing, rem, dflush_counter, net>>
      BY <1>11, <1>f, Zenon DEF WaitTest
    <2>2. osetflushing' \in [Osets -> BOOLEAN]
      BY <1>0, <1>11, <2>1, Zenon DEF WaitTest, AfterWait
    <2> QED
      BY <1>0, <2>1, <2>2, Zenon DEF CountsOK
  <1>12. ASSUME NEW f \in Flushers, CleanQflush(f) PROVE CountsOK'
    <2>1. kind[f] \in Osets /\ UNCHANGED <<osetflushing, rem, dflush_counter, net>>
      BY <1>12, <1>f, Zenon DEF CleanQflush
    <2>2. oqflush_counter' \in [Osets -> Int]
      BY <1>0, <1>12, <2>1 DEF CleanQflush
    <2>3. /\ oqflushing' \in [Osets -> SUBSET Queues]
          /\ \A o \in Osets : IsFiniteSet(oqflushing'[o])
      BY <1>0, <1>12, <2>1, FS_EmptySet, Zenon DEF CleanQflush
    <2> QED
      BY <1>0, <2>1, <2>2, <2>3 DEF CountsOK
  <1>13. ASSUME NEW f \in Flushers, NEW n \in 0 .. MaxQueued,
                DeliverTest(f) \/ DeliverSleep(f) \/ FlushDeliverStart(f, n)
         PROVE  CountsOK'
    <2>1. UNCHANGED <<osetflushing, oqflush_counter, oqflushing, rem, net>>
      BY <1>13, Zenon DEF DeliverTest, DeliverSleep, FlushDeliverStart,
         osetVars
    <2>2. dflush_counter' \in {dflush_counter, 0, n} /\ n \in Nat
      BY <1>13, FlushOpsAssumption DEF DeliverTest, DeliverSleep, FlushDeliverStart
    <2> QED
      BY <1>0, <2>1, <2>2 DEF CountsOK
  <1>14. ASSUME NEW o \in Osets, NEW q \in Queues, QueueDone(o, q) PROVE CountsOK'
    <2>1. UNCHANGED <<osetflushing, oqflush_counter, rem, dflush_counter>>
      BY <1>14, Zenon DEF QueueDone
    <2>2. oqflushing' = [oqflushing EXCEPT ![o] = @ \ {q}]
      BY <1>14, Zenon DEF QueueDone
    <2>3. IsFiniteSet(oqflushing[o] \ {q})
      BY <1>0, FS_RemoveElement, Zenon
    <2>4. /\ oqflushing' \in [Osets -> SUBSET Queues]
          /\ \A p \in Osets : IsFiniteSet(oqflushing'[p])
      BY <1>0, <2>2, <2>3, Zenon
    <2>5. net' = [net EXCEPT ![WorkerOf(o)] = [at |-> "deref", oset |-> o]]
      BY <1>14, Zenon DEF QueueDone
    <2>6. net' \in [NetThreads -> Net] /\ \A w \in NetThreads : NetOK(net'[w], w)
      BY <1>0, <2>5, NetOf
    <2> QED
      BY <1>0, <2>1, <2>4, <2>6, Zenon DEF CountsOK
  <1>15. ASSUME NEW w \in NetThreads, QueueDeref(w) PROVE CountsOK'
    <2>1. net[w].at = "deref" /\ UNCHANGED <<osetflushing, oqflushing, rem, dflush_counter>>
      BY <1>15, Zenon DEF QueueDeref
    <2>2. net[w].oset \in Osets /\ WorkerOf(net[w].oset) = w
      BY <1>0, <2>1, Zenon
    <2>3. oqflush_counter' \in [Osets -> Int]
      BY <1>0, <1>15, <2>2 DEF QueueDeref
    <2>4. \/ net' = [net EXCEPT ![w] = [at |-> "signal", oset |-> net[w].oset]]
          \/ net' = [net EXCEPT ![w] = [at |-> "idle", oset |-> None]]
      BY <1>15, Zenon DEF QueueDeref
    <2>5. net' \in [NetThreads -> Net] /\ \A v \in NetThreads : NetOK(net'[v], v)
      <3>1. CASE net' = [net EXCEPT ![w] = [at |-> "signal", oset |-> net[w].oset]]
        <4>1. [at |-> "signal", oset |-> net[w].oset] \in Net
          BY <2>2, Zenon
        <4>2. net' \in [NetThreads -> Net]
          BY <1>0, <3>1, <4>1
        <4>3. NetOK(net'[w], w)
          BY <1>0, <2>2, <3>1, Zenon
        <4>4. \A v \in NetThreads : v # w => net'[v] = net[v]
          BY <1>0, <3>1, Zenon
        <4> QED
          BY <1>0, <4>2, <4>3, <4>4, Zenon
      <3>2. CASE net' = [net EXCEPT ![w] = [at |-> "idle", oset |-> None]]
        BY <1>0, <3>2, Zenon
      <3> QED
        BY <2>4, <3>1, <3>2, Zenon
    <2> QED
      BY <1>0, <2>1, <2>3, <2>5 DEF CountsOK
  <1>16. ASSUME NEW w \in NetThreads, QueueSignal(w) PROVE CountsOK'
    <2>1. net' = [net EXCEPT ![w] = [at |-> "idle", oset |-> None]]
          /\ UNCHANGED <<oqflush_counter, oqflushing, rem, dflush_counter>>
      BY <1>16, Zenon DEF QueueSignal
    <2>2. osetflushing' \in [Osets -> BOOLEAN]
      BY <1>0, <1>16, Zenon DEF QueueSignal
    <2>3. net' \in [NetThreads -> Net] /\ \A v \in NetThreads : NetOK(net'[v], v)
      BY <1>0, <2>1, Zenon
    <2> QED
      BY <1>0, <2>1, <2>2, <2>3 DEF CountsOK
  <1>17. CASE DeliverOne
    <2>1. dflush_counter' \in Nat
      BY <1>0, <1>17 DEF DeliverOne, CountsDelivery
    <2> QED
      BY <1>0, <1>17, <2>1 DEF DeliverOne, osetVars, CountsOK
  <1>18. CASE (\E w \in Workers : WorkerExit(w) \/ BeginStop(w)) \/ DisableSend
    BY <1>1, <1>18, Zenon DEF WorkerExit, BeginStop, DisableSend, osetVars
  <1>19. CASE PurgeReqs
    <2>1. /\ osetflushing' \in [Osets -> BOOLEAN] /\ oqflushing' = [o \in Osets |-> {}]
          /\ UNCHANGED <<rem, dflush_counter, net>>
          /\ oqflush_counter' = [o \in Osets |-> oqflush_counter[o] - Cardinality(oqflushing[o])]
      BY <1>19, Zenon DEF PurgeReqs
    <2>2. \A o \in Osets : Cardinality(oqflushing[o]) \in Nat
      BY <1>0, FS_CardinalityType, Zenon
    <2>3. oqflush_counter' \in [Osets -> Int]
      BY <1>0, <2>1, <2>2
    <2>4. /\ oqflushing' \in [Osets -> SUBSET Queues]
          /\ \A o \in Osets : IsFiniteSet(oqflushing'[o])
      BY <2>1, FS_EmptySet, Zenon
    <2> QED
      BY <1>0, <2>1, <2>3, <2>4, Zenon DEF CountsOK
  <1>20. CASE UNCHANGED vars
    BY <1>1, <1>20, Zenon DEF vars, osetVars
  <1>21. CASE Turns
    BY <1>3, <1>4, <1>5, <1>6, <1>7, <1>21, Zenon DEF Turns
  <1>22. CASE Others
    BY <1>14, <1>15, <1>16, <1>17, <1>18, <1>19, <1>20, <1>22 DEF Others
  <1>23. 0 \in 0 .. MaxQueued
    BY FlushOpsAssumption
  <1> QED
    BY <1>8, <1>9, <1>10, <1>11, <1>12, <1>13, <1>21, <1>22, <1>23, NextSplit DEF Works

-----------------------------------------------------------------------------
\* The references of the current flush, as it goes on.

LEMMA CountedWorks ==
  ASSUME Serial, CountsOK, Marked, Counted, NEW f \in Flushers, Works(f)
  PROVE  Counted'
  <1> DEFINE o == kind[f]
  <1>0. /\ LinksOK /\ OneCurrent
        /\ osetflushing \in [Osets -> BOOLEAN] /\ oqflush_counter \in [Osets -> Int]
        /\ oqflushing \in [Osets -> SUBSET Queues] /\ IsFiniteSet({})
        /\ rem \in [Flushers -> SUBSET Queues] /\ CountOf(f) /\ KindOf(f) /\ CleanOf(f)
        /\ status \in [Flushers -> {"pending", "ready", "cancel"}]
        /\ status[f] = "pending" => pc[f] = "pending"
        /\ \A p \in Osets : IsFiniteSet(oqflushing[p])
    BY CountedParts, MarkedParts, FS_EmptySet, Zenon DEF Serial, LinksOK,
       CountsOK, Queued
  <1>1. /\ pc[f] \notin {"idle", "pending"} /\ \A g \in Flushers : g # f => pc'[g] = pc[g]
        /\ UNCHANGED <<kind, status, shut>>
    BY <1>0, Zenon DEF Works, CheckRunning, StartQ, DropRef, WaitTest,
       CleanQflush, DeliverTest, DeliverSleep, FlushDeliverStart, Goto, LinksOK
  <1>2. ASSUME CountOf(f)' PROVE Counted'
    <2>1. \A g \in Flushers : g # f => pc'[g] \in {"idle", "pending"}
      BY <1>0, <1>1, Current
    <2> QED
      BY <1>2, <2>1, CountOfIdle, CountedNext
  <1>3. CASE CheckRunning(f)
    <2>1. /\ pc[f] = "check" /\ Goto(f, IF kind[f] = Deliver THEN "dstart" ELSE "start")
          /\ UNCHANGED <<oqflushing, oqflush_counter, osetflushing, net>>
      BY <1>3, Zenon DEF CheckRunning, osetVars
    <2>2. CASE kind[f] = Deliver
      <3>1. pc'[f] = "dstart"
        BY <1>0, <2>1, <2>2, Going DEF Points
      <3> QED
        BY <1>1, <1>2, <2>2, <3>1, CountOfDeliver
    <2>3. CASE kind[f] # Deliver
      <3>1. pc'[f] = "start"
        BY <1>0, <2>1, <2>3, Going DEF Points
      <3>2. o \in Osets
        BY <1>0, <2>1, <2>3, Zenon DEF KindOf
      <3>3. Quiet(o) /\ oqflush_counter[o] = 1 /\ (shut # "purged" => osetflushing[o])
        BY <1>0, <2>1, <2>3, Zenon DEF CountOf
      <3>4. oqflushing[o] = {} /\ ~At(o, "deref") /\ ~At(o, "signal") /\ Deref(o) = 0
        BY <3>2, <3>3, QuietMeans, Zenon
      <3>5. oqflushing'[o] = {} /\ ~At(o, "signal")' /\ Deref(o)' = 0
        BY <1>1, <2>1, <3>4, Zenon DEF At, Deref
      <3>6. Cardinality({}) = 0
        BY FS_EmptySet, Zenon
      <3>7. Starting(f)'
        BY <1>1, <2>1, <3>3, <3>5, <3>6 DEF Starting
      <3> QED
        BY <1>2, <3>1, <3>7, Zenon DEF CountOf
    <2> QED
      BY <2>2, <2>3, Zenon
  <1>4. ASSUME NEW q \in Queues, StartQ(f, q) PROVE Counted'
    <2>1. /\ pc[f] = "start" /\ q \in rem[f] /\ q \notin oqflushing[o]
          /\ rem' = [rem EXCEPT ![f] = @ \ {q}] /\ UNCHANGED <<osetflushing, net, pc>>
      BY <1>4, Zenon DEF StartQ
    <2>2. Starting(f) /\ o \in Osets
      BY <1>0, <2>1, Zenon DEF CountOf, KindOf
    <2>3. rem'[f] = rem[f] \ {q} /\ Deref(o)' = Deref(o) /\ (At(o, "signal")' <=> At(o, "signal"))
      BY <1>0, <1>1, <2>1, Zenon DEF Deref, At
    <2>4. CASE UNCHANGED <<oqflushing, oqflush_counter>>
      <3>1. Starting(f)'
        BY <1>1, <2>1, <2>2, <2>3, <2>4 DEF Starting
      <3> QED
        BY <1>2, <2>1, <3>1, Zenon DEF CountOf
    <2>5. CASE /\ oqflushing' = [oqflushing EXCEPT ![kind[f]] = @ \cup {q}]
               /\ oqflush_counter' = [oqflush_counter EXCEPT ![kind[f]] = @ + 1]
      <3>1. oqflushing'[o] = oqflushing[o] \cup {q} /\ oqflush_counter'[o] = oqflush_counter[o] + 1
        BY <1>0, <2>2, <2>5, Zenon
      <3>2. /\ Cardinality(oqflushing'[o]) = Cardinality(oqflushing[o]) + 1
            /\ Cardinality(oqflushing[o]) \in Nat
        BY <1>0, <2>1, <2>2, <3>1, CountAdd, Zenon
      <3>3. rem'[f] \cap oqflushing'[o] = {}
        BY <2>2, <2>3, <3>1, Zenon DEF Starting
      <3>4. ASSUME shut' # "purged"
            PROVE  /\ oqflush_counter'[o] = 1 + Cardinality(oqflushing'[o]) + Deref(o)'
                   /\ ~At(o, "signal")' /\ osetflushing'[o]
        <4>1. /\ oqflush_counter[o] = 1 + Cardinality(oqflushing[o]) + Deref(o)
              /\ ~At(o, "signal") /\ osetflushing[o]
          BY <1>1, <2>2, <3>4, Zenon DEF Starting
        <4>2. Deref(o) \in Int /\ oqflush_counter[o] \in Int
          BY <1>0, <2>2 DEF Deref
        <4>3. oqflush_counter'[o] = 1 + Cardinality(oqflushing'[o]) + Deref(o)
          BY <3>1, <3>2, <4>1, <4>2
        <4> QED
          BY <2>1, <2>3, <4>1, <4>3
      <3>5. Starting(f)'
        BY <1>1, <3>3, <3>4, Zenon DEF Starting
      <3> QED
        BY <1>2, <2>1, <3>5 DEF CountOf
    <2> QED
      BY <1>4, <2>4, <2>5, Zenon DEF StartQ
  <1>5. CASE DropRef(f)
    <2>1. /\ pc[f] = "start" /\ Goto(f, "wait") /\ UNCHANGED <<oqflushing, net>>
          /\ oqflush_counter' = [oqflush_counter EXCEPT ![o] = @ - 1]
          /\ osetflushing' = [osetflushing EXCEPT ![o] =
                                osetflushing[o] /\ oqflush_counter'[o] # 0]
      BY <1>5, Zenon DEF DropRef, StillFlushing
    <2>2. Starting(f) /\ o \in Osets /\ pc'[f] = "wait"
      BY <1>0, <2>1, Going, Zenon DEF CountOf, KindOf, Points
    <2>3. /\ oqflush_counter'[o] = oqflush_counter[o] - 1
          /\ osetflushing'[o] = (osetflushing[o] /\ oqflush_counter'[o] # 0)
          /\ oqflushing'[o] = oqflushing[o]
      BY <1>0, <2>1, <2>2, Zenon
    <2>4. /\ Deref(o)' = Deref(o) /\ \A l : At(o, l)' <=> At(o, l)
          /\ Quiet(o)' <=> Quiet(o)
      BY <1>1, <2>1, Zenon DEF Deref, At, Quiet
    <2>5. ASSUME shut # "purged"
          PROVE  /\ oqflush_counter'[o] = Cardinality(oqflushing[o]) + Deref(o)
                 /\ oqflush_counter'[o] \in Nat
                 /\ oqflush_counter'[o] = 0 => Quiet(o)
                 /\ ~At(o, "signal") /\ osetflushing[o]
      <3>1. /\ oqflush_counter[o] = 1 + Cardinality(oqflushing[o]) + Deref(o)
            /\ ~At(o, "signal") /\ osetflushing[o]
        BY <2>2, <2>5, Zenon DEF Starting
      <3>2. Deref(o) \in {0, 1} /\ Cardinality(oqflushing[o]) \in Nat
        BY <1>0, <2>2, CountNat, Zenon DEF Deref
      <3>3. oqflush_counter'[o] = Cardinality(oqflushing[o]) + Deref(o)
        BY <2>3, <3>1, <3>2
      <3>4. ASSUME oqflush_counter'[o] = 0 PROVE Quiet(o)
        <4>1. Cardinality(oqflushing[o]) = 0 /\ Deref(o) = 0
          BY <3>2, <3>3, <3>4
        <4>2. oqflushing[o] = {} /\ ~At(o, "deref")
          BY <1>0, <2>2, <4>1, FS_EmptySet DEF Deref
        <4> QED
          BY <2>2, <3>1, <4>2, QuietIf, Zenon
      <3> QED
        BY <3>1, <3>2, <3>3, <3>4
    <2>6. Waiting(f)'
      <3>1. SUFFICES ASSUME shut # "purged"
                     PROVE  /\ oqflush_counter'[o] = Cardinality(oqflushing'[o]) + Deref(o)'
                            /\ ~At(o, "signal")'
                            /\ osetflushing'[o] => oqflush_counter'[o] > 0
                            /\ ~osetflushing'[o] => Quiet(o)'
        BY <1>1, <2>2, Zenon DEF Waiting
      <3>2. osetflushing'[o] => oqflush_counter'[o] > 0
        <4>1. osetflushing'[o] => oqflush_counter'[o] # 0
          BY <2>3, Zenon
        <4>2. oqflush_counter'[o] \in Nat
          BY <2>5, <3>1, Zenon
        <4> QED
          BY <4>1, <4>2
      <3>3. ~osetflushing'[o] => Quiet(o)'
        BY <2>3, <2>4, <2>5, <3>1, Zenon
      <3> QED
        BY <2>3, <2>4, <2>5, <3>1, <3>2, <3>3, Zenon
    <2> QED
      BY <1>2, <2>2, <2>6, Zenon DEF CountOf
  <1>6. CASE WaitTest(f)
    <2>1. pc[f] = "wait" /\ UNCHANGED <<oqflushing, oqflush_counter, net>>
      BY <1>6, Zenon DEF WaitTest
    <2>2. Waiting(f) /\ o \in Osets
      BY <1>0, <2>1, Zenon DEF CountOf, KindOf
    <2>3. CASE osetflushing[o] /\ status[f] = "ready" /\ Goto(f, "asleep") /\ UNCHANGED osetflushing
      <3>1. pc'[f] = "asleep"
        BY <1>0, <2>3, Going, Zenon DEF Points
      <3>2. SetSame(o)
        BY <2>1, <2>3, SetUntouched, Zenon
      <3>3. Deref(o)' = Deref(o)
        BY <3>2, Zenon DEF SetSame, Deref
      <3>4. Waiting(f)'
        BY <1>1, <2>2, <2>3, <3>2, <3>3 DEF Waiting, SetSame
      <3> QED
        BY <1>2, <3>1, <3>4, Zenon DEF CountOf
    <2>4. CASE /\ ~(osetflushing[o] /\ status[f] = "ready")
               /\ Goto(f, IF status[f] = "cancel" THEN "clean" ELSE "drop")
      <3>1. CASE status[f] = "cancel"
        <4>1. pc'[f] = "clean"
          BY <1>0, <2>4, <3>1, Going DEF Points
        <4> QED
          BY <1>2, <4>1, CountOfIdle, Zenon
      <3>2. CASE status[f] # "cancel"
        <4>1. pc'[f] = "drop" /\ status[f] = "ready"
          BY <1>0, <2>1, <2>4, <3>2, Going DEF Points
        <4>2. shut # "purged" => Quiet(o)
          BY <2>2, <2>4, <4>1, Zenon DEF Waiting
        <4>3. shut # "purged" => Quiet(o)'
          BY <1>1, <2>1, <4>2, Zenon DEF Quiet
        <4> QED
          BY <1>1, <1>2, <4>1, <4>3 DEF CountOf
      <3> QED
        BY <3>1, <3>2, Zenon
    <2> QED
      BY <1>6, <2>3, <2>4, Zenon DEF WaitTest
  <1>7. CASE CleanQflush(f)
    <2>1. pc[f] = "clean" /\ Goto(f, "drop")
      BY <1>7, Zenon DEF CleanQflush
    <2>2. pc'[f] = "drop" /\ status[f] = "cancel"
      BY <1>0, <2>1, Going, Zenon DEF Points, CleanOf
    <2> QED
      BY <1>1, <1>2, <2>2, Zenon DEF CountOf
  <1>8. CASE DeliverTest(f) \/ DeliverSleep(f) \/ \E n \in 0 .. MaxQueued : FlushDeliverStart(f, n)
    <2>1. /\ pc[f] \in {"dstart", "dtest", "dsleep"}
          /\ Goto(f, "dsleep") \/ Goto(f, "drop") \/ Goto(f, "dasleep") \/ Goto(f, "dtest")
      BY <1>8, Zenon DEF DeliverTest, DeliverSleep, FlushDeliverStart
    <2>2. kind[f] = Deliver /\ pc'[f] \in {"dsleep", "drop", "dasleep", "dtest"}
      BY <1>0, <2>1, Going, Zenon DEF Points, KindOf
    <2> QED
      BY <1>1, <1>2, <2>2, CountOfDeliver
  <1> QED
    BY <1>3, <1>4, <1>5, <1>6, <1>7, <1>8, Zenon DEF Works

\* Only the current flush, of an output set, has something to count.
LEMMA CountedIf ==
  ASSUME Marked', kind' = kind,
         \A f \in Flushers : pc'[f] \notin {"idle", "pending"} /\ kind[f] \in Osets => CountOf(f)'
  PROVE  Counted'
  <1>1. ASSUME NEW f \in Flushers PROVE CountOf(f)'
    <2>1. KindOf(f)'
      BY MarkedPartsNext, Zenon
    <2>2. CASE pc'[f] \in {"idle", "pending"}
      BY <2>2, CountOfIdle, Zenon
    <2>3. CASE pc'[f] \notin {"idle", "pending"} /\ kind[f] \in Osets
      BY <2>3, Zenon
    <2>4. CASE pc'[f] \notin {"idle", "pending"} /\ kind[f] \notin Osets
      <3>1. kind'[f] = Deliver /\ pc'[f] \notin {"start", "wait", "asleep"}
        BY <2>1, <2>4, Zenon DEF KindOf
      <3> QED
        BY <3>1, CountOfDeliver, Zenon
    <2> QED
      BY <2>2, <2>3, <2>4
  <1> QED
    BY <1>1, CountedNext, Zenon

\* The step of a network thread is about one set.
LEMMA OtherSet ==
  ASSUME CountsOK, NEW p \in Osets, NEW w \in NetThreads, NEW r,
         net' = [net EXCEPT ![w] = r], net[w].oset # p, r.oset # p,
         oqflushing'[p] = oqflushing[p], oqflush_counter'[p] = oqflush_counter[p],
         osetflushing'[p] = osetflushing[p]
  PROVE  SetSame(p)
  <1>1. net \in [NetThreads -> [at : {"idle", "deref", "signal"}, oset : Osets \cup {None}]]
        /\ WorkerOf(p) \in NetThreads
    BY NetOf, Zenon DEF CountsOK
  <1>2. net'[w] = r /\ \A v \in NetThreads : v # w => net'[v] = net[v]
    BY <1>1, Zenon
  <1>3. \A l : At(p, l)' <=> At(p, l)
    <2>1. CASE WorkerOf(p) = w
      BY <1>2, <2>1, Zenon DEF At
    <2>2. CASE WorkerOf(p) # w
      BY <1>1, <1>2, <2>2, Zenon DEF At
    <2> QED
      BY <2>1, <2>2, Zenon
  <1>4. Quiet(p) => Quiet(p)'
    BY <1>2, Zenon DEF Quiet
  <1> QED
    BY <1>3, <1>4, Zenon DEF SetSame

LEMMA CountedDone ==
  ASSUME Serial, CountsOK, Marked, Counted, Marked',
         NEW o \in Osets, NEW q \in Queues, QueueDone(o, q)
  PROVE  Counted'
  <1> DEFINE w == WorkerOf(o)
  <1>0. /\ q \in oqflushing[o] /\ oqflushing' = [oqflushing EXCEPT ![o] = @ \ {q}]
        /\ net' = [net EXCEPT ![w] = [at |-> "deref", oset |-> o]] /\ net[w].at = "idle"
        /\ UNCHANGED <<osetflushing, oqflush_counter, pc, status, kind, rem, shut>>
    BY Zenon DEF QueueDone
  <1>1. /\ oqflushing \in [Osets -> SUBSET Queues] /\ IsFiniteSet(oqflushing[o])
        /\ net \in [NetThreads -> [at : {"idle", "deref", "signal"}, oset : Osets \cup {None}]]
        /\ w \in NetThreads /\ net[w].oset = None /\ None \notin Osets
    BY <1>0, NetOf, FlushOpsAssumption DEF CountsOK
  <1>i. oqflush_counter[o] \in Int
    BY Zenon DEF CountsOK
  <1>2. ASSUME NEW f \in Flushers, pc'[f] \notin {"idle", "pending"}, kind[f] \in Osets
        PROVE  CountOf(f)'
    <2>0. CountOf(f)
      BY CountedParts, Zenon
    <2>1. CASE kind[f] # o
      <3>1. oqflushing'[kind[f]] = oqflushing[kind[f]]
        BY <1>0, <1>1, <1>2, <2>1
      <3>2. [at |-> "deref", oset |-> o].oset # kind[f] /\ net[w].oset # kind[f]
        BY <1>1, <1>2, <2>1, Zenon
      <3>3. SetSame(kind[f])
        BY <1>0, <1>1, <1>2, <3>1, <3>2, OtherSet, Zenon
      <3> QED
        BY <1>0, <2>0, <3>3, CountOfSame
    <2>2. CASE kind[f] = o
      <3>1. ~Quiet(o) /\ ~At(o, "deref") /\ ~At(o, "signal") /\ Deref(o) = 0
        BY <1>0, Zenon DEF Quiet, At, Deref
      <3>2. net'[w] = [at |-> "deref", oset |-> o] /\ oqflushing'[o] = oqflushing[o] \ {q}
        BY <1>0, <1>1, Zenon
      <3>3. At(o, "deref")' /\ ~At(o, "signal")' /\ Deref(o)' = 1
        BY <3>2 DEF At, Deref
      <3>4. /\ Cardinality(oqflushing'[o]) = Cardinality(oqflushing[o]) - 1
            /\ Cardinality(oqflushing[o]) \in Nat /\ Cardinality(oqflushing'[o]) \in Nat
        BY <1>0, <1>1, <3>2, CountRemove
      <3>5. CASE pc[f] \in {"check", "drop"}
        BY <1>0, <2>0, <2>2, <3>1, <3>5 DEF CountOf
      <3>6. CASE pc[f] = "start"
        <4>1. Starting(f)
          BY <2>0, <3>6, Zenon DEF CountOf
        <4>2. rem'[f] \cap oqflushing'[o] = {}
          BY <1>0, <2>2, <3>2, <4>1 DEF Starting
        <4>3. shut # "purged" => oqflush_counter[o] = 1 + Cardinality(oqflushing[o]) + 0
          BY <2>2, <3>1, <4>1 DEF Starting
        <4>4. shut # "purged" => oqflush_counter[o] = 1 + Cardinality(oqflushing'[o]) + 1
          BY <1>i, <3>4, <4>3
        <4>5. shut # "purged" => osetflushing[o]
          BY <2>2, <4>1, Zenon DEF Starting
        <4>6. Starting(f)'
          BY <1>0, <2>2, <3>3, <4>2, <4>4, <4>5 DEF Starting
        <4> QED
          BY <1>0, <3>6, <4>6, Zenon DEF CountOf
      <3>7. CASE pc[f] \in {"wait", "asleep"}
        <4>1. Waiting(f)
          BY <2>0, <3>7, Zenon DEF CountOf
        <4>2. ASSUME shut # "purged"
              PROVE  /\ oqflush_counter[o] = Cardinality(oqflushing[o]) + 0
                     /\ osetflushing[o] /\ (pc[f] = "asleep" => status[f] = "ready")
          BY <2>2, <3>1, <4>1, <4>2 DEF Waiting
        <4>3. ASSUME shut # "purged"
              PROVE  oqflush_counter[o] = Cardinality(oqflushing'[o]) + 1 /\ oqflush_counter[o] > 0
          BY <1>i, <3>4, <4>2, <4>3, SMTT(10), SMTT(30)
        <4>4. Waiting(f)'
          BY <1>0, <2>2, <3>3, <4>2, <4>3 DEF Waiting
        <4> QED
          BY <1>0, <3>7, <4>4 DEF CountOf
      <3>8. CASE pc[f] \notin {"check", "drop", "start", "wait", "asleep"}
        BY <1>0, <3>8, Zenon DEF CountOf
      <3> QED
        BY <3>5, <3>6, <3>7, <3>8
    <2> QED
      BY <2>1, <2>2, Zenon
  <1> QED
    BY <1>0, <1>2, CountedIf, Zenon

LEMMA CountedDeref ==
  ASSUME Serial, CountsOK, Marked, Counted, Marked', NEW w \in NetThreads, QueueDeref(w)
  PROVE  Counted'
  <1> DEFINE o == net[w].oset
  <1>0. /\ net[w].at = "deref" /\ oqflush_counter' = [oqflush_counter EXCEPT ![o] = @ - 1]
        /\ net' = [net EXCEPT ![w] = IF oqflush_counter'[o] = 0
                                       THEN [at |-> "signal", oset |-> o]
                                       ELSE [at |-> "idle", oset |-> None]]
        /\ UNCHANGED <<osetflushing, oqflushing, pc, status, kind, rem, shut>>
    BY Zenon DEF QueueDeref, LastQueueRef
  <1>1. /\ net \in [NetThreads -> [at : {"idle", "deref", "signal"}, oset : Osets \cup {None}]]
        /\ o \in Osets /\ WorkerOf(o) = w /\ None \notin Osets
        /\ oqflush_counter \in [Osets -> Int] /\ IsFiniteSet(oqflushing[o])
    BY <1>0, FlushOpsAssumption, Zenon DEF CountsOK
  <1>2. ASSUME NEW f \in Flushers, pc'[f] \notin {"idle", "pending"}, kind[f] \in Osets
        PROVE  CountOf(f)'
    <2>0. CountOf(f)
      BY CountedParts, Zenon
    <2>1. CASE kind[f] # o
      <3>1. oqflush_counter'[kind[f]] = oqflush_counter[kind[f]]
        BY <1>0, <1>1, <1>2, <2>1
      <3>2. /\ [at |-> "signal", oset |-> o].oset # kind[f]
            /\ [at |-> "idle", oset |-> None].oset # kind[f]
            /\ net[w].oset # kind[f]
        BY <1>1, <1>2, <2>1
      <3>3. SetSame(kind[f])
        <4>1. CASE net' = [net EXCEPT ![w] = [at |-> "signal", oset |-> o]]
          BY <1>0, <1>2, <3>1, <3>2, <4>1, OtherSet, Zenon
        <4>2. CASE net' = [net EXCEPT ![w] = [at |-> "idle", oset |-> None]]
          BY <1>0, <1>2, <3>1, <3>2, <4>2, OtherSet, Zenon
        <4> QED
          BY <1>0, <4>1, <4>2, Zenon
      <3> QED
        BY <1>0, <2>0, <3>3, CountOfSame
    <2>2. CASE kind[f] = o
      <3>1. ~Quiet(kind[f]) /\ At(kind[f], "deref") /\ ~At(kind[f], "signal") /\ Deref(kind[f]) = 1
        BY <1>0, <1>1, <2>2 DEF Quiet, At, Deref
      <3>2. oqflush_counter'[kind[f]] = oqflush_counter[kind[f]] - 1
        BY <1>0, <1>1, <2>2
      <3>3. net'[w] = IF oqflush_counter'[kind[f]] = 0 THEN [at |-> "signal", oset |-> kind[f]]
                      ELSE [at |-> "idle", oset |-> None]
        BY <1>0, <1>1, <2>2, Zenon
      <3>4. /\ ~At(kind[f], "deref")' /\ Deref(kind[f])' = 0
            /\ At(kind[f], "signal")' <=> oqflush_counter'[kind[f]] = 0
        BY <1>0, <1>1, <2>2, <3>3 DEF At, Deref
      <3>5. Cardinality(oqflushing[kind[f]]) \in Nat
        BY <1>1, <2>2, CountNat
      <3>6. CASE pc[f] \in {"check", "drop"}
        BY <1>0, <1>2, <2>0, <3>1, <3>6, FlushOpsAssumption DEF CountOf
      <3>7. CASE pc[f] = "start"
        <4>1. Starting(f)
          BY <2>0, <3>7, Zenon DEF CountOf
        <4>2. rem'[f] \cap oqflushing'[kind[f]] = {}
          BY <1>0, <4>1, Zenon DEF Starting
        <4>3. ASSUME shut # "purged"
              PROVE  /\ oqflush_counter[kind[f]] = 1 + Cardinality(oqflushing[kind[f]]) + 1
                     /\ osetflushing[kind[f]]
          BY <3>1, <4>1, <4>3 DEF Starting
        <4>4. ASSUME shut # "purged"
              PROVE  /\ oqflush_counter'[kind[f]] = 1 + Cardinality(oqflushing[kind[f]]) + 0
                     /\ oqflush_counter'[kind[f]] # 0
          BY <3>2, <3>5, <4>3, <4>4
        <4>5. Starting(f)'
          BY <1>0, <3>4, <4>2, <4>3, <4>4 DEF Starting
        <4> QED
          BY <1>0, <3>7, <4>5 DEF CountOf
      <3>8. CASE pc[f] \in {"wait", "asleep"}
        <4>1. Waiting(f)
          BY <2>0, <3>8, Zenon DEF CountOf
        <4>2. ASSUME shut # "purged"
              PROVE  /\ oqflush_counter[kind[f]] = Cardinality(oqflushing[kind[f]]) + 1
                     /\ osetflushing[kind[f]] /\ (pc[f] = "asleep" => status[f] = "ready")
          BY <3>1, <4>1, <4>2 DEF Waiting
        <4>3. ASSUME shut # "purged"
              PROVE  /\ oqflush_counter'[kind[f]] = Cardinality(oqflushing[kind[f]]) + 0
                     /\ oqflush_counter'[kind[f]] > 0 \/ oqflush_counter'[kind[f]] = 0
          BY <3>2, <3>5, <4>2, <4>3
        <4>4. Waiting(f)'
          BY <1>0, <3>4, <4>2, <4>3 DEF Waiting
        <4> QED
          BY <1>0, <3>8, <4>4 DEF CountOf
      <3>9. CASE pc[f] \notin {"check", "drop", "start", "wait", "asleep"}
        BY <1>0, <3>9, Zenon DEF CountOf
      <3> QED
        BY <3>6, <3>7, <3>8, <3>9
    <2> QED
      BY <2>1, <2>2
  <1> QED
    BY <1>0, <1>2, CountedIf, Zenon

LEMMA CountedSignal ==
  ASSUME Serial, CountsOK, Marked, Counted, Marked', NEW w \in NetThreads, QueueSignal(w)
  PROVE  Counted'
  <1> DEFINE o == net[w].oset
             r == [at |-> "idle", oset |-> None]
  <1>0. /\ net[w].at = "signal" /\ net' = [net EXCEPT ![w] = r]
        /\ \/ /\ osetflushing[o] /\ osetflushing' = [osetflushing EXCEPT ![o] = FALSE]
              /\ WakeCurrent
           \/ ~osetflushing[o] /\ UNCHANGED <<osetflushing, pc>>
        /\ UNCHANGED <<oqflush_counter, oqflushing, status, kind, rem, shut>>
    BY Zenon DEF QueueSignal
  <1>1. /\ net \in [NetThreads -> [at : {"idle", "deref", "signal"}, oset : Osets \cup {None}]]
        /\ o \in Osets /\ WorkerOf(o) = w /\ None \notin Osets /\ None \notin Flushers
        /\ osetflushing \in [Osets -> BOOLEAN] /\ IsFiniteSet(oqflushing[o])
        /\ OneCurrent /\ LinksOK
    BY <1>0, FlushOpsAssumption DEF CountsOK, Serial
  <1>2. ASSUME NEW f \in Flushers, pc'[f] \notin {"idle", "pending"}, kind[f] \in Osets
        PROVE  CountOf(f)'
    <2>0. CountOf(f)
      BY CountedParts
    <2>1. /\ \/ pc'[f] = pc[f]
             \/ pc[f] = "asleep" /\ pc'[f] = "wait"
             \/ pc[f] = "dasleep" /\ pc'[f] = "dtest"
          /\ WakeCurrent /\ curflush = f => pc'[f] # "asleep"
      BY <1>0, <1>1, Waking, Zenon
    <2>2. curflush = f /\ flushoset = kind[f]
      <3>1. pc[f] \notin {"idle", "pending"}
        BY <1>2, <2>1, Zenon
      <3>2. curflush = f
        BY <1>1, <3>1, Current, Zenon
      <3> QED
        BY <1>1, <1>2, <3>2, MarkedParts, FlushOpsAssumption DEF SetOf
    <2>3. CASE kind[f] # o
      <3>1. ~osetflushing[o]
        BY <1>1, <2>2, <2>3, MarkedParts, Zenon DEF MarkOf
      <3>2. UNCHANGED <<osetflushing, pc>>
        BY <1>0, <3>1, Zenon
      <3>3. net[w].oset # kind[f] /\ r.oset # kind[f]
        BY <1>1, <1>2, <2>3, Zenon
      <3>4. SetSame(kind[f])
        BY <1>0, <1>2, <3>2, <3>3, OtherSet, Zenon
      <3> QED
        BY <1>0, <2>0, <3>2, <3>4, CountOfSame, Zenon
    <2>4. CASE kind[f] = o
      <3>1. ~Quiet(kind[f]) /\ At(kind[f], "signal") /\ ~At(kind[f], "deref") /\ Deref(kind[f]) = 0
        BY <1>0, <1>1, <2>4 DEF Quiet, At, Deref
      <3>2. net'[w] = r
        BY <1>0, <1>1, Zenon
      <3>3. ~At(kind[f], "deref")' /\ ~At(kind[f], "signal")' /\ Deref(kind[f])' = 0
        BY <1>0, <1>1, <2>4, <3>2 DEF At, Deref
      <3>4. CASE pc[f] \in {"check", "drop"}
        <4>1. pc'[f] = pc[f]
          BY <2>1, <3>4, Zenon
        <4> QED
          BY <1>0, <1>2, <2>0, <3>1, <3>4, <4>1, FlushOpsAssumption DEF CountOf
      <3>5. CASE pc[f] = "start"
        <4>1. Starting(f) /\ pc'[f] = "start"
          BY <2>0, <2>1, <3>5, Zenon DEF CountOf
        <4>2. shut = "purged"
          BY <3>1, <4>1, Zenon DEF Starting
        <4>3. Starting(f)'
          BY <1>0, <4>1, <4>2, Zenon DEF Starting
        <4> QED
          BY <4>1, <4>3, Zenon DEF CountOf
      <3>6. CASE pc[f] \in {"wait", "asleep"}
        <4>1. Waiting(f) /\ pc'[f] \in {"wait", "asleep"}
          BY <2>0, <2>1, <3>6, Zenon DEF CountOf
        <4>2. ASSUME shut # "purged" PROVE Waiting(f)'
          <5>1. /\ oqflush_counter[o] = Cardinality(oqflushing[o]) + 0
                /\ oqflush_counter[o] = 0 /\ osetflushing[o]
            BY <2>4, <3>1, <4>1, <4>2 DEF Waiting
          <5>2. Cardinality(oqflushing[o]) = 0
            <6>1. Cardinality(oqflushing[o]) \in Nat
              BY <1>1, CountNat, Zenon
            <6> QED
              BY <5>1, <6>1, SMTT(10), SMTT(30)
          <5>3. oqflushing[o] = {}
            BY <1>1, <5>2, CountZero
          <5>4. WakeCurrent /\ osetflushing' = [osetflushing EXCEPT ![o] = FALSE]
            BY <1>0, <5>1, Zenon
          <5>5. ~osetflushing'[kind[f]] /\ pc'[f] # "asleep"
            BY <1>1, <2>1, <2>2, <2>4, <5>4
          <5>6. Quiet(kind[f])'
            <6>1. oqflushing'[kind[f]] = {}
              BY <1>0, <2>4, <5>3, Zenon
            <6>2. ASSUME NEW v \in NetThreads PROVE net'[v].oset # kind[f]
              <7>1. CASE v = w
                BY <1>1, <1>2, <3>2, <7>1
              <7>2. CASE v # w
                <8>1. net'[v] = net[v]
                  BY <1>0, <1>1, <7>2, Zenon
                <8>2. IF net[v].at = "idle" THEN net[v].oset = None
                      ELSE net[v].oset \in Osets /\ WorkerOf(net[v].oset) = v
                  BY Zenon DEF CountsOK
                <8> QED
                  BY <1>1, <1>2, <2>4, <7>2, <8>1, <8>2, Zenon
              <7> QED
                BY <7>1, <7>2, Zenon
            <6> QED
              BY <1>0, <6>1, <6>2, Zenon DEF Quiet
          <5>7. oqflush_counter'[kind[f]] = Cardinality(oqflushing'[kind[f]]) + 0
            BY <1>0, <2>4, <5>1
          <5> QED
            BY <1>0, <3>3, <5>5, <5>6, <5>7, Zenon DEF Waiting
        <4>3. ASSUME shut = "purged" PROVE Waiting(f)'
          BY <1>0, <4>3, Zenon DEF Waiting
        <4> QED
          BY <4>1, <4>2, <4>3, Zenon DEF CountOf
      <3>7. CASE pc[f] \notin {"check", "drop", "start", "wait", "asleep"}
        <4>1. pc'[f] \notin {"check", "drop", "start", "wait", "asleep"}
          BY <2>1, <3>7, Zenon
        <4> QED
          BY <4>1, Zenon DEF CountOf
      <3> QED
        BY <3>4, <3>5, <3>6, <3>7
    <2> QED
      BY <2>3, <2>4
  <1> QED
    BY <1>0, <1>2, CountedIf, Zenon

LEMMA CountedOthers ==
  ASSUME Serial, CountsOK, Marked, Counted, Others PROVE Counted'
  <1>0. /\ Marked' /\ kind' = kind /\ LinksOK /\ \A f \in Flushers : CountOf(f)
    BY MarkedOthers, MovingOthers, CountedParts, Zenon DEF Serial, Moves
  <1>1. ASSUME UNCHANGED <<osetflushing, oqflush_counter, oqflushing, net, status, kind, rem>>,
               shut' = "purged" <=> shut = "purged", WakeCurrent \/ UNCHANGED pc
        PROVE  Counted'
    <2>1. ASSUME NEW f \in Flushers PROVE CountOf(f)'
      <3>1. SetSame(kind[f])
        BY <1>1, SetUntouched, Zenon
      <3>2. \/ pc'[f] = pc[f]
            \/ pc[f] = "asleep" /\ pc'[f] = "wait"
            \/ pc[f] = "dasleep" /\ pc'[f] = "dtest"
        BY <1>0, <1>1, Waking, Zenon
      <3>3. CASE pc'[f] = "dtest"
        BY <3>3, Zenon DEF CountOf
      <3>4. CASE pc'[f] # "dtest"
        BY <1>0, <1>1, <3>1, <3>2, <3>4, CountOfSame
      <3> QED
        BY <3>3, <3>4, Zenon
    <2> QED
      BY <2>1, CountedNext, Zenon
  <1>2. CASE DeliverOne
    BY <1>1, <1>2, Zenon DEF DeliverOne, osetVars
  <1>3. CASE (\E w \in Workers : WorkerExit(w) \/ BeginStop(w)) \/ DisableSend \/ UNCHANGED vars
    BY <1>1, <1>3, Zenon DEF WorkerExit, BeginStop, DisableSend, vars, osetVars
  <1>4. CASE PurgeReqs
    <2>0. /\ shut = "discarded" /\ shut' = "purged" /\ UNCHANGED <<net, pc, kind, rem, status>>
          /\ oqflush_counter' = [o \in Osets |->
                                  oqflush_counter[o] - Cardinality(oqflushing[o])]
          /\ oqflushing' = [o \in Osets |-> {}]
      BY <1>4, Zenon DEF PurgeReqs
    <2>1. ASSUME NEW f \in Flushers, pc'[f] \notin {"idle", "pending"}, kind[f] \in Osets
          PROVE  CountOf(f)'
      <3>1. CASE pc[f] = "check"
        <4>1. Quiet(kind[f]) /\ oqflush_counter[kind[f]] = 1
          BY <1>0, <2>1, <3>1, FlushOpsAssumption DEF CountOf
        <4>2. oqflush_counter'[kind[f]] = 1 - Cardinality({}) /\ oqflushing'[kind[f]] = {}
          BY <2>0, <2>1, <4>1, Zenon DEF Quiet
        <4>3. oqflush_counter'[kind[f]] = 1
          BY <4>2, FS_EmptySet
        <4>4. Quiet(kind[f])'
          BY <2>0, <4>1, <4>2, Zenon DEF Quiet
        <4> QED
          BY <2>0, <3>1, <4>3, <4>4 DEF CountOf
      <3>2. CASE pc[f] # "check"
        <4>1. Starting(f)' /\ Waiting(f)'
          BY <2>0, <2>1, Zenon DEF Starting, Waiting
        <4> QED
          BY <2>0, <3>2, <4>1, Zenon DEF CountOf
      <3> QED
        BY <3>1, <3>2, Zenon
    <2> QED
      BY <1>0, <2>1, CountedIf, Zenon
  <1>5. ASSUME NEW o \in Osets, NEW q \in Queues, QueueDone(o, q) PROVE Counted'
    BY <1>0, <1>5, CountedDone, Zenon
  <1>6. ASSUME NEW w \in NetThreads, QueueDeref(w) PROVE Counted'
    BY <1>0, <1>6, CountedDeref, Zenon
  <1>7. ASSUME NEW w \in NetThreads, QueueSignal(w) PROVE Counted'
    BY <1>0, <1>7, CountedSignal, Zenon
  <1> QED
    BY <1>2, <1>3, <1>4, <1>5, <1>6, <1>7 DEF Others

-----------------------------------------------------------------------------
\* The invariant.

Orderly == OneCurrent /\ Queued /\ Marked /\ QuietSets /\ Counted

Core == TypeOK /\ (~overtaken => Orderly)

\* None of the aborts is reached.
LEMMA OrderlyNoAbort == ASSUME Core PROVE NoAbort
  <1> SUFFICES ASSUME ~overtaken
               PROVE  /\ \A f \in Flushers :
                           /\ pc[f] = "drop" => curflush = f
                           /\ pc[f] = "start" => rem[f] \cap oqflushing[kind[f]] = {}
                           /\ pc[f] = "clean" => ~osetflushing[kind[f]]
                      /\ \A o \in Osets : osetflushing[o] => curflush # None
    BY Zenon DEF NoAbort
  <1>0. LinksOK /\ OneCurrent /\ Counted /\ Marked
    BY Zenon DEF Core, Orderly, TypeOK
  <1>1. ASSUME NEW f \in Flushers
        PROVE  /\ pc[f] = "drop" => curflush = f
               /\ pc[f] = "start" => rem[f] \cap oqflushing[kind[f]] = {}
               /\ pc[f] = "clean" => ~osetflushing[kind[f]]
    <2>1. pc[f] = "drop" => curflush = f
      BY <1>0, Current, Zenon
    <2>2. pc[f] = "start" => rem[f] \cap oqflushing[kind[f]] = {}
      BY <1>0, CountedParts, Zenon DEF CountOf, Starting
    <2>3. pc[f] = "clean" => ~osetflushing[kind[f]]
      BY <1>0, MarkedParts, Zenon DEF CleanOf
    <2> QED
      BY <2>1, <2>2, <2>3, Zenon
  <1>2. ASSUME NEW o \in Osets, osetflushing[o] PROVE curflush # None
    <2>1. flushoset = o /\ o # None
      BY <1>0, <1>2, MarkedParts, FlushOpsAssumption DEF MarkOf
    <2> QED
      BY <1>0, <2>1, MarkedParts, Zenon DEF SetOf
  <1> QED
    BY <1>1, <1>2, Zenon

LEMMA FlushInit == ASSUME Init PROVE Core
  <1>0. /\ None \notin Flushers \cup Osets /\ Deliver \notin Osets
        /\ flushlock = None /\ curflush = None /\ flushoset = None /\ fpending = <<>>
        /\ pc = [f \in Flushers |-> "idle"] /\ status = [f \in Flushers |-> "ready"]
        /\ kind = [f \in Flushers |-> None] /\ rem = [f \in Flushers |-> {}]
        /\ shut = "no" /\ dflush_counter = 0
    BY FlushOpsAssumption, Zenon DEF Init
  <1>1. /\ osetflushing = [o \in Osets |-> FALSE] /\ oqflush_counter = [o \in Osets |-> 0]
        /\ oqflushing = [o \in Osets |-> {}]
        /\ net = [w \in NetThreads |-> [at |-> "idle", oset |-> None]]
    BY Zenon DEF Init
  <1>2. LinksOK
    BY <1>0 DEF LinksOK, Points
  <1>3. CountsOK
    BY <1>0, <1>1, FS_EmptySet DEF CountsOK
  <1>4. Released = {}
    BY <1>0, ReleasedIs, Zenon
  <1>5. OneCurrent
    BY <1>0, <1>4, Zenon DEF OneCurrent
  <1>6. Queued
    BY <1>0, EmptyRange DEF Queued, Once
  <1>7. Marked
    <2>1. ASSUME NEW f \in Flushers PROVE KindOf(f) /\ CleanOf(f) /\ SleepOf(f)
      BY <1>0, Zenon DEF KindOf, CleanOf, SleepOf
    <2>2. SetOf /\ MarkOf
      BY <1>0, <1>1, Zenon DEF SetOf, MarkOf
    <2> QED
      BY <2>1, <2>2, MarkedParts, Zenon
  <1>8. QuietSets
    BY <1>0, <1>1, Zenon DEF QuietSets, Quiet
  <1>9. Counted
    <2>1. ASSUME NEW f \in Flushers PROVE CountOf(f)
      BY <1>0, Zenon DEF CountOf
    <2> QED
      BY <2>1, CountedParts, Zenon
  <1> QED
    BY <1>2, <1>3, <1>5, <1>6, <1>7, <1>8, <1>9 DEF Core, TypeOK, Orderly

LEMMA OrderlyStep ==
  ASSUME TypeOK, Orderly, ~overtaken, ~overtaken', [Next]_vars
  PROVE  Orderly'
  <1>0. Serial /\ LinksOK /\ CountsOK /\ OneCurrent /\ Queued /\ Marked /\ QuietSets /\ Counted
    BY Zenon DEF TypeOK, Orderly, Serial
  <1>1. CASE Turns
    <2>1. OneCurrent' /\ Queued' /\ QuietSets' /\ Counted'
      BY <1>0, <1>1, TurnsSerial, QuietStep, CountedTurns
    <2>2. Marked'
      BY <1>0, <1>1, MarkedTurns, Zenon
    <2> QED
      BY <2>1, <2>2, Zenon DEF Orderly
  <1>2. CASE Others
    <2>1. Moves
      BY <1>0, <1>2, MovingOthers, Zenon
    <2>2. OneCurrent' /\ Queued'
      BY <1>0, <2>1, MovesSerial, Zenon
    <2>3. Marked' /\ QuietSets' /\ Counted'
      BY <1>0, <1>2, MarkedOthers, QuietMoves, CountedOthers
    <2> QED
      BY <2>2, <2>3, Zenon DEF Orderly
  <1>3. ASSUME NEW f \in Flushers, Works(f) PROVE Orderly'
    <2>1. Moves
      BY <1>0, <1>3, MovingFlusher, Zenon
    <2>2. OneCurrent' /\ Queued'
      BY <1>0, <2>1, MovesSerial, Zenon
    <2>3. Marked' /\ QuietSets' /\ Counted'
      BY <1>0, <1>3, MarkedFlusher, QuietMoves, CountedWorks
    <2> QED
      BY <2>2, <2>3, Zenon DEF Orderly
  <1> QED
    BY <1>1, <1>2, <1>3, NextSplit, Zenon

LEMMA FlushStep == ASSUME Core, [Next]_vars PROVE Core'
  <1>0. TypeOK /\ LinksOK /\ CountsOK /\ (~overtaken => Orderly)
    BY Zenon DEF Core, TypeOK
  <1>1. CASE overtaken
    <2>1. UNCHANGED vars
      BY <1>1, Ended, Zenon
    <2>2. LinksOK' /\ CountsOK' /\ overtaken'
      BY <1>0, <1>1, <2>1 DEF vars, flushVars, osetVars, histVars, LinksOK, CountsOK
    <2> QED
      BY <2>2, Zenon DEF Core, TypeOK
  <1>2. CASE ~overtaken
    <2>1. Orderly
      BY <1>0, <1>2, Zenon
    <2>2. LinksOK' /\ CountsOK'
      BY <1>0, <1>2, <2>1, LinksStep, CountsStep DEF Orderly, Serial, Queued
    <2>3. ~overtaken' => Orderly'
      BY <1>0, <1>2, <2>1, OrderlyStep, Zenon
    <2>4. TypeOK'
      BY <2>2, Zenon DEF TypeOK
    <2> QED
      BY <2>3, <2>4, Zenon DEF Core
  <1> QED
    BY <1>1, <1>2, Zenon

\* Flush operations are serialized, the references of a flush
\* (oqflush_counter) are exactly its own and those of the queues still
\* flushing, and a flush that sleeps in shuffler_flush_qs has a queue or a
\* signal to wake it up.
THEOREM FlushInvariant == Spec => []FlushInv
  <1>1. Init => Core
    BY FlushInit, Zenon
  <1>2. Core /\ [Next]_vars => Core'
    BY FlushStep, Zenon
  <1>3. Core => FlushInv
    BY OrderlyNoAbort, Zenon DEF Core, Orderly, FlushInv
  <1> QED
    BY <1>1, <1>2, <1>3, PTL DEF Spec

\* The aborts of drop_curflush, start_qflush, clean_qflush and done_oq_flush
\* are not reached, whatever the flushers, the sets and the queues.
THEOREM AbortsUnreached == Spec => []NoAbort
  <1>1. FlushInv => NoAbort
    BY Zenon DEF FlushInv
  <1> QED
    BY <1>1, FlushInvariant, PTL

\* When shuffler_flush_qs is about to report success, no queue of its set is
\* still flushing.
THEOREM SuccessFlushed == Spec => []SuccessMeansFlushed
  <1>1. FlushInv => SuccessMeansFlushed
    <2> SUFFICES ASSUME FlushInv, NEW f \in Flushers, shut # "purged", ~overtaken,
                        pc[f] = "drop", status[f] = "ready", kind[f] # Deliver
                 PROVE  oqflushing[kind[f]] = {}
      BY Zenon DEF SuccessMeansFlushed
    <2>1. CountOf(f)
      BY CountedParts, Zenon DEF FlushInv
    <2> QED
      BY <2>1, Zenon DEF CountOf, Quiet
  <1> QED
    BY <1>1, FlushInvariant, PTL

=============================================================================
