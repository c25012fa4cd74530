--------------------------- MODULE DeliveryProofs ---------------------------
(***************************************************************************)
(* Proofs about the delivery queue, for any number of requests, senders    *)
(* and flushes and any limits: the queues hold what arrived and was not    *)
(* delivered, a flush counts exactly what it has to wait for, and the      *)
(* queue implements the mailbox that Mailbox specifies.                    *)
(***************************************************************************)
EXTENDS DeliveryQueue, SequenceTheorems, TLAPS

-----------------------------------------------------------------------------
\* Appending to the last of two sequences appends to both together.
LEMMA AppendToLast ==
  ASSUME NEW S, NEW s \in Seq(S), NEW t \in Seq(S), NEW e \in S
  PROVE  s \o Append(t, e) = Append(s \o t, e)
<1>1. <<e>> \in Seq(S) /\ s \o t \in Seq(S)
  BY ConcatProperties
<1>2. Append(t, e) = t \o <<e>> /\ Append(s \o t, e) = (s \o t) \o <<e>>
  BY <1>1, AppendIsConcat
<1> QED
  BY <1>1, <1>2, ConcatAssociative

\* An element may move from the front of the second to the end of the first.
LEMMA MoveHead ==
  ASSUME NEW S, NEW s \in Seq(S), NEW t \in Seq(S), t # <<>>
  PROVE  Append(s, Head(t)) \o Tail(t) = s \o t
<1>1. /\ Head(t) \in S /\ Tail(t) \in Seq(S) /\ Len(Tail(t)) = Len(t) - 1
      /\ \A i \in 1..Len(Tail(t)) : Tail(t)[i] = t[i + 1]
      /\ Len(t) \in Nat \ {0} /\ Len(s) \in Nat /\ Head(t) = t[1]
  BY HeadTailProperties, LenProperties, EmptySeq
<1>2. /\ Append(s, Head(t)) \in Seq(S) /\ Len(Append(s, Head(t))) = Len(s) + 1
      /\ \A i \in 1..Len(s) : Append(s, Head(t))[i] = s[i]
      /\ Append(s, Head(t))[Len(s) + 1] = t[1]
  BY <1>1, AppendProperties
<1> DEFINE u == Append(s, Head(t)) \o Tail(t)
           v == s \o t
<1>3. /\ u \in Seq(S) /\ Len(u) = Len(s) + Len(t)
      /\ \A i \in 1..Len(s) + Len(t) :
           u[i] = IF i <= Len(s) + 1 THEN Append(s, Head(t))[i]
                  ELSE Tail(t)[i - (Len(s) + 1)]
  BY <1>1, <1>2, ConcatProperties
<1>4. /\ v \in Seq(S) /\ Len(v) = Len(s) + Len(t)
      /\ \A i \in 1..Len(s) + Len(t) :
           v[i] = IF i <= Len(s) THEN s[i] ELSE t[i - Len(s)]
  BY ConcatProperties
<1> HIDE DEF u, v
<1>5. ASSUME NEW i \in 1..Len(u)
      PROVE  u[i] = v[i]
  <2>1. CASE i <= Len(s)
    BY <1>1, <1>2, <1>3, <1>4, <2>1
  <2>2. CASE i = Len(s) + 1
    BY <1>1, <1>2, <1>3, <1>4, <2>2
  <2>3. CASE i > Len(s) + 1
    <3>1. i - (Len(s) + 1) \in 1..Len(Tail(t))
      BY <1>1, <1>3, <2>3
    <3>2. Tail(t)[i - (Len(s) + 1)] = t[i - Len(s)]
      BY <1>1, <3>1
    <3> QED
      BY <1>1, <1>3, <1>4, <2>3, <3>2
  <2> QED
    BY <1>1, <2>1, <2>2, <2>3
<1>6. u = v
  BY <1>3, <1>4, <1>5, SeqEqual
<1> QED
  BY <1>6 DEF u, v

\* Concatenation is associative, as a formula about requests.
LEMMA Associative ==
  \A s, t, u \in Seq(Reqs) : (s \o t) \o u = s \o (t \o u)
<1> TAKE s, t, u \in Seq(Reqs)
<1> QED
  BY ConcatAssociative

\* The head of the second of three sequences moved to the end of the first.
LEMMA MoveHeadBefore ==
  ASSUME NEW s \in Seq(Reqs), NEW t \in Seq(Reqs), NEW u \in Seq(Reqs), t # <<>>
  PROVE  Append(s, Head(t)) \o (Tail(t) \o u) = s \o (t \o u)
<1>1. Head(t) \in Reqs /\ Tail(t) \in Seq(Reqs)
  BY HeadTailProperties
<1>2. Append(s, Head(t)) \in Seq(Reqs)
  BY <1>1, AppendProperties
<1>3. Append(s, Head(t)) \o Tail(t) = s \o t
  BY MoveHead
<1> SUFFICES ASSUME NEW a \in Seq(Reqs), NEW b \in Seq(Reqs), a \o b = s \o t
             PROVE  a \o (b \o u) = s \o (t \o u)
  BY <1>1, <1>2, <1>3, Zenon
<1>4. (a \o b) \o u = a \o (b \o u)
  BY Associative, Zenon
<1>5. (s \o t) \o u = s \o (t \o u)
  BY Associative, Zenon
<1> QED
  BY <1>4, <1>5, Zenon

\* The first part of three sequences, and what comes next.
LEMMA FirstOfThree ==
  ASSUME NEW S, NEW s \in Seq(S), NEW t \in Seq(S), NEW u \in Seq(S)
  PROVE  /\ Len(s \o (t \o u)) = Len(s) + (Len(t) + Len(u))
         /\ \A i \in 1..Len(s) : (s \o (t \o u))[i] = s[i]
         /\ t # <<>> => (s \o (t \o u))[Len(s) + 1] = Head(t)
<1>1. t \o u \in Seq(S) /\ Len(t \o u) = Len(t) + Len(u)
  BY ConcatProperties, Zenon
<1>2. Len(s) \in Nat /\ Len(t) \in Nat /\ Len(u) \in Nat
  BY LenProperties
<1>3. t # <<>> => Len(t) > 0 /\ (t \o u)[1] = Head(t)
  <2> SUFFICES ASSUME t # <<>>
               PROVE  Len(t) > 0 /\ (t \o u)[1] = Head(t)
    OBVIOUS
  <2>1. Len(t) \in Nat \ {0}
    BY EmptySeq, Zenon
  <2>2. Head(t) = t[1]
    BY <2>1
  <2>3. \A i \in 1..Len(t) + Len(u) : (t \o u)[i] = IF i <= Len(t) THEN t[i] ELSE u[i - Len(t)]
    BY ConcatProperties, Zenon
  <2> QED
    BY <1>2, <2>1, <2>2, <2>3
<1> SUFFICES ASSUME NEW v \in Seq(S), Len(v) = Len(t) + Len(u),
                    t # <<>> => v[1] = Head(t)
             PROVE  /\ Len(s \o v) = Len(s) + (Len(t) + Len(u))
                    /\ \A i \in 1..Len(s) : (s \o v)[i] = s[i]
                    /\ t # <<>> => (s \o v)[Len(s) + 1] = Head(t)
  BY <1>1, <1>3, Zenon
<1>4. Len(s \o v) = Len(s) + Len(v)
  BY ConcatProperties, Zenon
<1>5. \A i \in 1..Len(s) + Len(v) :
         (s \o v)[i] = IF i <= Len(s) THEN s[i] ELSE v[i - Len(s)]
  BY ConcatProperties
<1>6. \A i \in 1..Len(s) : (s \o v)[i] = s[i]
  BY <1>2, <1>5
<1>7. t # <<>> => (s \o v)[Len(s) + 1] = Head(t)
  <2> SUFFICES ASSUME t # <<>>
               PROVE  (s \o v)[Len(s) + 1] = Head(t)
    OBVIOUS
  <2>1. /\ Len(s) + 1 \in 1..Len(s) + Len(v) /\ ~(Len(s) + 1 <= Len(s))
        /\ Len(s) + 1 - Len(s) = 1
    BY <1>2, <1>3
  <2>2. (s \o v)[Len(s) + 1] = v[1]
    BY <1>5, <2>1
  <2> QED
    BY <2>2
<1> QED
  BY <1>4, <1>6, <1>7

\* What an append adds to the elements.
LEMMA AppendRange ==
  ASSUME NEW S, NEW s \in Seq(S), NEW e \in S
  PROVE  Range(Append(s, e)) = Range(s) \cup {e}
<1>1. /\ DOMAIN s = 1..Len(s) /\ Len(s) \in Nat
      /\ DOMAIN Append(s, e) = 1..Len(s) + 1
      /\ \A i \in 1..Len(s) : Append(s, e)[i] = s[i]
      /\ Append(s, e)[Len(s) + 1] = e
  BY AppendProperties, LenProperties
<1>2. 1..Len(s) + 1 = (1..Len(s)) \cup {Len(s) + 1}
  BY <1>1
<1> QED
  BY <1>1, <1>2, Zenon DEF Range

-----------------------------------------------------------------------------
\* The queues and what has passed through them.
Moved == <<deliverq, dwaitq, arrivals, delivered>>

\* Four actions touch the queues or what is known of them (req_to_self twice,
\* the end of the callback in delivery_main, purge_reqs); the rest do not.
LEMMA QueueSteps ==
  ASSUME [Next]_vars
  PROVE  \/ \E t \in Senders : EnqueueNow(t) \/ EnqueueWait(t)
         \/ Delivered \/ PurgeWaiting
         \/ UNCHANGED Moved
<1>1. CASE UNCHANGED vars
  BY <1>1 DEF vars, queues, history, Moved
<1>2. ASSUME NEW t \in Senders, NEW r \in Reqs, Submit(t, r)
      PROVE  UNCHANGED Moved
  BY <1>2 DEF Submit, queues, Moved
<1>3. ASSUME NEW t \in Senders, Park(t) \/ Wakeup(t) \/ Reply(t)
      PROVE  UNCHANGED Moved
  BY <1>3 DEF Park, Wakeup, Reply, queues, history, Moved
<1>4. CASE LoopTop \/ StopWait \/ SpuriousWakeup
  BY <1>4 DEF LoopTop, StopWait, SpuriousWakeup, queues, history, Moved
<1>5. CASE FlushStart \/ FlushStep \/ FlushSpurious
  BY <1>5 DEF FlushStart, FlushStep, FlushCheck, FlushReturn, FlushSpurious,
              queues, history, Moved
<1>6. CASE DisableSend \/ StopDelivery \/ PurgeQueued \/ Stopped
  BY <1>6 DEF DisableSend, StopDelivery, PurgeQueued, Stopped, vars, queues,
              history, Moved
<1> QED
  BY <1>1, <1>2, <1>3, <1>4, <1>5, <1>6, Zenon
  DEF Next, SenderStep, DeliveryStep, Purge

\* The delivery thread does not come back from "exit".
LEMMA ExitStays ==
  ASSUME [Next]_vars, Purging
  PROVE  Purging'
<1>1. CASE UNCHANGED vars
  BY <1>1 DEF vars, Purging
<1>2. ASSUME NEW t \in Senders, NEW r \in Reqs, Submit(t, r)
      PROVE  Purging'
  BY <1>2 DEF Submit, Purging
<1>3. ASSUME NEW t \in Senders, SenderStep(t)
      PROVE  Purging'
  BY <1>3 DEF SenderStep, EnqueueNow, EnqueueWait, Park, Wakeup, Reply,
     Signalled, Purging
<1>4. CASE DeliveryStep \/ SpuriousWakeup
  BY <1>4 DEF DeliveryStep, LoopTop, Delivered, StopWait, SpuriousWakeup, Purging
<1>5. CASE FlushStart \/ FlushStep \/ FlushSpurious
  BY <1>5 DEF FlushStart, FlushStep, FlushCheck, FlushReturn, FlushSpurious,
     FlushWait, Signalled, Purging
<1>6. CASE DisableSend \/ StopDelivery \/ Purge \/ Stopped
  BY <1>6 DEF DisableSend, StopDelivery, Purge, PurgeWaiting, PurgeQueued,
     Stopped, vars, Signalled, Purging
<1> QED
  BY <1>1, <1>2, <1>3, <1>4, <1>5, <1>6, Zenon DEF Next

\* A request on its way into the queues is a request.
LEMMA InHand ==
  ASSUME TypeOK, PointInv, NEW t \in Senders, pc[t] = "enqueue"
  PROVE  req[t] \in Reqs
BY DEF PointInv

-----------------------------------------------------------------------------
\* The queues and their histories hold requests.
QueueTypes ==
  /\ deliverq \in Seq(Reqs) /\ dwaitq \in Seq(Reqs)
  /\ arrivals \in Seq(Reqs) /\ delivered \in Seq(Reqs)

\* A step leaves only requests on deliverq and dwaitq.
LEMMA QueueTypesStep ==
  ASSUME TypeOK, PointInv, [Next]_vars
  PROVE  QueueTypes'
<1>0. QueueTypes
  BY DEF TypeOK, QueueTypes
<1>1. ASSUME NEW t \in Senders, EnqueueNow(t)
      PROVE  QueueTypes'
  BY <1>0, <1>1, InHand, AppendProperties DEF EnqueueNow, QueueTypes
<1>2. ASSUME NEW t \in Senders, EnqueueWait(t)
      PROVE  QueueTypes'
  BY <1>0, <1>2, InHand, AppendProperties DEF EnqueueWait, QueueTypes
<1>3. CASE Delivered
  <2>1. deliverq # <<>>
    BY <1>3 DEF Delivered, PointInv
  <2>2. Head(deliverq) \in Reqs /\ Tail(deliverq) \in Seq(Reqs)
    BY <1>0, <2>1, HeadTailProperties DEF QueueTypes
  <2>3. delivered' \in Seq(Reqs) /\ arrivals' \in Seq(Reqs)
    BY <1>0, <1>3, <2>2, AppendProperties DEF Delivered, QueueTypes
  <2>4. CASE dwaitq = <<>>
    BY <1>0, <1>3, <2>2, <2>3, <2>4 DEF Delivered, Promote, QueueTypes
  <2>5. CASE dwaitq # <<>>
    <3>1. Head(dwaitq) \in Reqs /\ Tail(dwaitq) \in Seq(Reqs)
      BY <1>0, <2>5, HeadTailProperties DEF QueueTypes
    <3>2. Append(Tail(deliverq), Head(dwaitq)) \in Seq(Reqs)
      BY <2>2, <3>1, AppendProperties
    <3> QED
      BY <1>3, <2>3, <2>5, <3>1, <3>2 DEF Delivered, Promote, QueueTypes
  <2> QED
    BY <2>4, <2>5
<1>4. CASE PurgeWaiting
  BY <1>0, <1>4, HeadTailProperties DEF PurgeWaiting, QueueTypes
<1>5. CASE UNCHANGED Moved
  BY <1>0, <1>5 DEF Moved, QueueTypes
<1> QED
  BY <1>1, <1>2, <1>3, <1>4, <1>5, QueueSteps

\* The rest of the types, in three parts.
ThreadTypes ==
  /\ dtask \in {"run", "asleep", "callback", "stopwait", "exit"}
  /\ pc \in [Senders -> {"idle", "enqueue", "park", "blocked", "reply"}]
  /\ req \in [Senders -> Reqs \cup {NoReq}]
  /\ flusher \in {"idle", "asleep", "check", "drop"}
  /\ stop \in {"no", "disabled", "dshutdown", "done", "undefined"}
  /\ todo \subseteq Reqs /\ by \in [Reqs -> Senders \cup {NoThread}]

\* A step leaves every thread at one of its program points.
LEMMA ThreadTypesStep ==
  ASSUME TypeOK, [Next]_vars
  PROVE  ThreadTypes'
<1>0. ThreadTypes
  BY DEF TypeOK, ThreadTypes
<1>1. CASE UNCHANGED vars
  BY <1>0, <1>1 DEF vars, history, ThreadTypes
<1>2. ASSUME NEW t \in Senders, NEW r \in Reqs, Submit(t, r)
      PROVE  ThreadTypes'
  BY <1>0, <1>2 DEF Submit, Goto, ThreadTypes
<1>3. ASSUME NEW t \in Senders, EnqueueNow(t) \/ EnqueueWait(t)
      PROVE  ThreadTypes'
  BY <1>0, <1>3 DEF EnqueueNow, EnqueueWait, Goto, Signalled, ThreadTypes
<1>4. ASSUME NEW t \in Senders, Park(t) \/ Wakeup(t) \/ Reply(t)
      PROVE  ThreadTypes'
  BY <1>0, <1>4 DEF Park, Wakeup, Reply, Goto, history, ThreadTypes
<1>5. CASE LoopTop \/ StopWait \/ SpuriousWakeup
  BY <1>0, <1>5 DEF LoopTop, StopWait, SpuriousWakeup, history, ThreadTypes
<1>6. CASE Delivered
  BY <1>0, <1>6 DEF Delivered, ThreadTypes
<1>7. CASE FlushStart \/ FlushStep \/ FlushSpurious
  BY <1>0, <1>7 DEF FlushStart, FlushStep, FlushCheck, FlushReturn,
     FlushSpurious, FlushWait, Signalled, history, ThreadTypes
<1>8. CASE DisableSend \/ StopDelivery \/ PurgeWaiting \/ PurgeQueued \/ Stopped
  BY <1>0, <1>8 DEF DisableSend, StopDelivery, PurgeWaiting, PurgeQueued,
     Stopped, Signalled, vars, history, ThreadTypes
<1> QED
  BY <1>1, <1>2, <1>3, <1>4, <1>5, <1>6, <1>7, <1>8, Zenon
  DEF Next, SenderStep, DeliveryStep, Purge

\* The parents of req_parent_init, and the request last promoted.
ParentTypes ==
  /\ promoted \in Reqs \cup {NoReq}
  /\ nrefs \in [Reqs -> Int] /\ need_wakeup \in [Reqs -> BOOLEAN]
  /\ responded \subseteq Reqs /\ cancelled \subseteq Reqs

\* A parent dropped by parent_dref_stopwait or purge_reqs is a request's.
LEMMA ParentTypesStep ==
  ASSUME TypeOK, PointInv, [Next]_vars
  PROVE  ParentTypes'
<1>0. ParentTypes /\ QueueTypes
  BY DEF TypeOK, ParentTypes, QueueTypes
<1>1. CASE UNCHANGED vars
  BY <1>0, <1>1 DEF vars, parents, history, ParentTypes
<1>2. ASSUME NEW t \in Senders, NEW r \in Reqs, Submit(t, r)
      PROVE  ParentTypes'
  BY <1>0, <1>2 DEF Submit, parents, ParentTypes
<1>3. ASSUME NEW t \in Senders, EnqueueNow(t) \/ EnqueueWait(t)
      PROVE  ParentTypes'
  BY <1>0, <1>3 DEF EnqueueNow, EnqueueWait, ParentRefs, parents, ParentTypes
<1>4. ASSUME NEW t \in Senders, Park(t) \/ Wakeup(t) \/ Reply(t)
      PROVE  ParentTypes'
  <2>1. req[t] \in Reqs
    BY <1>4 DEF Park, Wakeup, Reply, PointInv
  <2>2. CASE Park(t)
    <3>1. nrefs' \in [Reqs -> Int]
      BY <1>0, <2>1, <2>2 DEF Park, ParentTypes
    <3>2. need_wakeup' \in [Reqs -> BOOLEAN]
      BY <1>0, <2>1, <2>2, Zenon DEF Park, ParentTypes
    <3> QED
      BY <1>0, <2>2, <3>1, <3>2 DEF Park, history, ParentTypes
  <2>3. CASE Wakeup(t)
    BY <1>0, <2>3 DEF Wakeup, parents, history, ParentTypes
  <2>4. CASE Reply(t)
    BY <1>0, <2>1, <2>4 DEF Reply, history, ParentTypes
  <2> QED
    BY <1>4, <2>2, <2>3, <2>4
<1>5. CASE LoopTop \/ SpuriousWakeup
  BY <1>0, <1>5 DEF LoopTop, SpuriousWakeup, parents, history, ParentTypes
<1>6. CASE Delivered
  <2>1. dwaitq # <<>> => Head(dwaitq) \in Reqs
    BY <1>0, HeadTailProperties DEF QueueTypes
  <2> QED
    BY <1>0, <1>6, <2>1 DEF Delivered, Promote, parents, ParentTypes
<1>7. CASE StopWait
  <2>1. promoted \in Reqs
    BY <1>7 DEF StopWait, PointInv
  <2>2. nrefs' \in [Reqs -> Int]
    BY <1>0, <1>7, <2>1 DEF StopWait, ParentTypes
  <2>3. need_wakeup' \in [Reqs -> BOOLEAN]
    BY <1>0, <1>7, <2>1, Zenon DEF StopWait, ParentTypes
  <2> QED
    BY <1>0, <1>7, <2>1, <2>2, <2>3 DEF StopWait, history, ParentTypes
<1>8. CASE FlushStart \/ FlushStep \/ FlushSpurious
  BY <1>0, <1>8 DEF FlushStart, FlushStep, FlushCheck, FlushReturn,
     FlushSpurious, parents, history, ParentTypes
<1>9. CASE PurgeWaiting
  <2>1. Head(dwaitq) \in Reqs
    BY <1>0, <1>9, HeadTailProperties DEF PurgeWaiting, QueueTypes
  <2> QED
    BY <1>0, <1>9, <2>1 DEF PurgeWaiting, ParentTypes
<1>10. CASE DisableSend \/ StopDelivery \/ PurgeQueued \/ Stopped
  BY <1>0, <1>10 DEF DisableSend, StopDelivery, PurgeQueued, Stopped, vars,
     parents, history, ParentTypes
<1> QED
  BY <1>1, <1>2, <1>3, <1>4, <1>5, <1>6, <1>7, <1>8, <1>9, <1>10, Zenon
  DEF Next, SenderStep, DeliveryStep, FlushStep, Purge

\* The variables of shuffler_flush_delivery.
FlushTypes == dflush_counter \in Nat /\ fset \subseteq Reqs /\ nflush \in Nat

\* A step leaves the counter of shuffler_flush_delivery a natural number.
LEMMA FlushTypesStep ==
  ASSUME TypeOK, [Next]_vars
  PROVE  FlushTypes'
<1>0. FlushTypes /\ QueueTypes
  BY DEF TypeOK, FlushTypes, QueueTypes
<1>1. CASE UNCHANGED vars
  BY <1>0, <1>1 DEF vars, history, FlushTypes
<1>2. ASSUME NEW t \in Senders, NEW r \in Reqs, Submit(t, r)
      PROVE  FlushTypes'
  BY <1>0, <1>2 DEF Submit, FlushTypes
<1>3. ASSUME NEW t \in Senders, SenderStep(t)
      PROVE  FlushTypes'
  BY <1>0, <1>3 DEF SenderStep, EnqueueNow, EnqueueWait, Park, Wakeup, Reply,
     history, FlushTypes
<1>4. CASE LoopTop \/ StopWait \/ SpuriousWakeup
  BY <1>0, <1>4 DEF LoopTop, StopWait, SpuriousWakeup, history, FlushTypes
<1>5. CASE Delivered
  BY <1>0, <1>5 DEF Delivered, DropCounter, FlushTypes
<1>6. CASE FlushStart
  <2>1. FlushCount \in Nat
    BY <1>0, LenProperties DEF FlushCount, QueueTypes
  <2>2. Range(arrivals) \subseteq Reqs
    BY <1>0, LenProperties DEF Range, QueueTypes
  <2> QED
    BY <1>0, <1>6, <2>1, <2>2 DEF FlushStart, FlushTypes
<1>7. CASE FlushStep \/ FlushSpurious
  BY <1>0, <1>7 DEF FlushStep, FlushCheck, FlushReturn, FlushSpurious, history,
     FlushTypes
<1>8. CASE DisableSend \/ StopDelivery \/ PurgeWaiting \/ PurgeQueued \/ Stopped
  BY <1>0, <1>8 DEF DisableSend, StopDelivery, PurgeWaiting, PurgeQueued,
     Stopped, vars, history, FlushTypes
<1> QED
  BY <1>1, <1>2, <1>3, <1>4, <1>5, <1>6, <1>7, <1>8, Zenon
  DEF Next, DeliveryStep, Purge

\* Every step keeps the types.
LEMMA TypeStep ==
  ASSUME TypeOK, PointInv, [Next]_vars
  PROVE  TypeOK'
BY QueueTypesStep, ThreadTypesStep, ParentTypesStep, FlushTypesStep
DEF TypeOK, QueueTypes, ThreadTypes, ParentTypes, FlushTypes

-----------------------------------------------------------------------------
\* req_to_self queues at once only if nothing waits, and delivery_main gives
\* a freed slot to what waits: the limit holds, and what waits does so behind
\* a full queue.
LEMMA BoundStep ==
  ASSUME DeliveryInv, [Next]_vars
  PROVE  QueueBound'
<1>0. /\ deliverq \in Seq(Reqs) /\ dwaitq \in Seq(Reqs)
      /\ Len(deliverq) \in Nat /\ deliverq_max \in Nat
  BY DeliveryConfig, LenProperties DEF DeliveryInv, TypeOK
<1>1. ASSUME NEW t \in Senders, EnqueueNow(t)
      PROVE  QueueBound'
  <2>1. Len(deliverq') = Len(deliverq) + 1
    BY <1>0, <1>1, InHand, AppendProperties DEF EnqueueNow, DeliveryInv
  <2>2. ~Purging
    BY <1>1 DEF DeliveryInv, PointInv, EnqueueNow, Senders
  <2>3. dwaitq = <<>>
    BY <1>0, <1>1, <2>2 DEF DeliveryInv, QueueBound, EnqueueNow, NeedWait
  <2> QED
    BY <1>0, <1>1, <2>1, <2>3 DEF EnqueueNow, NeedWait, QueueBound
<1>2. ASSUME NEW t \in Senders, EnqueueWait(t)
      PROVE  QueueBound'
  BY <1>0, <1>2 DEF EnqueueWait, NeedWait, QueueBound, DeliveryInv
<1>3. CASE Delivered
  <2>1. deliverq # <<>> /\ ~Purging
    BY <1>3 DEF Delivered, DeliveryInv, PointInv, Purging
  <2>2. Tail(deliverq) \in Seq(Reqs) /\ Len(Tail(deliverq)) = Len(deliverq) - 1
    BY <1>0, <2>1, HeadTailProperties
  <2>3. CASE dwaitq = <<>>
    BY <1>0, <1>3, <2>2, <2>3 DEF Delivered, Promote, QueueBound, DeliveryInv
  <2>4. CASE dwaitq # <<>>
    <3>1. Head(dwaitq) \in Reqs
      BY <1>0, <2>4, HeadTailProperties
    <3>2. Len(deliverq') = Len(deliverq)
      BY <1>0, <1>3, <2>2, <2>4, <3>1, AppendProperties DEF Delivered, Promote
    <3> QED
      BY <2>1, <2>4, <3>2 DEF QueueBound, DeliveryInv
  <2> QED
    BY <2>3, <2>4
<1>4. CASE PurgeWaiting
  BY <1>0, <1>4 DEF PurgeWaiting, QueueBound, Purging, DeliveryInv
<1>5. CASE UNCHANGED Moved
  <2>1. Purging => Purging'
    BY ExitStays
  <2> QED
    BY <1>5, <2>1 DEF Moved, QueueBound, DeliveryInv
<1> QED
  BY <1>1, <1>2, <1>3, <1>4, <1>5, QueueSteps

\* The order of arrival is the order of deliverq and of dwaitq behind it:
\* req_to_self appends to the last that is not empty, delivery_main moves
\* heads forward.
LEMMA OrderStep ==
  ASSUME DeliveryInv, [Next]_vars
  PROVE  InOrder'
<1>0. /\ deliverq \in Seq(Reqs) /\ dwaitq \in Seq(Reqs) /\ delivered \in Seq(Reqs)
      /\ arrivals \in Seq(Reqs) /\ deliverq \o dwaitq \in Seq(Reqs)
  BY ConcatProperties DEF DeliveryInv, TypeOK
<1>1. ASSUME NEW t \in Senders, EnqueueNow(t)
      PROVE  InOrder'
  <2>1. ~Purging /\ req[t] \in Reqs
    BY <1>1, InHand DEF DeliveryInv, PointInv, EnqueueNow, Senders
  <2>2. dwaitq = <<>>
    <3>1. Len(deliverq) \in Nat /\ deliverq_max \in Nat
      BY <1>0, LenProperties, DeliveryConfig
    <3> QED
      BY <1>1, <2>1, <3>1 DEF DeliveryInv, QueueBound, EnqueueNow, NeedWait
  <2>3. Append(deliverq, req[t]) \in Seq(Reqs)
    BY <1>0, <2>1, AppendProperties
  <2>4. /\ Append(deliverq, req[t]) \o dwaitq = Append(deliverq, req[t])
        /\ deliverq \o dwaitq = deliverq
    BY <1>0, <2>2, <2>3, ConcatEmptySeq
  <2>5. delivered \o Append(deliverq, req[t]) = Append(delivered \o deliverq, req[t])
    BY <1>0, <2>1, AppendToLast
  <2> QED
    BY <1>1, <2>1, <2>4, <2>5 DEF EnqueueNow, InOrder, DeliveryInv
<1>2. ASSUME NEW t \in Senders, EnqueueWait(t)
      PROVE  InOrder'
  <2>1. ~Purging /\ req[t] \in Reqs
    BY <1>2, InHand DEF DeliveryInv, PointInv, EnqueueWait, Senders
  <2>2. deliverq \o Append(dwaitq, req[t]) = Append(deliverq \o dwaitq, req[t])
    BY <1>0, <2>1, AppendToLast
  <2>3. delivered \o Append(deliverq \o dwaitq, req[t])
          = Append(delivered \o (deliverq \o dwaitq), req[t])
    BY <1>0, <2>1, AppendToLast
  <2> QED
    BY <1>2, <2>1, <2>2, <2>3 DEF EnqueueWait, InOrder, DeliveryInv
<1>3. CASE Delivered
  <2>1. deliverq # <<>> /\ ~Purging
    BY <1>3 DEF Delivered, DeliveryInv, PointInv, Purging
  <2>2. Head(deliverq) \in Reqs /\ Tail(deliverq) \in Seq(Reqs)
    BY <1>0, <2>1, HeadTailProperties
  <2>3. deliverq' \o dwaitq' = Tail(deliverq) \o dwaitq
    <3>1. CASE dwaitq = <<>>
      BY <1>3, <3>1 DEF Delivered, Promote
    <3>2. CASE dwaitq # <<>>
      BY <1>0, <1>3, <2>2, <3>2, MoveHead DEF Delivered, Promote
    <3> QED
      BY <3>1, <3>2
  <2>4. Append(delivered, Head(deliverq)) \o (Tail(deliverq) \o dwaitq)
          = delivered \o (deliverq \o dwaitq)
    BY <1>0, <2>1, MoveHeadBefore, Zenon
  <2> QED
    BY <1>3, <2>1, <2>3, <2>4 DEF Delivered, InOrder, DeliveryInv
<1>4. CASE PurgeWaiting
  BY <1>4 DEF PurgeWaiting, InOrder, Purging
<1>5. CASE UNCHANGED Moved
  BY <1>5, ExitStays DEF Moved, InOrder, DeliveryInv
<1> QED
  BY <1>1, <1>2, <1>3, <1>4, <1>5, QueueSteps

-----------------------------------------------------------------------------
\* The program points keep what they say, the part about the queues first.
LEMMA CallbackStep ==
  ASSUME DeliveryInv, [Next]_vars
  PROVE  /\ dtask' = "callback" => deliverq' # <<>>
         /\ dtask' = "stopwait" => promoted' \in Reqs
<1>0. /\ dtask = "callback" => deliverq # <<>>
      /\ dtask = "stopwait" => promoted \in Reqs
      /\ deliverq \in Seq(Reqs) /\ dwaitq \in Seq(Reqs)
  BY DEF DeliveryInv, PointInv, TypeOK
<1>1. CASE UNCHANGED vars
  BY <1>0, <1>1 DEF vars, queues
<1>2. ASSUME NEW t \in Senders, NEW r \in Reqs, Submit(t, r)
      PROVE  UNCHANGED <<dtask, deliverq, promoted>>
  BY <1>2 DEF Submit, queues
<1>3. ASSUME NEW t \in Senders, EnqueueNow(t)
      PROVE  deliverq' # <<>> /\ promoted' = promoted /\ dtask' \in {dtask, "run"}
  BY <1>0, <1>3, InHand, AppendProperties DEF EnqueueNow, Signalled, DeliveryInv
<1>4. ASSUME NEW t \in Senders, EnqueueWait(t) \/ Park(t) \/ Wakeup(t) \/ Reply(t)
      PROVE  UNCHANGED <<dtask, deliverq, promoted>>
  BY <1>4 DEF EnqueueWait, Park, Wakeup, Reply, queues
<1>5. CASE LoopTop \/ StopWait \/ SpuriousWakeup
  BY <1>5 DEF LoopTop, StopWait, SpuriousWakeup, queues
<1>6. CASE Delivered
  <2>1. dwaitq # <<>> => Head(dwaitq) \in Reqs
    BY <1>0, HeadTailProperties
  <2> QED
    BY <1>6, <2>1 DEF Delivered, Promote
<1>7. CASE FlushStart \/ FlushStep \/ FlushSpurious
  BY <1>0, <1>7 DEF FlushStart, FlushStep, FlushCheck, FlushReturn,
     FlushSpurious, FlushWait, Signalled, queues
<1>8. CASE DisableSend \/ StopDelivery \/ PurgeQueued \/ Stopped
  BY <1>0, <1>8 DEF DisableSend, StopDelivery, PurgeQueued, Stopped, Signalled,
     vars, queues
<1>9. CASE PurgeWaiting
  BY <1>9 DEF PurgeWaiting
<1> QED
  BY <1>0, <1>1, <1>2, <1>3, <1>4, <1>5, <1>6, <1>7, <1>8, <1>9
  DEF Next, SenderStep, DeliveryStep, Purge

\* A request is brought to the queues once, by one thread.
Once ==
  /\ todo \cap Range(arrivals) = {}
  /\ \A t \in Senders : pc[t] # "idle" => req[t] \in Reqs \ todo
  /\ \A t \in Senders : pc[t] = "enqueue" => req[t] \notin Range(arrivals)
  /\ \A t, u \in Senders :
       pc[t] = "enqueue" /\ pc[u] = "enqueue" /\ req[t] = req[u] => t = u

\* A step leaves each request with one sender, which queues it once.
LEMMA OnceStep ==
  ASSUME DeliveryInv, [Next]_vars
  PROVE  Once'
<1>0. /\ Once /\ arrivals \in Seq(Reqs) /\ todo \subseteq Reqs
      /\ pc \in [Senders -> {"idle", "enqueue", "park", "blocked", "reply"}]
      /\ req \in [Senders -> Reqs \cup {NoReq}]
  BY DEF DeliveryInv, PointInv, TypeOK, Once
<1>1. ASSUME NEW t \in Senders, NEW r \in Reqs, Submit(t, r)
      PROVE  Once'
  <2>1. /\ pc' = [pc EXCEPT ![t] = "enqueue"] /\ req' = [req EXCEPT ![t] = r]
        /\ todo' = todo \ {r} /\ r \in todo /\ arrivals' = arrivals
    BY <1>1 DEF Submit, Goto
  <2> QED
    BY <1>0, <2>1 DEF Once
<1>2. ASSUME NEW t \in Senders, EnqueueNow(t) \/ EnqueueWait(t)
      PROVE  Once'
  <2>1. /\ pc[t] = "enqueue" /\ req' = req /\ todo' = todo
        /\ arrivals' = Append(arrivals, req[t])
        /\ \E l \in {"idle", "reply", "park"} : pc' = [pc EXCEPT ![t] = l]
    BY <1>2 DEF EnqueueNow, EnqueueWait, Goto
  <2>2. req[t] \in Reqs \ todo
    BY <1>0, <2>1 DEF Once
  <2>3. Range(arrivals') = Range(arrivals) \cup {req[t]}
    BY <1>0, <2>1, <2>2, AppendRange
  <2> QED
    BY <1>0, <2>1, <2>2, <2>3 DEF Once
<1>3. ASSUME NEW t \in Senders, Park(t) \/ Wakeup(t) \/ Reply(t)
      PROVE  Once'
  <2>1. /\ pc[t] # "idle" /\ req' = req /\ todo' = todo /\ arrivals' = arrivals
        /\ \E l \in {"idle", "blocked"} : pc' = [pc EXCEPT ![t] = l]
    BY <1>3 DEF Park, Wakeup, Reply, Goto, history
  <2> QED
    BY <1>0, <2>1 DEF Once
<1>4. CASE UNCHANGED <<pc, req, todo, arrivals>>
  BY <1>0, <1>4 DEF Once
<1>5. CASE UNCHANGED vars
  BY <1>4, <1>5 DEF vars, history
<1>6. CASE DeliveryStep \/ SpuriousWakeup
  BY <1>4, <1>6 DEF DeliveryStep, LoopTop, Delivered, StopWait, SpuriousWakeup,
     history
<1>7. CASE FlushStart \/ FlushStep \/ FlushSpurious
  BY <1>4, <1>7 DEF FlushStart, FlushStep, FlushCheck, FlushReturn,
     FlushSpurious, history
<1>8. CASE DisableSend \/ StopDelivery \/ Purge \/ Stopped
  BY <1>4, <1>8 DEF DisableSend, StopDelivery, Purge, PurgeWaiting, PurgeQueued,
     Stopped, vars, history
<1> QED
  BY <1>1, <1>2, <1>3, <1>5, <1>6, <1>7, <1>8, Zenon DEF Next, SenderStep

\* shuffler_shutdown finds senders and flushes gone, and none comes later.
StopOrder ==
  /\ flusher # "idle" => stop = "no"
  /\ stop # "no" => \A t \in Clients : pc[t] = "idle"
  /\ stop \notin {"no", "disabled"} => \A t \in Handlers : pc[t] = "idle"
  /\ Purging => stop \notin {"no", "disabled"}

\* A step keeps to the order of shuffler_shutdown: senders and flushes are
\* gone before the delivery thread is told to stop.
LEMMA StopOrderStep ==
  ASSUME DeliveryInv, [Next]_vars
  PROVE  StopOrder'
<1>0. /\ StopOrder
      /\ pc \in [Senders -> {"idle", "enqueue", "park", "blocked", "reply"}]
      /\ Senders = Clients \cup Handlers
  BY DEF DeliveryInv, PointInv, TypeOK, StopOrder, Senders
<1>1. ASSUME NEW t \in Senders, NEW r \in Reqs, Submit(t, r)
      PROVE  StopOrder'
  BY <1>0, <1>1 DEF Submit, Goto, StopOrder, Purging
<1>2. ASSUME NEW t \in Senders, SenderStep(t)
      PROVE  StopOrder'
  <2>1. /\ pc[t] # "idle" /\ UNCHANGED <<stop, flusher>> /\ dtask' \in {dtask, "run"}
        /\ \E l : pc' = [pc EXCEPT ![t] = l]
    BY <1>2 DEF SenderStep, EnqueueNow, EnqueueWait, Park, Wakeup, Reply, Goto,
       Signalled
  <2> QED
    BY <1>0, <2>1 DEF StopOrder, Purging
<1>3. CASE UNCHANGED <<pc, stop, flusher>> /\ (Purging' => Purging \/ stop = "dshutdown")
  BY <1>0, <1>3 DEF StopOrder
<1>4. CASE UNCHANGED vars
  BY <1>3, <1>4 DEF vars, Purging
<1>5. CASE LoopTop \/ StopWait \/ SpuriousWakeup
  BY <1>3, <1>5 DEF LoopTop, StopWait, SpuriousWakeup, Purging
<1>6. CASE Delivered
  BY <1>0, <1>6 DEF Delivered, StopOrder, Purging
<1>7. CASE FlushStart \/ FlushStep \/ FlushSpurious
  BY <1>0, <1>7 DEF FlushStart, FlushStep, FlushCheck, FlushReturn,
     FlushSpurious, FlushWait, Signalled, StopOrder, Purging
<1>8. CASE DisableSend \/ StopDelivery \/ Purge \/ Stopped
  BY <1>0, <1>8 DEF DisableSend, StopDelivery, Purge, PurgeWaiting, PurgeQueued,
     Stopped, vars, Signalled, StopOrder, Purging
<1> QED
  BY <1>1, <1>2, <1>4, <1>5, <1>6, <1>7, <1>8, Zenon DEF Next, DeliveryStep

\* A step keeps what the program points say.
LEMMA PointStep ==
  ASSUME DeliveryInv, [Next]_vars
  PROVE  PointInv'
BY CallbackStep, OnceStep, StopOrderStep DEF PointInv, Once, StopOrder

-----------------------------------------------------------------------------
\* The requests that have been delivered are the first ones that arrived.
LEMMA DeliveredFirst ==
  ASSUME DeliveryInv, ~Purging
  PROVE  /\ Len(delivered) \in Nat /\ Len(arrivals) \in Nat
         /\ Len(deliverq) \in Nat /\ Len(dwaitq) \in Nat
         /\ Len(arrivals) = Len(delivered) + (Len(deliverq) + Len(dwaitq))
         /\ DOMAIN delivered = 1..Len(delivered) /\ DOMAIN arrivals = 1..Len(arrivals)
         /\ \A i \in 1..Len(delivered) : arrivals[i] = delivered[i]
         /\ deliverq # <<>> => arrivals[Len(delivered) + 1] = Head(deliverq)
<1>1. /\ deliverq \in Seq(Reqs) /\ dwaitq \in Seq(Reqs) /\ delivered \in Seq(Reqs)
      /\ arrivals \in Seq(Reqs)
  BY DEF DeliveryInv, TypeOK
<1>2. /\ Len(delivered) \in Nat /\ Len(arrivals) \in Nat
      /\ Len(deliverq) \in Nat /\ Len(dwaitq) \in Nat
      /\ DOMAIN delivered = 1..Len(delivered) /\ DOMAIN arrivals = 1..Len(arrivals)
  BY <1>1, LenProperties
<1>3. arrivals = delivered \o (deliverq \o dwaitq)
  BY DEF DeliveryInv, InOrder
<1> QED
  BY <1>1, <1>2, <1>3, FirstOfThree

\* dflush_counter: set by shuffler_flush_delivery to what is queued, lowered
\* by each delivery, not touched by arrivals.
LEMMA CountsStep ==
  ASSUME DeliveryInv, [Next]_vars
  PROVE  FlushCounts'
<1>0. /\ arrivals \in Seq(Reqs) /\ delivered \in Seq(Reqs) /\ dflush_counter \in Nat
      /\ flusher \in {"idle", "asleep", "check", "drop"} /\ fset \subseteq Reqs
      /\ FlushCounts /\ Len(arrivals) \in Nat /\ Len(delivered) \in Nat
  BY LenProperties DEF DeliveryInv, TypeOK
<1>1. ASSUME NEW t \in Senders, EnqueueNow(t) \/ EnqueueWait(t)
      PROVE  FlushCounts'
  <2>1. req[t] \in Reqs
    BY <1>1, InHand DEF DeliveryInv, EnqueueNow, EnqueueWait
  <2>2. /\ arrivals' = Append(arrivals, req[t])
        /\ UNCHANGED <<delivered, dflush_counter, flusher, fset>>
    BY <1>1 DEF EnqueueNow, EnqueueWait
  <2>3. /\ Len(arrivals') = Len(arrivals) + 1
        /\ \A i \in 1..Len(arrivals) : arrivals'[i] = arrivals[i]
    BY <1>0, <2>1, <2>2, AppendProperties
  <2>4. ASSUME NEW n \in Nat, n <= Len(arrivals)
        PROVE  {arrivals'[i] : i \in 1..n} = {arrivals[i] : i \in 1..n}
    BY <1>0, <2>3, <2>4
  <2>5. Len(delivered) + dflush_counter \in Nat
    BY <1>0
  <2> QED
    BY <1>0, <2>2, <2>3, <2>4, <2>5 DEF FlushCounts
<1>2. CASE Delivered
  <2>1. ~Purging /\ deliverq # <<>>
    BY <1>2 DEF Delivered, Purging, DeliveryInv, PointInv
  <2>2. /\ UNCHANGED <<arrivals, fset>>
        /\ delivered' = Append(delivered, Head(deliverq))
        /\ dflush_counter' = IF dflush_counter > 0 THEN dflush_counter - 1 ELSE 0
        /\ flusher' \in {flusher, "check"} /\ (flusher' # flusher => flusher = "asleep")
    BY <1>2 DEF Delivered, DropCounter
  <2>3. Head(deliverq) \in Reqs
    BY <2>1, HeadTailProperties DEF DeliveryInv, TypeOK
  <2>4. /\ Len(delivered') = Len(delivered) + 1
        /\ Range(delivered') = Range(delivered) \cup {Head(deliverq)}
    BY <1>0, <2>2, <2>3, AppendProperties, AppendRange
  <2>5. CASE dflush_counter = 0 \/ flusher \in {"idle", "drop"}
    BY <1>0, <2>2, <2>4, <2>5 DEF FlushCounts
  <2>6. CASE dflush_counter > 1 /\ flusher \in {"asleep", "check"}
    <3>1. Len(delivered') + dflush_counter' = Len(delivered) + dflush_counter
      BY <1>0, <2>2, <2>4, <2>6
    <3> QED
      BY <1>0, <2>2, <2>6, <3>1 DEF FlushCounts
  <2>7. CASE dflush_counter = 1 /\ flusher \in {"asleep", "check"}
    <3>1. fset = {arrivals[i] : i \in 1..Len(delivered) + 1}
      BY <1>0, <2>7 DEF FlushCounts
    <3>2. ASSUME NEW i \in 1..Len(delivered) + 1
          PROVE  arrivals[i] \in Range(delivered) \cup {Head(deliverq)}
      <4>1. CASE i = Len(delivered) + 1
        BY <2>1, <4>1, DeliveredFirst
      <4>2. CASE i # Len(delivered) + 1
        <5>1. i \in 1..Len(delivered)
          BY <1>0, <4>2
        <5>2. arrivals[i] = delivered[i] /\ i \in DOMAIN delivered
          BY <2>1, <5>1, DeliveredFirst
        <5> QED
          BY <5>2 DEF Range
      <4> QED
        BY <4>1, <4>2
    <3>3. fset \subseteq Range(delivered')
      BY <2>4, <3>1, <3>2
    <3>4. dflush_counter' = 0 /\ fset' = fset /\ flusher' # "idle"
      BY <2>2, <2>7
    <3> QED
      BY <3>3, <3>4 DEF FlushCounts
  <2> QED
    BY <1>0, <2>5, <2>6, <2>7
<1>3. CASE FlushStart
  <2>1. ~Purging
    BY <1>3 DEF FlushStart, DeliveryInv, PointInv
  <2>2. Len(arrivals) = Len(delivered) + FlushCount /\ FlushCount \in Nat
    BY <2>1, DeliveredFirst DEF FlushCount
  <2>3. fset' = {arrivals[i] : i \in 1..Len(arrivals)}
    BY <1>3, <2>1, DeliveredFirst DEF FlushStart, Range
  <2>4. /\ UNCHANGED <<arrivals, delivered>> /\ dflush_counter' = FlushCount
        /\ flusher' = IF FlushCount > 0 THEN "asleep" ELSE "drop"
    BY <1>3, <2>2 DEF FlushStart, FlushWait
  <2>5. CASE FlushCount > 0
    BY <1>0, <2>2, <2>3, <2>4, <2>5 DEF FlushCounts
  <2>6. CASE FlushCount = 0
    <3>1. \A i \in 1..Len(arrivals) : arrivals[i] \in Range(delivered)
      BY <1>0, <2>1, <2>2, <2>6, DeliveredFirst DEF Range
    <3>2. fset' \subseteq Range(delivered')
      BY <2>3, <2>4, <3>1
    <3> QED
      BY <2>4, <2>6, <3>2 DEF FlushCounts
  <2> QED
    BY <2>2, <2>5, <2>6
<1>4. CASE FlushStep \/ FlushSpurious
  <2>1. UNCHANGED <<arrivals, delivered, dflush_counter>>
    BY <1>4 DEF FlushStep, FlushCheck, FlushReturn, FlushSpurious, history
  <2>2. CASE FlushCheck
    BY <1>0, <2>1, <2>2 DEF FlushCheck, FlushWait, history, FlushCounts
  <2>3. CASE FlushReturn
    BY <1>0, <2>1, <2>3 DEF FlushReturn, FlushCounts
  <2>4. CASE FlushSpurious
    BY <1>0, <2>1, <2>4 DEF FlushSpurious, history, FlushCounts
  <2> QED
    BY <1>4, <2>2, <2>3, <2>4 DEF FlushStep
<1>5. CASE UNCHANGED <<arrivals, delivered, dflush_counter, flusher, fset>>
  BY <1>0, <1>5 DEF FlushCounts
<1>6. CASE UNCHANGED vars
  BY <1>5, <1>6 DEF vars, history
<1>7. ASSUME NEW t \in Senders, NEW r \in Reqs, Submit(t, r)
      PROVE  FlushCounts'
  BY <1>5, <1>7 DEF Submit
<1>8. ASSUME NEW t \in Senders, Park(t) \/ Wakeup(t) \/ Reply(t)
      PROVE  FlushCounts'
  BY <1>5, <1>8 DEF Park, Wakeup, Reply, history
<1>9. CASE LoopTop \/ StopWait \/ SpuriousWakeup
  BY <1>5, <1>9 DEF LoopTop, StopWait, SpuriousWakeup, history
<1>10. CASE DisableSend \/ StopDelivery \/ Purge \/ Stopped
  BY <1>5, <1>10 DEF DisableSend, StopDelivery, Purge, PurgeWaiting, PurgeQueued,
     Stopped, vars, history
<1> QED
  BY <1>1, <1>2, <1>3, <1>4, <1>6, <1>7, <1>8, <1>9, <1>10, Zenon
  DEF Next, SenderStep, DeliveryStep

-----------------------------------------------------------------------------
\* The queues as shuffler_init leaves them satisfy the invariant.
LEMMA InitInv ==
  ASSUME Init
  PROVE  DeliveryInv
<1>1. <<>> \in Seq(Reqs) /\ Len(<<>>) = 0 /\ Range(<<>>) = {}
  BY EmptySeq DEF Range
<1>2. TypeOK
  BY <1>1 DEF Init, TypeOK
<1>3. QueueBound /\ FlushCounts
  BY <1>1, DeliveryConfig DEF Init, QueueBound, FlushCounts
<1>4. InOrder
  BY <1>1, ConcatEmptySeq DEF Init, InOrder
<1>5. PointInv
  BY <1>1 DEF Init, PointInv, Purging, Senders
<1> QED
  BY <1>2, <1>3, <1>4, <1>5 DEF DeliveryInv

\* The delivery queue keeps its limit and the order of arrival, and a flush
\* counts what it waits for, at every interleaving of the threads of
\* shuffler_send, shuffler_rpchand, delivery_main, shuffler_flush_delivery and
\* shuffler_shutdown, for any number of them and any limits.
THEOREM DeliveryCorrect == Spec => []DeliveryInv
<1>1. DeliveryInv /\ [Next]_vars => DeliveryInv'
  <2> SUFFICES ASSUME DeliveryInv, [Next]_vars
               PROVE  DeliveryInv'
    OBVIOUS
  <2>1. TypeOK'
    BY TypeStep DEF DeliveryInv
  <2> QED
    BY <2>1, BoundStep, OrderStep, PointStep, CountsStep DEF DeliveryInv
<1> QED
  BY InitInv, <1>1, PTL DEF Spec

-----------------------------------------------------------------------------
(* The delivery queue implements Mailbox.                                  *)

\* Mailbox's elements of a sequence.
LEMMA Elements == \A s : Promise!ItemsOf(s) = Range(s)
BY DEF Promise!ItemsOf, Range

\* The steps that Mailbox does not see.
LEMMA Invisible ==
  ASSUME UNCHANGED <<arrivals, delivered, fset>>,
         flusher' = flusher \/ (flusher # "idle" /\ flusher' # "idle")
  PROVE  UNCHANGED Promise!vars
BY DEF Promise!vars

\* The end of a callback hands on the oldest request not handed on yet.
LEMMA HandsNext ==
  ASSUME DeliveryInv, Delivered
  PROVE  Promise!Hand
<1>0. arrivals \in Seq(Reqs) /\ delivered \in Seq(Reqs) /\ deliverq \in Seq(Reqs)
  BY DEF DeliveryInv, TypeOK
<1>1. deliverq # <<>> /\ ~Purging
  BY DEF DeliveryInv, PointInv, Delivered, Purging
<1>2. Head(deliverq) \in Reqs
  BY <1>0, <1>1, HeadTailProperties
<1>3. /\ Len(delivered) < Len(arrivals)
      /\ \A i \in 1..Len(delivered) : arrivals[i] = delivered[i]
      /\ arrivals[Len(delivered) + 1] = Head(deliverq)
  BY <1>1, DeliveredFirst
<1> DEFINE n == Len(delivered) + 1
           head == SubSeq(arrivals, 1, n)
<1>4. Len(delivered) \in Nat /\ Len(arrivals) \in Nat
  BY <1>0, LenProperties
<1>5. n \in Len(delivered) + 1..Len(arrivals)
  BY <1>3, <1>4
<1>6. /\ delivered' \in Seq(Reqs) /\ Len(delivered') = n
      /\ \A i \in 1..Len(delivered) : delivered'[i] = delivered[i]
      /\ delivered'[n] = Head(deliverq)
  BY <1>0, <1>2, AppendProperties DEF Delivered
<1>7. /\ head \in Seq(Reqs) /\ Len(head) = n
      /\ \A i \in 1..n : head[i] = arrivals[i]
  BY <1>0, <1>3, <1>4, <1>5, SubSeqProperties
<1>8. \A i \in 1..n : delivered'[i] = head[i]
  BY <1>3, <1>4, <1>6, <1>7
<1>9. delivered' = head
  <2> HIDE DEF n, head
  <2> QED
    BY <1>6, <1>7, <1>8, SeqEqual
<1>10. UNCHANGED <<arrivals, fset>> /\ (flusher' # "idle") = (flusher # "idle")
  BY DEF Delivered
<1> QED
  BY <1>5, <1>9, <1>10 DEF Promise!Hand

\* Every step of the delivery side is a step of the mailbox or is not seen.
LEMMA MailboxStep ==
  ASSUME DeliveryInv, [Next]_vars
  PROVE  [Promise!Next]_Promise!vars
<1>1. ASSUME NEW t \in Senders, EnqueueNow(t) \/ EnqueueWait(t)
      PROVE  Promise!Accept
  <2>1. req[t] \in Reqs /\ req[t] \notin Promise!ItemsOf(arrivals)
    BY <1>1, Elements DEF DeliveryInv, PointInv, EnqueueNow, EnqueueWait
  <2>2. /\ arrivals' = Append(arrivals, req[t])
        /\ UNCHANGED <<delivered, flusher, fset>>
    BY <1>1 DEF EnqueueNow, EnqueueWait
  <2> QED
    BY <2>1, <2>2 DEF Promise!Accept
<1>2. CASE Delivered
  BY <1>2, HandsNext DEF Promise!Next
<1>3. CASE FlushStart
  <2>1. flusher = "idle" /\ flusher' # "idle"
    BY <1>3 DEF FlushStart, FlushWait
  <2>2. fset' = Promise!ItemsOf(arrivals) /\ UNCHANGED <<arrivals, delivered>>
    BY <1>3, Elements DEF FlushStart
  <2> QED
    BY <2>1, <2>2 DEF Promise!FlushBegin, Promise!Next
<1>4. CASE FlushReturn
  <2>1. fset \subseteq Promise!ItemsOf(delivered)
    BY <1>4, Elements DEF FlushReturn, DeliveryInv, FlushCounts
  <2>2. /\ flusher # "idle" /\ flusher' = "idle" /\ fset' = {}
        /\ UNCHANGED <<arrivals, delivered>>
    BY <1>4 DEF FlushReturn
  <2> QED
    BY <2>1, <2>2 DEF Promise!FlushEnd, Promise!Next
<1>5. CASE FlushCheck \/ FlushSpurious
  BY <1>5, Invisible DEF FlushCheck, FlushSpurious, FlushWait, history
<1>6. CASE UNCHANGED vars
  BY <1>6, Invisible DEF vars, history
<1>7. ASSUME NEW t \in Senders, NEW r \in Reqs, Submit(t, r)
      PROVE  UNCHANGED Promise!vars
  BY <1>7, Invisible DEF Submit
<1>8. ASSUME NEW t \in Senders, Park(t) \/ Wakeup(t) \/ Reply(t)
      PROVE  UNCHANGED Promise!vars
  BY <1>8, Invisible DEF Park, Wakeup, Reply, history
<1>9. CASE LoopTop \/ StopWait \/ SpuriousWakeup
  BY <1>9, Invisible DEF LoopTop, StopWait, SpuriousWakeup, history
<1>10. CASE DisableSend \/ StopDelivery \/ Purge \/ Stopped
  BY <1>10, Invisible DEF DisableSend, StopDelivery, Purge, PurgeWaiting,
     PurgeQueued, Stopped, vars, history
<1> QED
  BY <1>1, <1>2, <1>3, <1>4, <1>5, <1>6, <1>7, <1>8, <1>9, <1>10, Zenon
  DEF Next, SenderStep, DeliveryStep, FlushStep, Promise!Next

\* req_to_self, delivery_main and shuffler_flush_delivery implement a mailbox:
\* requests reach the callback in the order they arrived, each once, and a
\* flush returns only when all that arrived before it has been delivered, for
\* any number of threads and requests and any limits.
THEOREM DeliveryImplements == Spec => Implements
<1>1. Init => Promise!Init
  BY DEF Init, Promise!Init
<1>2. DeliveryInv /\ [Next]_vars => [Promise!Next]_Promise!vars
  BY MailboxStep
<1> QED
  BY <1>1, <1>2, DeliveryCorrect, PTL DEF Spec, Implements, Promise!Spec

=============================================================================
