---------------------------- MODULE NNSendProofs ----------------------------
(***************************************************************************)
(* The sending side of the all-to-all shuffler, for any number of threads, *)
(* peers and writes, any size of a queue and any number of callback slots: *)
(* queues and callback slots have one owner, a write is enqueued once,     *)
(* writes leave in the order they came in, an RPC carries writes of one    *)
(* epoch, and a flush leaves nothing behind.  The queue to a peer          *)
(* implements the mailbox that Mailbox specifies.                          *)
(***************************************************************************)
EXTENDS NNSend, TLAPS, FiniteSetTheorems

-----------------------------------------------------------------------------
\* What is assumed of the constants.
LEMMA Config ==
  /\ NoOne \notin Peer
  /\ rpcq_order \in Seq(Peer) /\ \A p \in Peer : p \in Range(rpcq_order)
  /\ max_rpcq_sz \in Nat \ {0} /\ cb_allowed \in Nat \ {0}
  /\ MaxWrites \in Nat /\ MaxEpoch \in Nat
BY NNSendAssumption, Zenon

LEMMA EmptySeq == ASSUME NEW S PROVE <<>> \in Seq(S)
OBVIOUS

\* Appending to the last of two sequences appends to both together.
LEMMA AppendLast ==
  ASSUME NEW S, NEW s \in Seq(S), NEW t \in Seq(S), NEW e \in S
  PROVE  s \o Append(t, e) = Append(s \o t, e)
<1>1. <<e>> \in Seq(S) /\ s \o t \in Seq(S)
  OBVIOUS
<1>2. Append(t, e) = t \o <<e>> /\ Append(s \o t, e) = (s \o t) \o <<e>>
  OBVIOUS
<1> QED
  OBVIOUS

\* What is in a sequence after something was appended to it.
LEMMA AppendElements ==
  ASSUME NEW S, NEW s \in Seq(S), NEW e \in S, NEW i \in DOMAIN Append(s, e)
  PROVE  Append(s, e)[i] = e \/ (i \in DOMAIN s /\ Append(s, e)[i] = s[i])
OBVIOUS

\* What is in a sequence and not in its tail is its head.
LEMMA RangeTail ==
  ASSUME NEW S, NEW s \in Seq(S), s # <<>>
  PROVE  Range(s) \subseteq Range(Tail(s)) \cup {Head(s)}
<1>1. /\ Tail(s) \in Seq(S) /\ Len(Tail(s)) = Len(s) - 1
      /\ \A i \in 1..Len(Tail(s)) : Tail(s)[i] = s[i + 1]
      /\ Len(s) \in Nat \ {0} /\ Head(s) = s[1]
      /\ DOMAIN s = 1..Len(s) /\ DOMAIN Tail(s) = 1..Len(Tail(s))
  OBVIOUS
<1>2. ASSUME NEW i \in 1..Len(s), i # 1
      PROVE  s[i] \in Range(Tail(s))
  <2>1. i - 1 \in 1..Len(Tail(s)) /\ Tail(s)[i - 1] = s[i]
    BY <1>2
  <2> QED
    BY <1>1, <2>1, Zenon DEF Range
<1> QED
  BY <1>2 DEF Range

-----------------------------------------------------------------------------
\* The program points.
Points == {"idle", "enqueue", "queue wait", "send", "slot wait", "forward",
           "reply", "reply wait", "sent", "flush", "waitcb", "callback wait"}

\* Every step leaves every thread at one of them.
LEMMA PointStep ==
  ASSUME pc \in [Thread -> Points], [Next]_vars
  PROVE  pc' \in [Thread -> Points]
<1>1. CASE UNCHANGED vars
  BY <1>1, Zenon DEF vars, threadVars
<1>2. ASSUME NEW t \in Thread, NEW l \in Points, Go(t, l)
      PROVE  pc' \in [Thread -> Points]
  BY <1>2, Zenon DEF Go
<1>3. ASSUME NEW t \in Thread, NEW l \in Points, NEW w, NEW v \in Points,
             GoAndNotify(t, l, w, v)
      PROVE  pc' \in [Thread -> Points]
  BY <1>3, Zenon DEF GoAndNotify
<1>4. ASSUME NEW t \in Thread,
             \/ QueueWait(t) \/ QueueAppend(t) \/ QueueFull(t) \/ SlotWait(t)
             \/ TakeSlot(t) \/ Forward(t) \/ ReplyWait(t) \/ Replied(t)
             \/ FlushBegin(t) \/ FlushSend(t) \/ CallbackWait(t) \/ WaitcbEnd(t)
             \/ \E p \in Peer : Enqueue(t, p)
      PROVE  pc' \in [Thread -> Points]
  <2>1. \/ Go(t, "enqueue") \/ Go(t, "queue wait") \/ Go(t, "idle") \/ Go(t, "send")
        \/ Go(t, "slot wait") \/ Go(t, "forward") \/ Go(t, "sent") \/ Go(t, "reply")
        \/ Go(t, "reply wait") \/ Go(t, "flush") \/ Go(t, "callback wait")
    BY <1>4, Zenon DEF Enqueue, QueueWait, QueueAppend, QueueFull, SlotWait,
       TakeSlot, Forward, ReplyWait, Replied, FlushBegin, FlushSend,
       CallbackWait, WaitcbEnd
  <2> QED
    BY <1>2, <2>1, Zenon DEF Points
<1>5. ASSUME NEW t \in Thread, FlushEnd(t)
      PROVE  pc' \in [Thread -> Points]
  BY <1>5, Zenon DEF FlushEnd, Go, Points
<1>6. ASSUME NEW t \in Thread, SentEnqueue(t) \/ SentFlush(t)
      PROVE  pc' \in [Thread -> Points]
  <2>1. \/ GoAndNotify(t, "idle", "queue wait", "enqueue")
        \/ GoAndNotify(t, "flush", "queue wait", "enqueue")
    BY <1>6, Zenon DEF SentEnqueue, SentFlush
  <2> QED
    BY <1>3, <2>1, Zenon DEF Points
<1>7. ASSUME NEW f \in flight, AsyncHandler(f)
      PROVE  pc' \in [Thread -> Points]
  BY <1>7, Zenon DEF AsyncHandler, Points
<1>8. ASSUME NEW f \in flight, Handler(f)
      PROVE  pc' \in [Thread -> Points]
  BY <1>8, Zenon DEF Handler, Points
<1>9. CASE NextEpoch \/ \E t \in Thread : FlushSkip(t)
  BY <1>9, Zenon DEF NextEpoch, FlushSkip, threadVars
<1> QED
  BY <1>1, <1>4, <1>5, <1>6, <1>7, <1>8, <1>9, Zenon DEF Next, Sending, Looper

\* The types of what a thread is doing.
CallTypes ==
  /\ peer \in [Thread -> Peer \cup {NoOne}]
  /\ mine \in [Thread -> Write \cup {NoOne}]
  /\ slot \in [Thread -> Slots \cup {-1}]

\* The types of the counters.
CountTypes ==
  /\ cb_flags \subseteq Slots /\ cb_left \in Int
  /\ epoch \in 0..MaxEpoch /\ made \in 0..MaxWrites

\* A write that is made is one of those the bounds allow.
LEMMA NewWrite ==
  ASSUME CountTypes, made < MaxWrites
  PROVE  made + 1 \in 0..MaxWrites /\ [id |-> made + 1, epoch |-> epoch] \in Write
<1>1. made + 1 \in 0..MaxWrites /\ made + 1 \in 1..MaxWrites
  BY Config DEF CountTypes
<1> QED
  BY <1>1, Zenon DEF CountTypes, Write

\* A step keeps them.
LEMMA CallTypesStep ==
  ASSUME TypeOK, [Next]_vars
  PROVE  CallTypes' /\ CountTypes'
<1>0. CallTypes /\ CountTypes /\ rest \in [Thread -> Seq(Peer)]
  BY Zenon DEF TypeOK, CallTypes, CountTypes
<1>1. CASE UNCHANGED vars
  BY <1>0, <1>1, Zenon DEF vars, slotVars, threadVars, CallTypes, CountTypes
<1>2. ASSUME NEW t \in Thread, NEW p \in Peer, Enqueue(t, p)
      PROVE  CallTypes' /\ CountTypes'
  <2>1. /\ made < MaxWrites /\ made' = made + 1
        /\ peer' = [peer EXCEPT ![t] = p]
        /\ mine' = [mine EXCEPT ![t] = [id |-> made + 1, epoch |-> epoch]]
        /\ UNCHANGED <<slot, cb_flags, cb_left, epoch>>
    BY <1>2, Zenon DEF Enqueue, slotVars
  <2>2. CallTypes'
    BY <1>0, <2>1, NewWrite, Zenon DEF CallTypes
  <2>3. CountTypes'
    BY <1>0, <2>1, NewWrite, Zenon DEF CountTypes
  <2> QED
    BY <2>2, <2>3, Zenon
<1>3. ASSUME NEW t \in Thread,
             QueueWait(t) \/ QueueAppend(t) \/ QueueFull(t) \/ SlotWait(t)
      PROVE  CallTypes' /\ CountTypes'
  BY <1>0, <1>3, Zenon DEF QueueWait, QueueAppend, QueueFull, SlotWait,
     slotVars, CallTypes, CountTypes
<1>4. ASSUME NEW t \in Thread, TakeSlot(t)
      PROVE  CallTypes' /\ CountTypes'
  <2>1. PICK s \in Slots : /\ slot' = [slot EXCEPT ![t] = s]
                           /\ cb_flags' = cb_flags \cup {s}
    BY <1>4, Zenon DEF TakeSlot
  <2>2. cb_left' = cb_left - 1 /\ UNCHANGED <<peer, mine, epoch, made>>
    BY <1>4, Zenon DEF TakeSlot
  <2> QED
    BY <1>0, <2>1, <2>2 DEF CallTypes, CountTypes
<1>5. ASSUME NEW t \in Thread, Forward(t) \/ ReplyWait(t) \/ Replied(t)
      PROVE  CallTypes' /\ CountTypes'
  BY <1>0, <1>5, Zenon DEF Forward, ReplyWait, Replied, slotVars, CallTypes,
     CountTypes
<1>6. ASSUME NEW f \in flight, AsyncHandler(f) \/ Handler(f)
      PROVE  CallTypes' /\ CountTypes'
  <2>1. /\ cb_flags' \subseteq cb_flags /\ cb_left' \in {cb_left, cb_left + 1}
        /\ UNCHANGED <<peer, mine, slot, epoch, made>>
    BY <1>6, Zenon DEF AsyncHandler, Handler, slotVars
  <2> QED
    BY <1>0, <2>1 DEF CallTypes, CountTypes
<1>7. ASSUME NEW t \in Thread, SentEnqueue(t) \/ SentFlush(t)
      PROVE  CallTypes' /\ CountTypes'
  <2>1. /\ peer' = [peer EXCEPT ![t] = NoOne]
        /\ mine' = mine \/ mine' = [mine EXCEPT ![t] = NoOne]
        /\ UNCHANGED <<slot, cb_flags, cb_left, epoch, made>>
    BY <1>7, Zenon DEF SentEnqueue, SentFlush, slotVars
  <2> QED
    BY <1>0, <2>1, Zenon DEF CallTypes, CountTypes
<1>8. ASSUME NEW t \in Thread, FlushBegin(t) \/ FlushSkip(t) \/ FlushEnd(t)
      PROVE  CallTypes' /\ CountTypes'
  BY <1>0, <1>8, Zenon DEF FlushBegin, FlushSkip, FlushEnd, slotVars,
     CallTypes, CountTypes
<1>9. ASSUME NEW t \in Thread, FlushSend(t)
      PROVE  CallTypes' /\ CountTypes'
  <2>1. Head(rest[t]) \in Peer
    BY <1>0, <1>9 DEF FlushSend
  <2> QED
    BY <1>0, <1>9 DEF FlushSend, slotVars, CallTypes, CountTypes
<1>10. ASSUME NEW t \in Thread, CallbackWait(t) \/ WaitcbEnd(t)
       PROVE  CallTypes' /\ CountTypes'
  <2>1. UNCHANGED <<peer, mine, slot, cb_flags, cb_left, epoch, made>>
    BY <1>10, Zenon DEF CallbackWait, WaitcbEnd, slotVars
  <2> QED
    BY <1>0, <2>1, Zenon DEF CallTypes, CountTypes
<1>11. CASE NextEpoch
  <2>1. /\ epoch < MaxEpoch /\ epoch' = epoch + 1
        /\ UNCHANGED <<peer, mine, slot, cb_flags, cb_left, made>>
    BY <1>11, Zenon DEF NextEpoch, slotVars, threadVars
  <2> QED
    BY <1>0, <2>1, Config DEF CallTypes, CountTypes
<1> QED
  BY <1>1, <1>2, <1>3, <1>4, <1>5, <1>6, <1>7, <1>8, <1>9, <1>10, <1>11, Zenon
     DEF Next, Sending, Looper

\* force_sync is a setting, and flushed a flag.
LEMMA FlagStep ==
  ASSUME force_sync \in BOOLEAN, flushed \in BOOLEAN, [Next]_vars
  PROVE  force_sync' = force_sync /\ flushed' \in BOOLEAN
<1>1. CASE UNCHANGED vars
  BY <1>1, Zenon DEF vars
<1>2. ASSUME NEW t \in Thread, NEW p \in Peer, Enqueue(t, p)
      PROVE  force_sync' = force_sync /\ flushed' \in BOOLEAN
  BY <1>2, Zenon DEF Enqueue
<1>3. ASSUME NEW t \in Thread, QueueWait(t) \/ QueueAppend(t) \/ QueueFull(t)
      PROVE  force_sync' = force_sync /\ flushed' \in BOOLEAN
  BY <1>3, Zenon DEF QueueWait, QueueAppend, QueueFull
<1>4. ASSUME NEW t \in Thread,
             SlotWait(t) \/ TakeSlot(t) \/ Forward(t) \/ ReplyWait(t) \/ Replied(t)
      PROVE  force_sync' = force_sync /\ flushed' \in BOOLEAN
  BY <1>4, Zenon DEF SlotWait, TakeSlot, Forward, ReplyWait, Replied
<1>5. ASSUME NEW f \in flight, AsyncHandler(f) \/ Handler(f)
      PROVE  force_sync' = force_sync /\ flushed' \in BOOLEAN
  BY <1>5, Zenon DEF AsyncHandler, Handler
<1>6. ASSUME NEW t \in Thread,
             SentEnqueue(t) \/ SentFlush(t) \/ FlushBegin(t) \/ FlushSkip(t) \/ FlushSend(t)
      PROVE  force_sync' = force_sync /\ flushed' \in BOOLEAN
  BY <1>6, Zenon DEF SentEnqueue, SentFlush, FlushBegin, FlushSkip, FlushSend
<1>7. ASSUME NEW t \in Thread, FlushEnd(t) \/ CallbackWait(t) \/ WaitcbEnd(t)
      PROVE  force_sync' = force_sync /\ flushed' \in BOOLEAN
  BY <1>7, Zenon DEF FlushEnd, CallbackWait, WaitcbEnd
<1>8. CASE NextEpoch
  BY <1>8, Zenon DEF NextEpoch
<1> QED
  BY <1>1, <1>2, <1>3, <1>4, <1>5, <1>6, <1>7, <1>8, Zenon DEF Next, Sending,
     Looper

\* The types of the queues, of what is in flight and of the order of a flush.
QueueTypes ==
  /\ rpcqs \in [Peer -> [buf : Seq(Write), lepo : 0..MaxEpoch, busy : BOOLEAN]]
  /\ flight \subseteq [by : Thread, slot : Slots \cup {-1}, to : Peer,
                       epo : 0..MaxEpoch, msg : Seq(Write)]
  /\ rest \in [Thread -> Seq(Peer)]
  /\ arrived \in [Peer -> Seq(Write)] /\ handed \in [Peer -> Seq(Write)]

\* A step keeps them.
LEMMA QueueTypesStep ==
  ASSUME TypeOK, QueueOwned, Fresh, [Next]_vars
  PROVE  QueueTypes'
<1>0. QueueTypes
  BY Zenon DEF TypeOK, QueueTypes
<1>1. CASE UNCHANGED vars
  BY <1>0, <1>1, Zenon DEF vars, queueVars, threadVars, QueueTypes
<1>2. ASSUME NEW t \in Thread, NEW p \in Peer, Enqueue(t, p)
      PROVE  QueueTypes'
  BY <1>0, <1>2, Zenon DEF Enqueue, queueVars, QueueTypes
<1>3. ASSUME NEW t \in Thread, QueueAppend(t)
      PROVE  QueueTypes'
  <2>1. peer[t] \in Peer /\ mine[t] \in Write
    BY <1>3, Zenon DEF QueueAppend, Fresh, InHand
  <2>2. /\ rpcqs[peer[t]].buf \in Seq(Write) /\ rpcqs[peer[t]].busy \in BOOLEAN
        /\ arrived[peer[t]] \in Seq(Write) /\ mine[t].epoch \in 0..MaxEpoch
    BY <1>0, <2>1, Zenon DEF QueueTypes, Write
  <2>3. /\ Append(rpcqs[peer[t]].buf, mine[t]) \in Seq(Write)
        /\ Append(arrived[peer[t]], mine[t]) \in Seq(Write)
    BY <2>1, <2>2
  <2> QED
    BY <1>0, <1>3, <2>1, <2>2, <2>3, Zenon DEF QueueAppend, Appended, QueueTypes
<1>4. ASSUME NEW t \in Thread, QueueFull(t)
      PROVE  QueueTypes'
  <2>1. peer[t] \in Peer
    BY <1>4, Zenon DEF QueueFull, Fresh, InHand
  <2> QED
    BY <1>0, <1>4, Zenon DEF QueueFull, Locked, QueueTypes
<1>5. ASSUME NEW t \in Thread,
             QueueWait(t) \/ SlotWait(t) \/ TakeSlot(t) \/ ReplyWait(t) \/ Replied(t)
      PROVE  QueueTypes'
  BY <1>0, <1>5, Zenon DEF QueueWait, SlotWait, TakeSlot, ReplyWait, Replied,
     queueVars, QueueTypes
<1>6. ASSUME NEW t \in Thread, Forward(t)
      PROVE  QueueTypes'
  <2>1. peer[t] \in Peer
    BY <1>6, Zenon DEF Forward, QueueOwned, Sends
  <2>2. /\ rpcqs[peer[t]].buf \in Seq(Write) /\ handed[peer[t]] \in Seq(Write)
        /\ rpcqs[peer[t]].lepo \in 0..MaxEpoch /\ slot[t] \in Slots \cup {-1}
    BY <2>1, Zenon DEF TypeOK, QueueTypes
  <2>3. handed[peer[t]] \o rpcqs[peer[t]].buf \in Seq(Write)
    BY <2>2
  <2>4. flight' \subseteq [by : Thread, slot : Slots \cup {-1}, to : Peer,
                          epo : 0..MaxEpoch, msg : Seq(Write)]
    BY <1>0, <1>6, <2>1, <2>2 DEF Forward, Message, QueueTypes
  <2> QED
    BY <1>0, <1>6, <2>1, <2>4 DEF Forward, QueueTypes
<1>7. ASSUME NEW f \in flight, AsyncHandler(f) \/ Handler(f)
      PROVE  QueueTypes'
  BY <1>0, <1>7, Zenon DEF AsyncHandler, Handler, queueVars, QueueTypes
<1>8. ASSUME NEW t \in Thread, SentEnqueue(t)
      PROVE  QueueTypes'
  <2>1. peer[t] \in Peer /\ mine[t] \in Write
    BY <1>8, Zenon DEF SentEnqueue, Fresh, InHand, InFlush, Sends
  <2>2. /\ <<>> \in Seq(Write) /\ arrived[peer[t]] \in Seq(Write)
        /\ mine[t].epoch \in 0..MaxEpoch
    BY <1>0, <2>1, EmptySeq, Zenon DEF QueueTypes, Write
  <2>3. /\ Append(<<>>, mine[t]) \in Seq(Write)
        /\ Append(arrived[peer[t]], mine[t]) \in Seq(Write)
    BY <2>1, <2>2
  <2> QED
    BY <1>0, <1>8, <2>2, <2>3, Zenon DEF SentEnqueue, Appended, Opened, QueueTypes
<1>9. ASSUME NEW t \in Thread, SentFlush(t)
      PROVE  QueueTypes'
  <2>1. peer[t] \in Peer /\ rest[t] # <<>>
    BY <1>9, Zenon DEF SentFlush, QueueOwned, Sends, InFlush
  <2>2. <<>> \in Seq(Write) /\ Tail(rest[t]) \in Seq(Peer)
    BY <1>0, <2>1 DEF QueueTypes
  <2> QED
    BY <1>0, <1>9, <2>2, Zenon DEF SentFlush, Opened, QueueTypes
<1>10. ASSUME NEW t \in Thread, FlushBegin(t) \/ FlushEnd(t)
       PROVE  QueueTypes'
  BY <1>0, <1>10, Config, Zenon DEF FlushBegin, FlushEnd, queueVars, QueueTypes
<1>11. ASSUME NEW t \in Thread, FlushSkip(t)
       PROVE  QueueTypes'
  <2>1. Tail(rest[t]) \in Seq(Peer)
    BY <1>0, <1>11 DEF FlushSkip, QueueTypes
  <2> QED
    BY <1>0, <1>11, <2>1, Zenon DEF FlushSkip, Skipped, queueVars, QueueTypes
<1>12. ASSUME NEW t \in Thread, FlushSend(t)
       PROVE  QueueTypes'
  <2>1. Head(rest[t]) \in Peer
    BY <1>0, <1>12 DEF FlushSend, QueueTypes
  <2> QED
    BY <1>0, <1>12, Zenon DEF FlushSend, Locked, QueueTypes
<1>13. ASSUME NEW t \in Thread, CallbackWait(t) \/ WaitcbEnd(t)
       PROVE  QueueTypes'
  BY <1>0, <1>13, Zenon DEF CallbackWait, WaitcbEnd, queueVars, QueueTypes
<1>14. CASE NextEpoch
  BY <1>0, <1>14, Zenon DEF NextEpoch, queueVars, threadVars, QueueTypes
<1> QED
  BY <1>1, <1>2, <1>3, <1>4, <1>5, <1>6, <1>7, <1>8, <1>9, <1>10, <1>11, <1>12,
     <1>13, <1>14, Zenon DEF Next, Sending, Looper

\* Together.
LEMMA TypeStep ==
  ASSUME TypeOK, QueueOwned, Fresh, [Next]_vars
  PROVE  TypeOK'
<1>1. pc \in [Thread -> Points] /\ force_sync \in BOOLEAN /\ flushed \in BOOLEAN
  BY Zenon DEF TypeOK, Points
<1> QED
  BY PointStep, CallTypesStep, FlagStep, QueueTypesStep, Zenon DEF TypeOK,
     Points, CallTypes, CountTypes, QueueTypes

-----------------------------------------------------------------------------
\* What the other threads, and the invariants about queues, see of a thread
\* does not change when it is notified or goes from one wait to the next.
Same(u) ==
  /\ peer'[u] = peer[u] /\ mine'[u] = mine[u] /\ rest'[u] = rest[u]
  /\ (Sends(u)' <=> Sends(u)) /\ (Passed(u)' <=> Passed(u))
  /\ (InHand(u)' <=> InHand(u)) /\ (InFlush(u)' <=> InFlush(u))
  /\ (pc'[u] = "idle" <=> pc[u] = "idle") /\ (pc'[u] = "flush" <=> pc[u] = "flush")

\* Nothing but the places of waits changes.
Quiet ==
  /\ UNCHANGED <<rpcqs, arrived, handed, epoch, made, flushed>>
  /\ \A u \in Thread : Same(u)

\* So that is what every step does to a thread that does not take it.
LEMMA Others ==
  ASSUME TypeOK, NEW t \in Thread,
         Sending(t) \/ FlushBegin(t) \/ \E p \in Peer : Enqueue(t, p),
         NEW u \in Thread, u # t
  PROVE  Same(u)
<1>0. /\ pc \in [Thread -> Points]
      /\ peer \in [Thread -> Peer \cup {NoOne}] /\ mine \in [Thread -> Write \cup {NoOne}]
      /\ rest \in [Thread -> Seq(Peer)]
  BY Zenon DEF TypeOK, Points
<1>1. /\ peer' = peer \/ \E x : peer' = [peer EXCEPT ![t] = x]
      /\ mine' = mine \/ \E x : mine' = [mine EXCEPT ![t] = x]
      /\ rest' = rest \/ \E x : rest' = [rest EXCEPT ![t] = x]
  <2>1. CASE \E p \in Peer : Enqueue(t, p)
    BY <2>1, Zenon DEF Enqueue
  <2>2. CASE QueueAppend(t) \/ SentEnqueue(t)
    BY <2>2, Zenon DEF QueueAppend, SentEnqueue
  <2>3. CASE SentFlush(t) \/ FlushBegin(t) \/ FlushSkip(t) \/ FlushSend(t)
    BY <2>3, Zenon DEF SentFlush, FlushBegin, FlushSkip, FlushSend
  <2>4. CASE \/ QueueWait(t) \/ QueueFull(t) \/ SlotWait(t) \/ TakeSlot(t) \/ Forward(t)
             \/ ReplyWait(t) \/ Replied(t) \/ FlushEnd(t) \/ CallbackWait(t) \/ WaitcbEnd(t)
    BY <2>4, Zenon DEF QueueWait, QueueFull, SlotWait, TakeSlot, Forward,
       ReplyWait, Replied, FlushEnd, CallbackWait, WaitcbEnd
  <2> QED
    BY <2>1, <2>2, <2>3, <2>4, Zenon DEF Sending
<1>2. peer'[u] = peer[u] /\ mine'[u] = mine[u] /\ rest'[u] = rest[u]
  BY <1>0, <1>1, Zenon
<1>3. \/ pc'[u] = pc[u]
      \/ pc[u] = "queue wait" /\ pc'[u] = "enqueue"
  <2>1. CASE \E l : Go(t, l)
    BY <2>1 DEF Go
  <2>2. CASE \E l : GoAndNotify(t, l, "queue wait", "enqueue")
    BY <2>2, Zenon DEF GoAndNotify
  <2>3. CASE FlushSkip(t)
    BY <2>3, Zenon DEF FlushSkip
  <2> QED
    BY <2>1, <2>2, <2>3, Zenon DEF Sending, Enqueue, QueueWait, QueueAppend,
       QueueFull, SlotWait, TakeSlot, Forward, ReplyWait, Replied, FlushBegin,
       FlushSend, FlushEnd, CallbackWait, WaitcbEnd, SentEnqueue, SentFlush
<1> QED
  BY <1>2, <1>3, Zenon DEF Same, Sends, Passed, InHand, InFlush

\* The steps that are quiet.
LEMMA QuietSteps ==
  ASSUME TypeOK
  PROVE  /\ \A t \in Thread :
              QueueWait(t) \/ SlotWait(t) \/ TakeSlot(t) \/ ReplyWait(t) \/ Replied(t)
              \/ CallbackWait(t) => Quiet
         /\ \A f \in flight : AsyncHandler(f) \/ Handler(f) => Quiet
         /\ UNCHANGED vars => Quiet
<1>0. pc \in [Thread -> Points]
  BY Zenon DEF TypeOK, Points
<1>1. ASSUME NEW t \in Thread,
             QueueWait(t) \/ SlotWait(t) \/ TakeSlot(t) \/ ReplyWait(t) \/ Replied(t)
             \/ CallbackWait(t)
      PROVE  Quiet
  <2>1. /\ UNCHANGED <<rpcqs, arrived, handed, epoch, made, flushed>>
        /\ UNCHANGED <<peer, mine, rest>>
    BY <1>1, Zenon DEF QueueWait, SlotWait, TakeSlot, ReplyWait, Replied,
       CallbackWait, queueVars
  <2>2. \/ pc[t] = "enqueue" /\ Go(t, "queue wait")
        \/ pc[t] = "send" /\ Go(t, "slot wait")
        \/ pc[t] = "send" /\ Go(t, "forward")
        \/ pc[t] = "reply" /\ Go(t, "reply wait")
        \/ pc[t] = "reply" /\ Go(t, "sent")
        \/ pc[t] = "waitcb" /\ Go(t, "callback wait")
    BY <1>1, Zenon DEF QueueWait, SlotWait, TakeSlot, ReplyWait, Replied,
       CallbackWait
  <2>3. ASSUME NEW u \in Thread
        PROVE  Same(u)
    <3>1. \/ pc'[u] = pc[u]
          \/ pc[u] = "enqueue" /\ pc'[u] = "queue wait"
          \/ pc[u] = "send" /\ pc'[u] \in {"slot wait", "forward"}
          \/ pc[u] = "reply" /\ pc'[u] \in {"reply wait", "sent"}
          \/ pc[u] = "waitcb" /\ pc'[u] = "callback wait"
      BY <1>0, <2>2, Zenon DEF Go
    <3> QED
      BY <2>1, <3>1, Zenon DEF Same, Sends, Passed, InHand, InFlush
  <2> QED
    BY <2>1, <2>3, Zenon DEF Quiet
<1>2. ASSUME NEW f \in flight, AsyncHandler(f) \/ Handler(f)
      PROVE  Quiet
  <2>1. /\ UNCHANGED <<rpcqs, arrived, handed, epoch, made, flushed>>
        /\ UNCHANGED <<peer, mine, rest>>
    BY <1>2, Zenon DEF AsyncHandler, Handler, queueVars
  <2>2. ASSUME NEW u \in Thread
        PROVE  Same(u)
    <3>1. \/ pc'[u] = pc[u]
          \/ pc[u] = "slot wait" /\ pc'[u] = "send"
          \/ pc[u] = "callback wait" /\ pc'[u] = "waitcb"
          \/ pc[u] = "reply wait" /\ pc'[u] = "reply"
      BY <1>2, Zenon DEF AsyncHandler, Handler
    <3> QED
      BY <2>1, <3>1, Zenon DEF Same, Sends, Passed, InHand, InFlush
  <2> QED
    BY <2>1, <2>2, Zenon DEF Quiet
<1>3. UNCHANGED vars => Quiet
  BY Zenon DEF vars, queueVars, threadVars, Quiet, Same, Sends, Passed, InHand,
     InFlush
<1> QED
  BY <1>1, <1>2, <1>3, Zenon

-----------------------------------------------------------------------------
\* Quiet steps keep what is said of queues and writes.
LEMMA QuietKeeps ==
  ASSUME Quiet, QueueOwned, Fresh, InOrder, QueueEpoch
  PROVE  QueueOwned' /\ Fresh' /\ InOrder' /\ QueueEpoch'
<1>1. \A u \in Thread : Same(u)
  BY Zenon DEF Quiet
<1>2. UNCHANGED <<rpcqs, arrived, handed, epoch, made, flushed>>
  BY Zenon DEF Quiet
<1>3. QueueOwned'
  BY <1>1, <1>2 DEF Same, QueueOwned
<1>4. Fresh'
  BY <1>1, <1>2 DEF Same, Fresh
<1>5. InOrder'
  <2>1. ASSUME NEW p \in Peer
        PROVE  Left(p)' = Left(p)
    <3>1. (\E u \in Thread : Passed(u)' /\ peer'[u] = p) <=>
            (\E u \in Thread : Passed(u) /\ peer[u] = p)
      BY <1>1, Zenon DEF Same
    <3> QED
      BY <1>2, <3>1, Zenon DEF Left
  <2> QED
    BY <1>2, <2>1, Zenon DEF InOrder
<1>6. QueueEpoch'
  BY <1>1, <1>2, Zenon DEF Same, QueueEpoch
<1> QED
  BY <1>3, <1>4, <1>5, <1>6, Zenon

\* A thread that runs a flush is the only one that does anything; one that has
\* a write in hand, or is idle outside a flush, has no queues to flush.
LEMMA Alone ==
  ASSUME QueueOwned, NEW t \in Thread
  PROVE  /\ InFlush(t) => \A u \in Thread : u # t =>
              pc[u] = "idle" /\ ~Sends(u) /\ ~InHand(u) /\ ~InFlush(u)
         /\ pc[t] \in {"idle", "enqueue", "queue wait", "waitcb", "callback wait"} =>
              rest[t] = <<>> /\ ~Sends(t)
<1>1. ASSUME NEW u \in Thread, pc[u] = "idle"
      PROVE  rest[u] = <<>> /\ ~Sends(u) /\ ~InHand(u) /\ ~InFlush(u)
  BY <1>1, Zenon DEF QueueOwned, Sends, InHand, InFlush
<1>2. InFlush(t) => \A u \in Thread : u # t => pc[u] = "idle"
  BY Zenon DEF QueueOwned
<1>3. pc[t] \in {"idle", "enqueue", "queue wait", "waitcb", "callback wait"} =>
              rest[t] = <<>> /\ ~Sends(t)
  BY Zenon DEF QueueOwned, Sends
<1> QED
  BY <1>1, <1>2, <1>3, Zenon

\* What changes in a queue does not give it away.
LEMMA QueueOwnedStep ==
  ASSUME TypeOK, QueueOwned, Fresh, InOrder, QueueEpoch, [Next]_vars
  PROVE  QueueOwned'
<1>0. /\ pc \in [Thread -> Points] /\ peer \in [Thread -> Peer \cup {NoOne}]
      /\ rest \in [Thread -> Seq(Peer)]
      /\ rpcqs \in [Peer -> [buf : Seq(Write), lepo : 0..MaxEpoch, busy : BOOLEAN]]
  BY Zenon DEF TypeOK, Points
<1>1. Quiet => QueueOwned'
  BY QuietKeeps, Zenon
<1>2. ASSUME NEW t \in Thread, NEW p \in Peer, Enqueue(t, p)
      PROVE  QueueOwned'
  <2>1. \A u \in Thread : u # t => Same(u)
    BY <1>2, Others, Zenon
  <2>2. pc'[t] = "enqueue" /\ rest'[t] = rest[t] /\ rest[t] = <<>> /\ rpcqs' = rpcqs
    BY <1>0, <1>2, Alone, Zenon DEF Enqueue, Go, queueVars
  <2>3. ~Sends(t)' /\ ~InFlush(t)' /\ \A u \in Thread : ~InFlush(u)
    BY <1>2, <2>2, Zenon DEF Sends, InFlush, Enqueue
  <2> QED
    BY <2>1, <2>2, <2>3 DEF QueueOwned, Same
<1>3. ASSUME NEW t \in Thread, QueueAppend(t) \/ SentEnqueue(t)
      PROVE  QueueOwned'
  <2>1. \A u \in Thread : u # t => Same(u)
    BY <1>3, Others, Zenon DEF Sending
  <2>2. pc'[t] = "idle" /\ rest'[t] = rest[t] /\ rest[t] = <<>>
    BY <1>0, <1>3, Alone, Zenon DEF QueueAppend, SentEnqueue, Go, GoAndNotify,
       InFlush
  <2>3. ~Sends(t)' /\ ~InFlush(t)'
    BY <2>2, Zenon DEF Sends, InFlush
  <2>4. peer[t] \in Peer
    BY <1>3, Zenon DEF QueueAppend, SentEnqueue, Fresh, InHand, InFlush, Sends
  <2>5. \A p \in Peer : \/ p # peer[t] /\ rpcqs'[p].busy = rpcqs[p].busy
                        \/ p = peer[t] /\ rpcqs'[p].busy = rpcqs[p].busy
                        \/ p = peer[t] /\ Sends(t)
    <3>1. CASE QueueAppend(t)
      BY <3>1 DEF QueueAppend, Appended
    <3>2. CASE SentEnqueue(t)
      BY <1>0, <3>2, Zenon DEF SentEnqueue, Appended, Opened, Sends
    <3> QED
      BY <1>3, <3>1, <3>2, Zenon
  <2>6. ASSUME NEW u \in Thread, Sends(u)'
        PROVE  u # t /\ Sends(u) /\ peer'[u] \in Peer /\ rpcqs'[peer'[u]].busy
    <3>1. u # t /\ Sends(u) /\ peer'[u] = peer[u]
      BY <2>1, <2>3, <2>6, Zenon DEF Same
    <3> QED
      BY <2>5, <3>1, Zenon DEF QueueOwned
  <2> QED
    BY <2>1, <2>2, <2>3, <2>6 DEF QueueOwned, Same
<1>4. ASSUME NEW t \in Thread, QueueFull(t)
      PROVE  QueueOwned'
  <2>1. \A u \in Thread : u # t => Same(u)
    BY <1>4, Others, Zenon DEF Sending
  <2>2. /\ pc'[t] = "send" /\ rest'[t] = rest[t] /\ rest[t] = <<>> /\ peer'[t] = peer[t]
        /\ pc[t] # "idle"
    BY <1>0, <1>4, Alone, Zenon DEF QueueFull, Go
  <2>3. Sends(t)' /\ ~InFlush(t)'
    BY <2>2, Zenon DEF Sends, InFlush
  <2>4. peer[t] \in Peer /\ ~rpcqs[peer[t]].busy
    BY <1>4, Zenon DEF QueueFull, Fresh, InHand
  <2>5. \A p \in Peer : IF p = peer[t] THEN rpcqs'[p].busy
                        ELSE rpcqs'[p].busy = rpcqs[p].busy
    BY <1>0, <1>4, Zenon DEF QueueFull, Locked
  <2>6. \A u \in Thread : Sends(u) => peer[u] # peer[t]
    BY <2>4, Zenon DEF QueueOwned
  <2>7. \A u \in Thread : Sends(u)' => peer'[u] \in Peer /\ rpcqs'[peer'[u]].busy
    BY <2>1, <2>2, <2>4, <2>5 DEF QueueOwned, Same
  <2>8. \A u, v \in Thread : Sends(u)' /\ Sends(v)' /\ peer'[u] = peer'[v] => u = v
    BY <2>1, <2>2, <2>6 DEF QueueOwned, Same
  <2>9. \A u, v \in Thread : InFlush(u)' /\ v # u => pc'[v] = "idle"
    BY <2>1, <2>2, <2>3 DEF QueueOwned, Same
  <2>10. \A u \in Thread : Sends(u)' /\ rest'[u] # <<>> => peer'[u] = Head(rest'[u])
    BY <2>1, <2>2 DEF QueueOwned, Same
  <2>11. \A u \in Thread : rest'[u] # <<>> => Sends(u)' \/ pc'[u] = "flush"
    BY <2>1, <2>2 DEF QueueOwned, Same
  <2> QED
    BY <2>7, <2>8, <2>9, <2>10, <2>11, Zenon DEF QueueOwned
<1>5. ASSUME NEW t \in Thread, Forward(t)
      PROVE  QueueOwned'
  <2>1. \A u \in Thread : u # t => Same(u)
    BY <1>5, Others, Zenon DEF Sending
  <2>2. /\ pc'[t] \in {"sent", "reply"} /\ pc[t] \in {"forward", "send"}
        /\ rest'[t] = rest[t] /\ peer'[t] = peer[t] /\ rpcqs' = rpcqs
    BY <1>0, <1>5, Zenon DEF Forward, Go
  <2>3. Sends(t)' /\ Sends(t) /\ (InFlush(t)' <=> InFlush(t)) /\ pc[t] # "idle"
    BY <2>2, Zenon DEF Sends, InFlush
  <2> QED
    BY <2>1, <2>2, <2>3 DEF QueueOwned, Same
<1>6. ASSUME NEW t \in Thread,
             SentFlush(t) \/ FlushSkip(t) \/ FlushSend(t) \/ FlushEnd(t) \/ WaitcbEnd(t)
             \/ FlushBegin(t)
      PROVE  QueueOwned'
  <2>1. \A u \in Thread : u # t => Same(u)
    BY <1>6, Others, Zenon DEF Sending
  <2>2. \A u \in Thread : u # t => pc[u] = "idle"
    BY <1>6, Alone, Zenon DEF SentFlush, FlushSkip, FlushSend, FlushEnd,
       WaitcbEnd, FlushBegin, AllIdle, InFlush
  <2>3. \A u \in Thread : u # t => ~Sends(u)' /\ rest'[u] = <<>> /\ ~InFlush(u)' /\ pc'[u] = "idle"
    BY <2>1, <2>2, Alone, Zenon DEF Sends, InFlush, Same
  <2>4. Sends(t)' => /\ peer'[t] \in Peer /\ rpcqs'[peer'[t]].busy
                     /\ rest'[t] # <<>> => peer'[t] = Head(rest'[t])
    <3>1. CASE FlushSend(t)
      <4>1. Head(rest[t]) \in Peer
        BY <1>0, <3>1 DEF FlushSend
      <4> QED
        BY <1>0, <3>1 DEF FlushSend, Locked
    <3>2. CASE SentFlush(t) \/ FlushSkip(t) \/ FlushEnd(t) \/ WaitcbEnd(t) \/ FlushBegin(t)
      <4>1. pc'[t] \in {"flush", "waitcb", "idle"}
        BY <1>0, <3>2, Zenon DEF SentFlush, FlushSkip, FlushEnd, WaitcbEnd,
           FlushBegin, Go, GoAndNotify
      <4> QED
        BY <4>1, Zenon DEF Sends
    <3> QED
      BY <1>6, <3>1, <3>2, Zenon
  <2>5. rest'[t] # <<>> => Sends(t)' \/ pc'[t] = "flush"
    <3>1. CASE FlushSend(t) \/ SentFlush(t) \/ FlushSkip(t) \/ FlushBegin(t)
      BY <1>0, <3>1, Zenon DEF FlushSend, SentFlush, FlushSkip, FlushBegin, Go,
         GoAndNotify, Sends
    <3>2. CASE FlushEnd(t) \/ WaitcbEnd(t)
      BY <3>2, Alone, Zenon DEF FlushEnd, WaitcbEnd
    <3> QED
      BY <1>6, <3>1, <3>2, Zenon
  <2> QED
    BY <2>3, <2>4, <2>5, Zenon DEF QueueOwned
<1>7. CASE NextEpoch
  BY <1>7, Zenon DEF NextEpoch, queueVars, threadVars, QueueOwned, Sends,
     InFlush
<1> QED
  BY <1>1, <1>2, <1>3, <1>4, <1>5, <1>6, <1>7, QuietSteps, Zenon DEF Next,
     Sending, Looper

-----------------------------------------------------------------------------
\* No thread gets a write in hand, and none has come to a queue.
LEMMA FreshKept ==
  ASSUME Fresh, UNCHANGED <<arrived, made, epoch>>,
         \A u \in Thread : InHand(u)' => InHand(u) /\ peer'[u] = peer[u] /\ mine'[u] = mine[u]
  PROVE  Fresh'
BY DEF Fresh

\* A write is made once and enqueued once.
LEMMA FreshStep ==
  ASSUME TypeOK, QueueOwned, Fresh, InOrder, QueueEpoch, [Next]_vars
  PROVE  Fresh'
<1>0. /\ pc \in [Thread -> Points] /\ peer \in [Thread -> Peer \cup {NoOne}]
      /\ mine \in [Thread -> Write \cup {NoOne}] /\ rest \in [Thread -> Seq(Peer)]
      /\ arrived \in [Peer -> Seq(Write)] /\ CountTypes
  BY Zenon DEF TypeOK, Points, CountTypes
<1>i. /\ \A w \in Write : w.id \in Int
      /\ made \in Int
      /\ \A p \in Peer : \A i \in DOMAIN arrived[p] : arrived[p][i].id \in Int
  <2>1. \A p \in Peer : \A i \in DOMAIN arrived[p] : arrived[p][i] \in Write
    BY <1>0
  <2> QED
    BY <1>0, <2>1, Config DEF Write, CountTypes
<1>1. Quiet => Fresh'
  BY QuietKeeps, Zenon
<1>2. ASSUME NEW t \in Thread, NEW p \in Peer, Enqueue(t, p)
      PROVE  Fresh'
  <2>1. \A u \in Thread : u # t => Same(u)
    BY <1>2, Others
  <2>2. /\ peer'[t] = p /\ mine'[t] = [id |-> made + 1, epoch |-> epoch]
        /\ mine'[t] \in Write /\ made' = made + 1 /\ UNCHANGED <<arrived, epoch>>
    BY <1>0, <1>2, NewWrite, Zenon DEF Enqueue, queueVars
  <2>3. mine'[t].id = made + 1 /\ mine'[t].epoch = epoch
    BY <2>2
  <2>4. \A q \in Peer : \A i \in DOMAIN arrived[q] :
           arrived[q][i].id <= made' /\ arrived[q][i].id # mine'[t].id
    BY <1>i, <2>2 DEF Fresh
  <2>5. \A u \in Thread : u # t /\ InHand(u)' =>
           /\ InHand(u) /\ mine'[u] = mine[u] /\ peer'[u] = peer[u]
           /\ mine[u].id <= made' /\ mine[u].id # mine'[t].id
    BY <1>i, <2>1, <2>2 DEF Fresh, Same
  <2>6. mine'[t].id <= made'
    BY <2>2
  <2>7. ASSUME NEW u \in Thread, InHand(u)'
        PROVE  /\ peer'[u] \in Peer /\ mine'[u] \in Write
               /\ mine'[u].id <= made' /\ mine'[u].epoch = epoch'
               /\ \A q \in Peer : \A i \in DOMAIN arrived'[q] :
                    arrived'[q][i].id # mine'[u].id
               /\ \A v \in Thread : InHand(v)' /\ mine'[u].id = mine'[v].id => u = v
    <3>1. CASE u = t
      BY <2>2, <2>4, <2>5, <3>1
    <3>2. CASE u # t
      BY <2>2, <2>5, <2>7, <3>2 DEF Fresh
    <3> QED
      BY <3>1, <3>2, Zenon
  <2> QED
    BY <2>2, <2>4, <2>7, Zenon DEF Fresh
<1>3. ASSUME NEW t \in Thread, QueueAppend(t) \/ SentEnqueue(t)
      PROVE  Fresh'
  <2>1. \A u \in Thread : u # t => Same(u)
    BY <1>3, Others DEF Sending
  <2>2. InHand(t)
    BY <1>3, Zenon DEF QueueAppend, SentEnqueue, InHand, InFlush, Sends
  <2>3. peer[t] \in Peer /\ mine[t] \in Write /\ mine[t].id <= made
    BY <2>2, Zenon DEF Fresh
  <2>4. /\ pc'[t] = "idle"
        /\ arrived' = [arrived EXCEPT ![peer[t]] = Append(@, mine[t])]
        /\ UNCHANGED <<made, epoch>>
    BY <1>0, <1>3, Zenon DEF QueueAppend, SentEnqueue, Go, GoAndNotify
  <2>5. ~InHand(t)'
    BY <2>4, Zenon DEF InHand, Sends
  <2>6. \A p \in Peer : \A i \in DOMAIN arrived'[p] :
           arrived'[p][i] = mine[t] \/ \E j \in DOMAIN arrived[p] : arrived'[p][i] = arrived[p][j]
    <3>1. ASSUME NEW i \in DOMAIN Append(arrived[peer[t]], mine[t])
          PROVE  \/ Append(arrived[peer[t]], mine[t])[i] = mine[t]
                 \/ i \in DOMAIN arrived[peer[t]] /\
                    Append(arrived[peer[t]], mine[t])[i] = arrived[peer[t]][i]
      OBVIOUS
    <3>2. \A p \in Peer : arrived'[p] = IF p = peer[t] THEN Append(arrived[peer[t]], mine[t])
                                        ELSE arrived[p]
      BY <1>0, <2>4, Zenon
    <3> QED
      BY <3>1, <3>2, Zenon
  <2>7. \A p \in Peer : \A i \in DOMAIN arrived'[p] : arrived'[p][i].id <= made'
    BY <2>3, <2>4, <2>6 DEF Fresh
  <2>8. ASSUME NEW u \in Thread, InHand(u)'
        PROVE  /\ InHand(u) /\ mine'[u] = mine[u] /\ peer'[u] = peer[u]
               /\ \A p \in Peer : \A i \in DOMAIN arrived'[p] :
                    arrived'[p][i].id # mine[u].id
    <3>1. u # t /\ InHand(u) /\ mine'[u] = mine[u] /\ peer'[u] = peer[u]
      BY <2>1, <2>5, <2>8, Zenon DEF Same
    <3>2. mine[u].id # mine[t].id
      BY <2>2, <3>1, Zenon DEF Fresh
    <3> QED
      BY <2>6, <3>1, <3>2 DEF Fresh
  <2> QED
    BY <2>4, <2>7, <2>8 DEF Fresh
<1>4. ASSUME NEW t \in Thread, QueueFull(t) \/ Forward(t)
      PROVE  Fresh'
  <2>1. \A u \in Thread : u # t => Same(u)
    BY <1>4, Others, Zenon DEF Sending
  <2>2. /\ peer'[t] = peer[t] /\ mine'[t] = mine[t] /\ UNCHANGED <<arrived, made, epoch>>
    BY <1>4, Zenon DEF QueueFull, Forward
  <2>3. rest' = rest /\ pc[t] \in {"enqueue", "forward", "send"}
    BY <1>4, Zenon DEF QueueFull, Forward
  <2>4. pc'[t] \in {"send", "sent", "reply"}
    BY <1>0, <1>4, Zenon DEF QueueFull, Forward, Go
  <2>5. InHand(t)' => InHand(t)
    BY <2>3, <2>4, Zenon DEF InHand, Sends
  <2> QED
    BY <2>1, <2>2, <2>5, FreshKept, Zenon DEF Same
<1>5. ASSUME NEW t \in Thread,
             SentFlush(t) \/ FlushSkip(t) \/ FlushSend(t) \/ FlushEnd(t) \/ WaitcbEnd(t)
             \/ FlushBegin(t)
      PROVE  Fresh'
  <2>1. \A u \in Thread : u # t => Same(u)
    BY <1>5, Others DEF Sending
  <2>2. UNCHANGED <<arrived, made, epoch>>
    BY <1>5, Zenon DEF SentFlush, FlushSkip, FlushSend, FlushEnd, WaitcbEnd,
       FlushBegin, queueVars
  <2>3. \/ pc'[t] \in {"flush", "waitcb", "idle"}
        \/ pc'[t] = "send" /\ rest'[t] # <<>>
    BY <1>0, <1>5, Zenon DEF SentFlush, FlushSkip, FlushSend, FlushEnd,
       WaitcbEnd, FlushBegin, Go, GoAndNotify
  <2>4. ~InHand(t)'
    BY <2>3, Zenon DEF InHand, Sends
  <2> QED
    BY <2>1, <2>2, <2>4, FreshKept, Zenon DEF Same
<1>6. CASE NextEpoch
  <2>1. /\ \A u \in Thread : pc'[u] = "idle"
        /\ UNCHANGED <<arrived, made>>
    BY <1>6, Zenon DEF NextEpoch, AllIdle, queueVars, threadVars
  <2>2. \A u \in Thread : ~InHand(u)'
    BY <2>1, Zenon DEF InHand, Sends
  <2> QED
    BY <2>1, <2>2, Zenon DEF Fresh
<1> QED
  BY <1>1, <1>2, <1>3, <1>4, <1>5, <1>6, QuietSteps, Zenon DEF Next, Sending,
     Looper

-----------------------------------------------------------------------------
\* What is left of a queue does not change when neither its writes do nor
\* whether its RPC has gone.
LEMMA LeftKept ==
  ASSUME NEW p \in Peer, rpcqs'[p].buf = rpcqs[p].buf,
         \A u \in Thread : Passed(u)' /\ peer'[u] = p <=> Passed(u) /\ peer[u] = p
  PROVE  Left(p)' = Left(p)
<1>1. (\E u \in Thread : Passed(u)' /\ peer'[u] = p) <=>
        (\E u \in Thread : Passed(u) /\ peer[u] = p)
  BY Zenon
<1> QED
  BY Zenon DEF Left

\* What has been sent and what is left of a queue are what came into it.
LEMMA InOrderStep ==
  ASSUME TypeOK, QueueOwned, Fresh, InOrder, QueueEpoch, [Next]_vars
  PROVE  InOrder'
<1>0. /\ pc \in [Thread -> Points] /\ peer \in [Thread -> Peer \cup {NoOne}]
      /\ rpcqs \in [Peer -> [buf : Seq(Write), lepo : 0..MaxEpoch, busy : BOOLEAN]]
      /\ arrived \in [Peer -> Seq(Write)] /\ handed \in [Peer -> Seq(Write)]
      /\ rest \in [Thread -> Seq(Peer)]
  BY Zenon DEF TypeOK, Points
<1>1. Quiet => InOrder'
  BY QuietKeeps, Zenon
<1>a. \A r, s \in Seq(Write), w \in Write : r \o Append(s, w) = Append(r \o s, w)
  OBVIOUS
<1>p. \A u \in Thread : Passed(u) => Sends(u)
  BY Zenon DEF Passed, Sends
<1>2. ASSUME NEW t \in Thread, NEW p \in Peer, Enqueue(t, p)
      PROVE  InOrder'
  <2>1. \A u \in Thread : u # t => Same(u)
    BY <1>2, Others
  <2>2. pc[t] = "idle" /\ pc'[t] = "enqueue" /\ UNCHANGED <<rpcqs, arrived, handed>>
    BY <1>0, <1>2, Zenon DEF Enqueue, Go, queueVars
  <2>3. ~Passed(t) /\ ~Passed(t)'
    BY <2>2, Zenon DEF Passed
  <2>4. \A q \in Peer : Left(q)' = Left(q)
    BY <2>1, <2>2, <2>3, LeftKept, Zenon DEF Same
  <2> QED
    BY <2>2, <2>4, Zenon DEF InOrder
<1>3. ASSUME NEW t \in Thread, QueueAppend(t)
      PROVE  InOrder'
  <2>1. \A u \in Thread : u # t => Same(u)
    BY <1>3, Others, Zenon DEF Sending
  <2>2. peer[t] \in Peer /\ mine[t] \in Write
    BY <1>3, Zenon DEF QueueAppend, Fresh, InHand
  <2>3. /\ pc[t] = "enqueue" /\ pc'[t] = "idle" /\ ~rpcqs[peer[t]].busy
        /\ rpcqs' = [rpcqs EXCEPT ![peer[t]] = Appended(rpcqs[peer[t]], mine[t])]
        /\ arrived' = [arrived EXCEPT ![peer[t]] = Append(@, mine[t])]
        /\ handed' = handed
    BY <1>0, <1>3, Zenon DEF QueueAppend, Go
  <2>4. ~Passed(t) /\ ~Passed(t)'
    BY <2>3, Zenon DEF Passed
  <2>5. \A u \in Thread : Passed(u) => peer[u] # peer[t]
    BY <1>p, <2>3, Zenon DEF QueueOwned
  <2>6. ASSUME NEW q \in Peer, q # peer[t]
        PROVE  handed'[q] \o Left(q)' = arrived'[q]
    <3>1. rpcqs'[q] = rpcqs[q] /\ arrived'[q] = arrived[q]
      BY <2>3, <2>6
    <3>2. Left(q)' = Left(q)
      BY <2>1, <2>4, <3>1, LeftKept, Zenon DEF Same
    <3> QED
      BY <2>3, <3>1, <3>2, Zenon DEF InOrder
  <2>7. ASSUME NEW q \in Peer, q = peer[t]
        PROVE  handed'[q] \o Left(q)' = arrived'[q]
    <3>1. /\ rpcqs[q].buf \in Seq(Write) /\ handed[q] \in Seq(Write)
          /\ rpcqs'[q].buf = Append(rpcqs[q].buf, mine[t])
          /\ arrived'[q] = Append(arrived[q], mine[t])
      BY <1>0, <2>3, <2>7, Zenon DEF Appended
    <3>2. ~\E u \in Thread : Passed(u)' /\ peer'[u] = q
      BY <2>1, <2>4, <2>5, <2>7, Zenon DEF Same
    <3>3. Left(q) = rpcqs[q].buf
      BY <2>5, <2>7, Zenon DEF Left
    <3>4. Left(q)' = Append(rpcqs[q].buf, mine[t])
      BY <3>1, <3>2, Zenon DEF Left
    <3>5. arrived[q] = handed[q] \o rpcqs[q].buf
      BY <3>3, Zenon DEF InOrder
    <3>6. handed[q] \o Append(rpcqs[q].buf, mine[t])
            = Append(handed[q] \o rpcqs[q].buf, mine[t])
      BY <1>a, <2>2, <3>1, Zenon
    <3> QED
      BY <2>3, <3>1, <3>4, <3>5, <3>6, Zenon
  <2> QED
    BY <2>6, <2>7, Zenon DEF InOrder
<1>4. ASSUME NEW t \in Thread, QueueFull(t)
      PROVE  InOrder'
  <2>1. \A u \in Thread : u # t => Same(u)
    BY <1>4, Others DEF Sending
  <2>2. peer[t] \in Peer
    BY <1>4, Zenon DEF QueueFull, Fresh, InHand
  <2>3. /\ pc[t] = "enqueue" /\ pc'[t] = "send" /\ UNCHANGED <<arrived, handed>>
        /\ \A p \in Peer : rpcqs'[p].buf = rpcqs[p].buf
    BY <1>0, <1>4 DEF QueueFull, Locked, Go
  <2>4. ~Passed(t) /\ ~Passed(t)'
    BY <2>3, Zenon DEF Passed
  <2>5. \A q \in Peer : Left(q)' = Left(q)
    BY <2>1, <2>3, <2>4, LeftKept, Zenon DEF Same
  <2> QED
    BY <2>3, <2>5, Zenon DEF InOrder
<1>5. ASSUME NEW t \in Thread, Forward(t)
      PROVE  InOrder'
  <2>1. \A u \in Thread : u # t => Same(u)
    BY <1>5, Others DEF Sending
  <2>2. /\ pc[t] \in {"forward", "send"} /\ pc'[t] \in {"sent", "reply"}
        /\ peer' = peer /\ UNCHANGED <<rpcqs, arrived>>
        /\ handed' = [handed EXCEPT ![peer[t]] = @ \o rpcqs[peer[t]].buf]
    BY <1>0, <1>5, Zenon DEF Forward, Go
  <2>3. ~Passed(t) /\ Passed(t)' /\ Sends(t)
    BY <2>2, Zenon DEF Passed, Sends
  <2>4. peer[t] \in Peer /\ \A u \in Thread : Passed(u) => peer[u] # peer[t]
    BY <1>p, <2>3, Zenon DEF QueueOwned
  <2>5. ASSUME NEW q \in Peer, q # peer[t]
        PROVE  handed'[q] \o Left(q)' = arrived'[q]
    <3>1. handed'[q] = handed[q]
      BY <1>0, <2>2, <2>5, Zenon
    <3>2. Left(q)' = Left(q)
      BY <2>1, <2>2, <2>5, LeftKept, Zenon DEF Same
    <3> QED
      BY <2>2, <3>1, <3>2, Zenon DEF InOrder
  <2>6. ASSUME NEW q \in Peer, q = peer[t]
        PROVE  handed'[q] \o Left(q)' = arrived'[q]
    <3>1. Left(q) = rpcqs[q].buf
      BY <2>4, <2>6, Zenon DEF Left
    <3>2. Left(q)' = <<>>
      BY <2>2, <2>3, <2>6, Zenon DEF Left
    <3>3. handed'[q] = handed[q] \o rpcqs[q].buf
      BY <1>0, <2>2, <2>6, Zenon
    <3>4. handed'[q] = arrived[q] /\ arrived[q] \in Seq(Write)
      BY <1>0, <3>1, <3>3, Zenon DEF InOrder
    <3> QED
      BY <2>2, <3>2, <3>4
  <2> QED
    BY <2>5, <2>6, Zenon DEF InOrder
<1>6. ASSUME NEW t \in Thread, SentEnqueue(t) \/ SentFlush(t)
      PROVE  InOrder'
  <2>1. \A u \in Thread : u # t => Same(u)
    BY <1>6, Others, Zenon DEF Sending
  <2>2. Passed(t) /\ Sends(t)
    BY <1>6, Zenon DEF SentEnqueue, SentFlush, Passed, Sends
  <2>3. peer[t] \in Peer /\ \A u \in Thread : u # t /\ Passed(u) => peer[u] # peer[t]
    BY <1>p, <2>2, Zenon DEF QueueOwned
  <2>4. ~Passed(t)' /\ handed' = handed
    BY <1>6, Zenon DEF SentEnqueue, SentFlush, GoAndNotify, Passed
  <2>5. ASSUME NEW q \in Peer, q # peer[t]
        PROVE  handed'[q] \o Left(q)' = arrived'[q]
    <3>1. rpcqs'[q] = rpcqs[q] /\ arrived'[q] = arrived[q]
      BY <1>0, <1>6, <2>5, Zenon DEF SentEnqueue, SentFlush
    <3>2. Left(q)' = Left(q)
      BY <2>1, <2>4, <2>5, <3>1, LeftKept, Zenon DEF Same
    <3> QED
      BY <2>4, <3>1, <3>2, Zenon DEF InOrder
  <2>6. ASSUME NEW q \in Peer, q = peer[t]
        PROVE  handed'[q] \o Left(q)' = arrived'[q]
    <3>1. Left(q) = <<>>
      BY <2>2, <2>6, Zenon DEF Left
    <3>2. ~\E u \in Thread : Passed(u)' /\ peer'[u] = q
      BY <2>1, <2>3, <2>4, <2>6, Zenon DEF Same
    <3>3. Left(q)' = rpcqs'[q].buf
      BY <3>2, Zenon DEF Left
    <3>4. CASE SentFlush(t)
      <4>1. rpcqs'[q].buf = <<>> /\ arrived' = arrived
        BY <1>0, <2>6, <3>4, Zenon DEF SentFlush, Opened
      <4> QED
        BY <2>4, <3>1, <3>3, <4>1, Zenon DEF InOrder
    <3>5. CASE SentEnqueue(t)
      <4>1. mine[t] \in Write
        BY <3>5, Zenon DEF SentEnqueue, Fresh, InHand, InFlush, Sends
      <4>2. /\ rpcqs'[q].buf = Append(<<>>, mine[t])
            /\ arrived'[q] = Append(arrived[q], mine[t])
        BY <1>0, <2>6, <3>5, Zenon DEF SentEnqueue, Appended, Opened
      <4>3. <<>> \in Seq(Write) /\ handed[q] \in Seq(Write)
        BY <1>0
      <4>4. arrived[q] = handed[q] \o <<>>
        BY <3>1, Zenon DEF InOrder
      <4>5. handed[q] \o Append(<<>>, mine[t]) = Append(handed[q] \o <<>>, mine[t])
        OBVIOUS
      <4> QED
        BY <2>4, <3>3, <4>2, <4>4
    <3> QED
      BY <1>6, <3>4, <3>5, Zenon
  <2> QED
    BY <2>5, <2>6, Zenon DEF InOrder
<1>7. ASSUME NEW t \in Thread,
             FlushSkip(t) \/ FlushSend(t) \/ FlushEnd(t) \/ WaitcbEnd(t) \/ FlushBegin(t)
      PROVE  InOrder'
  <2>1. \A u \in Thread : u # t => Same(u)
    BY <1>7, Others, Zenon DEF Sending
  <2>2. pc[t] \in {"flush", "waitcb", "idle"} /\ pc'[t] \in {"flush", "waitcb", "idle", "send"}
    BY <1>0, <1>7, Zenon DEF FlushSkip, FlushSend, FlushEnd, WaitcbEnd,
       FlushBegin, Go, AllIdle
  <2>3. ~Passed(t) /\ ~Passed(t)'
    BY <2>2, Zenon DEF Passed
  <2>4. /\ UNCHANGED <<arrived, handed>>
        /\ \A p \in Peer : rpcqs'[p].buf = rpcqs[p].buf
    <3>1. CASE FlushSend(t)
      <4>1. Head(rest[t]) \in Peer
        BY <1>0, <3>1 DEF FlushSend
      <4> QED
        BY <3>1 DEF FlushSend, Locked
    <3>2. CASE FlushSkip(t) \/ FlushEnd(t) \/ WaitcbEnd(t) \/ FlushBegin(t)
      BY <3>2, Zenon DEF FlushSkip, FlushEnd, WaitcbEnd, FlushBegin, queueVars
    <3> QED
      BY <1>7, <3>1, <3>2, Zenon
  <2>5. \A q \in Peer : Left(q)' = Left(q)
    BY <2>1, <2>3, <2>4, LeftKept, Zenon DEF Same
  <2> QED
    BY <2>4, <2>5, Zenon DEF InOrder
<1>8. CASE NextEpoch
  BY <1>8, Zenon DEF NextEpoch, queueVars, threadVars, InOrder, Left, Passed
<1> QED
  BY <1>1, <1>2, <1>3, <1>4, <1>5, <1>6, <1>7, <1>8, QuietSteps, Zenon DEF
     Next, Sending, Looper

-----------------------------------------------------------------------------
\* A queue holds writes of the current epoch only.
LEMMA QueueEpochStep ==
  ASSUME TypeOK, QueueOwned, Fresh, InOrder, QueueEpoch, [Next]_vars
  PROVE  QueueEpoch'
<1>0. /\ pc \in [Thread -> Points] /\ peer \in [Thread -> Peer \cup {NoOne}]
      /\ rpcqs \in [Peer -> [buf : Seq(Write), lepo : 0..MaxEpoch, busy : BOOLEAN]]
      /\ rest \in [Thread -> Seq(Peer)]
  BY Zenon DEF TypeOK, Points
<1>1. Quiet => QueueEpoch'
  BY QuietKeeps, Zenon
<1>2. ASSUME NEW t \in Thread, NEW p \in Peer, Enqueue(t, p)
      PROVE  QueueEpoch'
  <2>1. \A u \in Thread : u # t => Same(u)
    BY <1>2, Others
  <2>2. /\ pc'[t] = "enqueue" /\ rest'[t] = <<>> /\ \A u \in Thread : ~InFlush(u)
        /\ UNCHANGED <<rpcqs, epoch>> /\ ~flushed'
    BY <1>0, <1>2, Alone, Zenon DEF Enqueue, Go, queueVars
  <2>3. ~InFlush(t)'
    BY <2>2, Zenon DEF InFlush
  <2> QED
    BY <2>1, <2>2, <2>3, Zenon DEF QueueEpoch, Same
<1>3. ASSUME NEW t \in Thread, QueueAppend(t) \/ SentEnqueue(t)
      PROVE  QueueEpoch'
  <2>1. \A u \in Thread : u # t => Same(u)
    BY <1>3, Others DEF Sending
  <2>2. InHand(t) /\ pc[t] # "idle" /\ ~InFlush(t)
    <3>1. CASE QueueAppend(t)
      BY <3>1, Alone, Zenon DEF QueueAppend, InHand, InFlush
    <3>2. CASE SentEnqueue(t)
      BY <3>2, Zenon DEF SentEnqueue, InHand, InFlush, Sends
    <3> QED
      BY <1>3, <3>1, <3>2, Zenon
  <2>3. peer[t] \in Peer /\ mine[t] \in Write /\ mine[t].epoch = epoch
    BY <2>2, Zenon DEF Fresh
  <2>4. /\ pc'[t] = "idle" /\ rest' = rest /\ UNCHANGED <<epoch, flushed>>
    BY <1>0, <1>3, Zenon DEF QueueAppend, SentEnqueue, Go, GoAndNotify
  <2>5. \A u \in Thread : ~InFlush(u)
    BY <2>2, Zenon DEF QueueOwned
  <2>6. \A u \in Thread : ~InFlush(u)'
    <3>1. ~InFlush(t)'
      BY <2>2, <2>4, Zenon DEF InFlush
    <3> QED
      BY <2>1, <2>5, <3>1, Zenon DEF Same
  <2>7. ~flushed'
    BY <2>2, <2>4, Zenon DEF QueueEpoch
  <2>8. ASSUME NEW p \in Peer, NEW i \in DOMAIN rpcqs'[p].buf
        PROVE  rpcqs'[p].buf[i].epoch = epoch /\ rpcqs'[p].lepo = epoch
    <3>1. CASE p # peer[t]
      <4>1. rpcqs'[p] = rpcqs[p]
        BY <1>0, <1>3, <3>1, Zenon DEF QueueAppend, SentEnqueue
      <4> QED
        BY <4>1, Zenon DEF QueueEpoch
    <3>2. CASE p = peer[t] /\ QueueAppend(t)
      <4>1. /\ rpcqs'[p].buf = Append(rpcqs[p].buf, mine[t])
            /\ rpcqs'[p].lepo = mine[t].epoch /\ rpcqs[p].buf \in Seq(Write)
        BY <1>0, <3>2, Zenon DEF QueueAppend, Appended
      <4>2. \/ rpcqs'[p].buf[i] = mine[t]
            \/ i \in DOMAIN rpcqs[p].buf /\ rpcqs'[p].buf[i] = rpcqs[p].buf[i]
        BY <4>1
      <4> QED
        BY <2>3, <4>1, <4>2 DEF QueueEpoch
    <3>3. CASE p = peer[t] /\ SentEnqueue(t)
      <4>1. /\ rpcqs'[p].buf = Append(<<>>, mine[t])
            /\ rpcqs'[p].lepo = mine[t].epoch /\ <<>> \in Seq(Write)
        BY <1>0, <3>3, EmptySeq, Zenon DEF SentEnqueue, Appended, Opened
      <4>2. rpcqs'[p].buf[i] = mine[t]
        BY <4>1
      <4> QED
        BY <2>3, <4>1
    <3> QED
      BY <1>3, <3>1, <3>2, <3>3, Zenon
  <2> QED
    BY <2>4, <2>6, <2>7, <2>8, Zenon DEF QueueEpoch
<1>4. ASSUME NEW t \in Thread, QueueFull(t) \/ Forward(t)
      PROVE  QueueEpoch'
  <2>1. \A u \in Thread : u # t => Same(u)
    BY <1>4, Others DEF Sending
  <2>2. peer[t] \in Peer
    <3>1. InHand(t) \/ Sends(t)
      BY <1>4, Zenon DEF QueueFull, Forward, InHand, Sends
    <3> QED
      BY <3>1, Zenon DEF Fresh, QueueOwned
  <2>3. UNCHANGED <<rest, epoch, flushed>> /\ pc[t] \in {"enqueue", "forward", "send"}
    BY <1>4, Zenon DEF QueueFull, Forward
  <2>4. pc'[t] \in {"send", "sent", "reply"}
    BY <1>0, <1>4, Zenon DEF QueueFull, Forward, Go
  <2>5. \A p \in Peer : rpcqs'[p].buf = rpcqs[p].buf /\ rpcqs'[p].lepo = rpcqs[p].lepo
    <3>1. CASE QueueFull(t)
      BY <3>1 DEF QueueFull, Locked
    <3>2. CASE Forward(t)
      BY <3>2, Zenon DEF Forward
    <3> QED
      BY <1>4, <3>1, <3>2, Zenon
  <2>6. (InFlush(t)' <=> InFlush(t)) /\ (Sends(t) \/ InHand(t))
    BY <2>3, <2>4, Zenon DEF InFlush, Sends, InHand
  <2>7. ~flushed'
    BY <2>3, <2>6, Zenon DEF QueueEpoch
  <2> QED
    BY <2>1, <2>3, <2>5, <2>6 DEF QueueEpoch, Same
<1>5. ASSUME NEW t \in Thread, SentFlush(t) \/ FlushSkip(t)
      PROVE  QueueEpoch'
  <2>1. \A u \in Thread : u # t => Same(u)
    BY <1>5, Others, Zenon DEF Sending
  <2>2. InFlush(t) /\ \A u \in Thread : u # t => ~Sends(u) /\ ~InHand(u) /\ ~InFlush(u)
    BY <1>5, Alone, Zenon DEF SentFlush, FlushSkip, InFlush
  <2>3. /\ pc'[t] = "flush" /\ rest'[t] = Tail(rest[t]) /\ UNCHANGED <<epoch, flushed>>
        /\ rest[t] # <<>>
    BY <1>0, <1>5, Zenon DEF SentFlush, FlushSkip, Skipped, GoAndNotify,
       InFlush
  <2>4. ~Sends(t)' /\ ~InHand(t)'
    BY <2>3, Zenon DEF Sends, InHand
  <2>5. \A p \in Peer : \/ rpcqs'[p].buf = <<>>
                        \/ rpcqs'[p].buf = rpcqs[p].buf /\ rpcqs'[p].lepo = rpcqs[p].lepo
    <3>1. CASE SentFlush(t)
      <4>1. peer[t] \in Peer
        BY <3>1, Zenon DEF SentFlush, QueueOwned, Sends
      <4> QED
        BY <1>0, <3>1, <4>1, Zenon DEF SentFlush, Opened
    <3>2. CASE FlushSkip(t)
      BY <3>2, Zenon DEF FlushSkip, queueVars
    <3> QED
      BY <1>5, <3>1, <3>2, Zenon
  <2>6. Head(rest[t]) \in Peer => rpcqs'[Head(rest[t])].buf = <<>>
    <3>1. CASE SentFlush(t)
      <4>1. peer[t] \in Peer /\ peer[t] = Head(rest[t])
        BY <2>3, <3>1, Zenon DEF SentFlush, QueueOwned, Sends
      <4> QED
        BY <1>0, <3>1, <4>1, Zenon DEF SentFlush, Opened
    <3>2. CASE FlushSkip(t)
      BY <3>2, Zenon DEF FlushSkip, queueVars
    <3> QED
      BY <1>5, <3>1, <3>2, Zenon
  <2>7. \A p \in Peer \ Range(rest'[t]) : rpcqs'[p].buf = <<>>
    <3>1. ASSUME NEW p \in Peer \ Range(rest'[t]), p # Head(rest[t])
          PROVE  rpcqs'[p].buf = <<>>
      <4>1. p \notin Range(rest[t])
        BY <1>0, <2>3, <3>1, RangeTail, Zenon
      <4>2. rpcqs[p].buf = <<>>
        BY <2>2, <4>1, Zenon DEF QueueEpoch
      <4> QED
        BY <2>5, <4>2, Zenon
    <3> QED
      BY <2>6, <3>1, Zenon
  <2>8. \A p \in Peer : \A i \in DOMAIN rpcqs'[p].buf :
           rpcqs'[p].buf[i].epoch = epoch /\ rpcqs'[p].lepo = epoch
    BY <2>5 DEF QueueEpoch
  <2>9. flushed' => \A p \in Peer : rpcqs'[p].buf = <<>>
    BY <2>3, <2>5, Zenon DEF QueueEpoch
  <2> QED
    BY <2>1, <2>2, <2>3, <2>4, <2>7, <2>8, <2>9 DEF QueueEpoch, Same
<1>6. ASSUME NEW t \in Thread, FlushBegin(t)
      PROVE  QueueEpoch'
  <2>1. \A u \in Thread : u # t => Same(u)
    BY <1>6, Others, Zenon
  <2>2. /\ pc'[t] = "flush" /\ rest'[t] = rpcq_order /\ UNCHANGED <<rpcqs, epoch, flushed>>
        /\ \A u \in Thread : pc[u] = "idle"
    BY <1>0, <1>6, Zenon DEF FlushBegin, Go, AllIdle, queueVars
  <2>3. ~Sends(t)' /\ ~InHand(t)' /\ \A u \in Thread : ~InFlush(u) /\ ~Sends(u) /\ ~InHand(u)
    BY <2>2, Alone, Zenon DEF Sends, InHand, InFlush
  <2> QED
    BY <2>1, <2>2, <2>3, Config, Zenon DEF QueueEpoch, Same
<1>7. ASSUME NEW t \in Thread, FlushSend(t)
      PROVE  QueueEpoch'
  <2>1. \A u \in Thread : u # t => Same(u)
    BY <1>7, Others, Zenon DEF Sending
  <2>2. InFlush(t) /\ UNCHANGED <<rest, epoch, flushed>> /\ rest[t] # <<>>
    BY <1>7, Zenon DEF FlushSend, InFlush
  <2>3. Head(rest[t]) \in Peer
    BY <1>0, <2>2
  <2>4. \A p \in Peer : rpcqs'[p].buf = rpcqs[p].buf /\ rpcqs'[p].lepo = rpcqs[p].lepo
    BY <1>0, <1>7 DEF FlushSend, Locked
  <2>5. ~flushed'
    BY <1>7, <2>3, Zenon DEF FlushSend, QueueEpoch
  <2>6. \A p \in Peer : \A i \in DOMAIN rpcqs'[p].buf :
           rpcqs'[p].buf[i].epoch = epoch' /\ rpcqs'[p].lepo = epoch'
    BY <2>2, <2>4 DEF QueueEpoch
  <2>7. \A u \in Thread : InFlush(u)' => InFlush(u) /\ rest'[u] = rest[u]
    BY <2>1, <2>2, Zenon DEF Same
  <2>8. \A u \in Thread : InFlush(u)' =>
           \A p \in Peer \ Range(rest'[u]) : rpcqs'[p].buf = <<>>
    BY <2>4, <2>7, Zenon DEF QueueEpoch
  <2> QED
    BY <2>5, <2>6, <2>8, Zenon DEF QueueEpoch
<1>8. ASSUME NEW t \in Thread, FlushEnd(t) \/ WaitcbEnd(t)
      PROVE  QueueEpoch'
  <2>1. \A u \in Thread : u # t => Same(u)
    BY <1>8, Others, Zenon DEF Sending
  <2>2. InFlush(t) /\ UNCHANGED <<rpcqs, rest, epoch>> /\ rest[t] = <<>>
    BY <1>8, Alone, Zenon DEF FlushEnd, WaitcbEnd, InFlush, queueVars
  <2>3. \A u \in Thread : u # t => ~Sends(u) /\ ~InHand(u) /\ ~InFlush(u)
    BY <2>2, Alone, Zenon
  <2>4. pc'[t] \in {"idle", "waitcb"}
    BY <1>0, <1>8, Zenon DEF FlushEnd, WaitcbEnd, Go
  <2>5. ~Sends(t)' /\ ~InHand(t)'
    BY <2>4, Zenon DEF Sends, InHand
  <2>6. \A p \in Peer : rpcqs[p].buf = <<>>
    <3>1. Range(<<>>) = {}
      BY DEF Range
    <3> QED
      BY <2>2, <3>1, Zenon DEF QueueEpoch
  <2> QED
    BY <2>1, <2>2, <2>3, <2>5, <2>6, Zenon DEF QueueEpoch, Same
<1>9. CASE NextEpoch
  <2>1. /\ UNCHANGED <<pc, rest, rpcqs, flushed>> /\ flushed
    BY <1>9, Zenon DEF NextEpoch, queueVars, threadVars
  <2>2. \A p \in Peer : rpcqs[p].buf = <<>>
    BY <2>1, Zenon DEF QueueEpoch
  <2>3. \A u \in Thread : ~Sends(u)' /\ ~InHand(u)'
    BY <2>1, Zenon DEF QueueEpoch, Sends, InHand
  <2>4. \A p \in Peer : DOMAIN rpcqs[p].buf = {}
    BY <2>2
  <2> QED
    BY <2>1, <2>2, <2>3, <2>4, Zenon DEF QueueEpoch
<1> QED
  BY <1>1, <1>2, <1>3, <1>4, <1>5, <1>6, <1>7, <1>8, <1>9, QuietSteps, Zenon
  DEF Next, Sending, Looper

-----------------------------------------------------------------------------
\* The slots in use are finitely many.
LEMMA SlotsFinite ==
  ASSUME cb_flags \subseteq Slots
  PROVE  IsFiniteSet(cb_flags) /\ Cardinality(cb_flags) \in Nat
<1>1. 0 \in Int /\ cb_allowed - 1 \in Int
  BY Config
<1>2. IsFiniteSet(0..cb_allowed-1)
  BY <1>1, FS_Interval, Zenon
<1> QED
  BY <1>2, FS_Subset, FS_CardinalityType, Zenon DEF Slots

\* Steps that touch neither slots nor RPCs.
LEMMA SlotKept ==
  ASSUME SlotOwned, UNCHANGED <<slot, flight, cb_flags, cb_left, force_sync>>,
         \A u \in Thread :
           /\ pc'[u] = "forward" <=> pc[u] = "forward"
           /\ pc[u] \in {"reply", "reply wait"} =>
                pc'[u] \in {"reply", "reply wait"} \/ ~\E f \in flight : f.by = u
           /\ pc'[u] \in {"slot wait", "waitcb", "callback wait"} => ~force_sync
           /\ pc'[u] \in {"reply", "reply wait"} => force_sync,
         \A f \in flight : f.by \in Thread
  PROVE  SlotOwned'
<1>1. \A t \in Thread : SlotTaken(t)'
  BY Zenon DEF SlotOwned, SlotTaken
<1>2. \A t \in Thread : InMode(t)'
  BY Zenon DEF SlotOwned, InMode, SlotTaken
<1>3. \A f \in flight : ReplyDue(f)'
  BY Zenon DEF SlotOwned, ReplyDue
<1>4. ASSUME NEW s \in cb_flags
      PROVE  OneOwner(s)'
  <2>1. OneOwner(s)
    BY Zenon DEF SlotOwned
  <2> QED
    BY <2>1, Zenon DEF OneOwner
<1> QED
  BY <1>1, <1>2, <1>3, <1>4, Zenon DEF SlotOwned

\* A slot has one owner at every step.
LEMMA SlotOwnedStep ==
  ASSUME TypeOK, SlotOwned, [Next]_vars
  PROVE  SlotOwned'
<1>0. /\ pc \in [Thread -> Points] /\ slot \in [Thread -> Slots \cup {-1}]
      /\ cb_flags \subseteq Slots /\ cb_left \in Int
      /\ \A f \in flight : f.by \in Thread
      /\ force_sync \in BOOLEAN
  BY Zenon DEF TypeOK, Points
<1>m. -1 \notin cb_flags /\ -1 \notin Slots
  BY <1>0 DEF Slots
<1>c. cb_left = cb_allowed - Cardinality(cb_flags)
  BY Zenon DEF SlotOwned
<1>t. \A u \in Thread : /\ pc[u] = "forward" => slot[u] \in cb_flags
                        /\ pc[u] # "forward" => slot[u] = -1
  BY Zenon DEF SlotOwned, SlotTaken
<1>f. \A f \in flight :
        /\ force_sync => f.slot = -1 /\ pc[f.by] \in {"reply", "reply wait"}
        /\ ~force_sync => f.slot \in cb_flags
  BY Zenon DEF SlotOwned, ReplyDue
<1>o. \A s \in cb_flags : OneOwner(s)
  BY Zenon DEF SlotOwned
<1>d. \A u \in Thread : InMode(u)
  BY Zenon DEF SlotOwned
<1>1. CASE UNCHANGED vars \/ NextEpoch
  <2>1. UNCHANGED <<slot, flight, cb_flags, cb_left, force_sync, pc>>
    BY <1>1, Zenon DEF vars, NextEpoch, threadVars, slotVars
  <2> QED
    BY <1>0, <1>d, <2>1, SlotKept, Zenon DEF InMode
<1>2. ASSUME NEW t \in Thread, NEW l \in Points,
             UNCHANGED <<slot, flight, cb_flags, cb_left, force_sync>>,
             pc[t] # "forward" /\ l # "forward",
             l \in {"slot wait", "waitcb", "callback wait"} => ~force_sync,
             l \in {"reply", "reply wait"} => force_sync,
             pc[t] \in {"reply", "reply wait"} =>
               l \in {"reply", "reply wait"} \/ ~\E f \in flight : f.by = t,
             Go(t, l) \/ GoAndNotify(t, l, "queue wait", "enqueue")
      PROVE  SlotOwned'
  <2>1. pc'[t] = l
    BY <1>0, <1>2, Zenon DEF Go, GoAndNotify
  <2>2. \A u \in Thread : u # t =>
           pc'[u] = pc[u] \/ (pc[u] = "queue wait" /\ pc'[u] = "enqueue")
    BY <1>0, <1>2, Zenon DEF Go, GoAndNotify
  <2>3. ASSUME NEW u \in Thread
        PROVE  /\ pc'[u] = "forward" <=> pc[u] = "forward"
               /\ pc[u] \in {"reply", "reply wait"} =>
                    pc'[u] \in {"reply", "reply wait"} \/ ~\E f \in flight : f.by = u
               /\ pc'[u] \in {"slot wait", "waitcb", "callback wait"} => ~force_sync
               /\ pc'[u] \in {"reply", "reply wait"} => force_sync
    <3>1. CASE u = t
      BY <1>2, <2>1, <3>1, Zenon
    <3>2. CASE u # t
      BY <1>d, <2>2, <3>2, Zenon DEF InMode
    <3> QED
      BY <3>1, <3>2, Zenon
  <2> QED
    BY <1>0, <1>2, <2>3, SlotKept, Zenon
<1>p. {"enqueue", "idle", "send", "slot wait", "reply wait", "sent", "flush", "waitcb",
       "callback wait", "queue wait"} \subseteq Points
  BY Zenon DEF Points
<1>3. ASSUME NEW t \in Thread,
             (\E p \in Peer : Enqueue(t, p)) \/ QueueWait(t) \/ QueueAppend(t) \/ QueueFull(t)
      PROVE  SlotOwned'
  <2>1. /\ UNCHANGED <<slot, flight, cb_flags, cb_left, force_sync>>
        /\ pc[t] \in {"idle", "enqueue"}
        /\ Go(t, "enqueue") \/ Go(t, "queue wait") \/ Go(t, "idle") \/ Go(t, "send")
    BY <1>3, Zenon DEF Enqueue, QueueWait, QueueAppend, QueueFull, slotVars
  <2> QED
    BY <1>2, <1>p, <2>1, Zenon
<1>4. ASSUME NEW t \in Thread, SlotWait(t) \/ ReplyWait(t) \/ Replied(t)
      PROVE  SlotOwned'
  <2>1. UNCHANGED <<slot, flight, cb_flags, cb_left, force_sync>>
    BY <1>4, Zenon DEF SlotWait, ReplyWait, Replied, slotVars
  <2>2. CASE SlotWait(t)
    BY <1>2, <1>p, <2>1, <2>2, Zenon DEF SlotWait
  <2>3. CASE ReplyWait(t)
    <3>1. pc[t] = "reply" /\ Go(t, "reply wait") /\ force_sync
      BY <1>d, <2>3, Zenon DEF ReplyWait, InMode
    <3> QED
      BY <1>2, <1>p, <2>1, <3>1, Zenon
  <2>4. CASE Replied(t)
    BY <1>2, <1>p, <2>1, <2>4, Zenon DEF Replied
  <2> QED
    BY <1>4, <2>2, <2>3, <2>4, Zenon
<1>5. ASSUME NEW t \in Thread, SentEnqueue(t) \/ SentFlush(t) \/ FlushBegin(t) \/ FlushSend(t)
      PROVE  SlotOwned'
  <2>1. /\ UNCHANGED <<slot, flight, cb_flags, cb_left, force_sync>>
        /\ pc[t] \in {"sent", "idle", "flush"}
        /\ \/ GoAndNotify(t, "idle", "queue wait", "enqueue")
           \/ GoAndNotify(t, "flush", "queue wait", "enqueue")
           \/ Go(t, "flush") \/ Go(t, "send")
    BY <1>5, Zenon DEF SentEnqueue, SentFlush, FlushBegin, FlushSend, slotVars,
       AllIdle
  <2> QED
    BY <1>2, <1>p, <2>1, Zenon
<1>6. ASSUME NEW t \in Thread, FlushSkip(t)
      PROVE  SlotOwned'
  <2>1. UNCHANGED <<slot, flight, cb_flags, cb_left, force_sync, pc>>
    BY <1>6 DEF FlushSkip, slotVars
  <2> QED
    BY <1>0, <1>d, <2>1, SlotKept, Zenon DEF InMode
<1>7. ASSUME NEW t \in Thread, FlushEnd(t) \/ CallbackWait(t) \/ WaitcbEnd(t)
      PROVE  SlotOwned'
  <2>1. UNCHANGED <<slot, flight, cb_flags, cb_left, force_sync>>
    BY <1>7, Zenon DEF FlushEnd, CallbackWait, WaitcbEnd, slotVars
  <2>2. CASE FlushEnd(t)
    <3>1. pc[t] = "flush" /\ ((force_sync /\ Go(t, "idle")) \/ (~force_sync /\ Go(t, "waitcb")))
      BY <2>2, Zenon DEF FlushEnd
    <3> QED
      BY <1>2, <1>p, <2>1, <3>1, Zenon
  <2>3. CASE CallbackWait(t)
    <3>1. pc[t] = "waitcb" /\ Go(t, "callback wait") /\ ~force_sync
      BY <1>d, <2>3, Zenon DEF CallbackWait, InMode
    <3> QED
      BY <1>2, <1>p, <2>1, <3>1, Zenon
  <2>4. CASE WaitcbEnd(t)
    BY <1>2, <1>p, <2>1, <2>4, Zenon DEF WaitcbEnd
  <2> QED
    BY <1>7, <2>2, <2>3, <2>4
<1>8. ASSUME NEW t \in Thread, TakeSlot(t)
      PROVE  SlotOwned'
  <2>1. PICK s \in Slots : /\ s \notin cb_flags
                           /\ slot' = [slot EXCEPT ![t] = s]
                           /\ cb_flags' = cb_flags \cup {s}
    BY <1>8, Zenon DEF TakeSlot, FreeSlot
  <2>2. /\ pc[t] = "send" /\ ~force_sync /\ cb_left' = cb_left - 1
        /\ UNCHANGED <<force_sync, flight>>
    BY <1>8, Zenon DEF TakeSlot
  <2>3. pc' = [pc EXCEPT ![t] = "forward"]
    BY <1>8, Zenon DEF TakeSlot, Go
  <2>4. s # -1
    BY <1>m, Zenon
  <2>5. \A u \in Thread : slot'[u] = IF u = t THEN s ELSE slot[u]
    BY <1>0, <2>1, Zenon
  <2>6. \A u \in Thread : slot[u] # s
    BY <1>t, <2>1, <2>4, Zenon
  <2>7. \A f \in flight : f.slot # s /\ f.slot \in cb_flags
    BY <1>f, <2>1, <2>2, Zenon
  <2>8. slot[t] = -1
    BY <1>t, <2>2, Zenon
  <2>9. cb_left' = cb_allowed - Cardinality(cb_flags')
    <3>1. Cardinality(cb_flags') = Cardinality(cb_flags) + 1
      BY <1>0, <2>1, SlotsFinite, FS_AddElement, Zenon
    <3> QED
      BY <1>0, <1>c, <2>2, <3>1, SlotsFinite, Config
  <2>10. \A u \in Thread : SlotTaken(u)'
    BY <1>0, <1>t, <2>1, <2>3, Zenon DEF SlotTaken
  <2>11. \A r \in cb_flags' : OneOwner(r)'
    <3>1. ASSUME NEW r \in cb_flags
          PROVE  OneOwner(r)'
      <4>1. r # s /\ r # -1
        BY <1>m, <2>1, Zenon
      <4>2. \A v \in Thread : slot'[v] = r <=> slot[v] = r
        BY <2>5, <2>8, <4>1, Zenon
      <4> QED
        BY <1>o, <2>2, <4>2 DEF OneOwner
    <3>2. OneOwner(s)'
      BY <2>2, <2>5, <2>6, <2>7, Zenon DEF OneOwner
    <3> QED
      BY <2>1, <3>1, <3>2, Zenon
  <2>12. \A f \in flight' : ~force_sync' /\ f.slot \in cb_flags'
    BY <2>1, <2>2, <2>7, Zenon
  <2>13. \A u \in Thread : InMode(u)'
    BY <1>0, <1>d, <2>2, <2>3, Zenon DEF InMode
  <2> QED
    BY <2>9, <2>10, <2>11, <2>12, <2>13, Zenon DEF SlotOwned, ReplyDue
<1>9. ASSUME NEW t \in Thread, Forward(t), ~force_sync
      PROVE  SlotOwned'
  <2>1. /\ pc[t] = "forward" /\ Go(t, "sent")
        /\ flight' = flight \cup {Message(t)} /\ slot' = [slot EXCEPT ![t] = -1]
        /\ UNCHANGED <<force_sync, cb_flags, cb_left>>
    BY <1>9, Zenon DEF Forward, slotVars
  <2>2. Message(t).slot = slot[t] /\ slot[t] \in cb_flags
    BY <1>t, <2>1, Zenon DEF Message
  <2>3. \A u \in Thread : slot'[u] = IF u = t THEN -1 ELSE slot[u]
    BY <1>0, <2>1, Zenon
  <2>4. pc' = [pc EXCEPT ![t] = "sent"]
    BY <2>1, Zenon DEF Go
  <2>5. \A u \in Thread : SlotTaken(u)'
    BY <1>0, <1>t, <2>1, <2>4, Zenon DEF SlotTaken
  <2>6. \A f \in flight' : ~force_sync' /\ f.slot \in cb_flags'
    BY <1>9, <1>f, <2>1, <2>2, Zenon
  <2>7. ASSUME NEW r \in cb_flags
        PROVE  OneOwner(r)'
    <3>1. r # -1
      BY <1>m, <2>7, Zenon
    <3>2. \A v \in Thread : slot'[v] = r <=> v # t /\ slot[v] = r
      BY <2>3, <3>1, Zenon
    <3>3. CASE r # slot[t]
      <4>1. \A v \in Thread : slot'[v] = r <=> slot[v] = r
        BY <3>2, <3>3, Zenon
      <4>2. \A f : f \in flight' /\ f.slot = r <=> f \in flight /\ f.slot = r
        BY <2>1, <2>2, <3>3, Zenon
      <4> QED
        BY <1>o, <4>1, <4>2 DEF OneOwner
    <3>4. CASE r = slot[t]
      <4>1. \A v \in Thread : slot'[v] # r
        BY <1>o, <3>2, <3>4 DEF OneOwner
      <4>2. \A f \in flight : f.slot # r
        BY <1>o, <3>4, Zenon DEF OneOwner
      <4>3. \A f \in flight' : f.slot = r <=> f = Message(t)
        BY <2>1, <2>2, <3>4, <4>2, Zenon
      <4>4. Message(t) \in flight'
        BY <2>1, Zenon
      <4> QED
        BY <4>1, <4>3, <4>4, Zenon DEF OneOwner
    <3> QED
      BY <3>3, <3>4, Zenon
  <2>8. \A u \in Thread : InMode(u)'
    BY <1>0, <1>d, <2>1, <2>4, Zenon DEF InMode
  <2>9. cb_left' = cb_allowed - Cardinality(cb_flags')
    BY <1>c, <2>1, Zenon
  <2> QED
    BY <2>1, <2>5, <2>6, <2>7, <2>8, Zenon DEF SlotOwned, ReplyDue
<1>10. ASSUME NEW t \in Thread, Forward(t), force_sync
       PROVE  SlotOwned'
  <2>1. /\ pc[t] = "send" /\ Go(t, "reply")
        /\ flight' = flight \cup {Message(t)} /\ slot' = [slot EXCEPT ![t] = -1]
        /\ UNCHANGED <<force_sync, cb_flags, cb_left>>
    BY <1>10, <1>d, Zenon DEF Forward, slotVars, InMode
  <2>2. \A u \in Thread : slot[u] = -1 /\ pc[u] # "forward"
    BY <1>10, <1>d, <1>t, Zenon DEF InMode
  <2>3. \A u \in Thread : slot'[u] = -1
    BY <2>1, <2>2
  <2>4. Message(t).slot = -1 /\ Message(t).by = t
    BY <2>2, Zenon DEF Message
  <2>5. pc' = [pc EXCEPT ![t] = "reply"]
    BY <2>1, Zenon DEF Go
  <2>6. \A f \in flight' : f.slot = -1 /\ pc'[f.by] \in {"reply", "reply wait"}
    <3>1. \A f \in flight : f.slot = -1 /\ pc[f.by] \in {"reply", "reply wait"}
      BY <1>10, <1>f, Zenon
    <3> QED
      BY <1>0, <2>1, <2>4, <2>5, <3>1, Zenon
  <2>7. cb_flags = {}
    <3>1. \A f \in flight : f.slot = -1
      BY <1>10, <1>f, Zenon
    <3>2. \A s \in cb_flags : s # -1
      BY <1>m, Zenon
    <3> QED
      BY <1>o, <2>2, <3>1, <3>2 DEF OneOwner
  <2>8. \A u \in Thread : InMode(u)' /\ pc'[u] # "forward"
    BY <1>0, <1>10, <1>d, <2>1, <2>5, Zenon DEF InMode
  <2>9. cb_left' = cb_allowed - Cardinality(cb_flags')
    BY <1>c, <2>1, Zenon
  <2> QED
    BY <1>10, <2>1, <2>3, <2>6, <2>7, <2>8, <2>9, Zenon DEF SlotOwned, SlotTaken,
       ReplyDue
<1>11. ASSUME NEW f \in flight, AsyncHandler(f)
       PROVE  SlotOwned'
  <2>1. /\ ~force_sync /\ flight' = flight \ {f} /\ cb_flags' = cb_flags \ {f.slot}
        /\ cb_left' = cb_left + 1 /\ UNCHANGED <<force_sync, slot>>
    BY <1>11, Zenon DEF AsyncHandler
  <2>2. f.slot \in cb_flags
    BY <1>f, <2>1, Zenon
  <2>3. \A u \in Thread : \/ pc'[u] = pc[u]
                          \/ pc[u] = "slot wait" /\ pc'[u] = "send"
                          \/ pc[u] = "callback wait" /\ pc'[u] = "waitcb"
    BY <1>11, Zenon DEF AsyncHandler
  <2>4. \A u \in Thread : slot[u] # f.slot
    BY <1>o, <2>2, Zenon DEF OneOwner
  <2>5. \A g \in flight' : g \in flight /\ g.slot # f.slot
    BY <1>o, <2>1, <2>2, Zenon DEF OneOwner
  <2>6. cb_left' = cb_allowed - Cardinality(cb_flags')
    <3>1. Cardinality(cb_flags') = Cardinality(cb_flags) - 1
      BY <1>0, <2>1, <2>2, SlotsFinite, FS_RemoveElement, Zenon
    <3> QED
      BY <1>0, <1>c, <2>1, <3>1, SlotsFinite, Config
  <2>7. \A u \in Thread : SlotTaken(u)'
    BY <1>t, <2>1, <2>3, <2>4, Zenon DEF SlotTaken
  <2>8. \A g \in flight' : ~force_sync' /\ g.slot \in cb_flags'
    BY <1>f, <2>1, <2>5, Zenon
  <2>9. ASSUME NEW r \in cb_flags'
        PROVE  OneOwner(r)'
    <3>1. r \in cb_flags /\ r # f.slot
      BY <2>1, Zenon
    <3>2. \A g : g \in flight' /\ g.slot = r <=> g \in flight /\ g.slot = r
      BY <2>1, Zenon
    <3> QED
      BY <1>o, <2>1 DEF OneOwner
  <2>10. \A u \in Thread : InMode(u)'
    BY <1>d, <2>1, <2>3, Zenon DEF InMode
  <2> QED
    BY <2>6, <2>7, <2>8, <2>9, <2>10, Zenon DEF SlotOwned, ReplyDue
<1>12. ASSUME NEW f \in flight, Handler(f)
       PROVE  SlotOwned'
  <2>1. /\ force_sync /\ flight' = flight \ {f}
        /\ UNCHANGED <<force_sync, slot, cb_flags, cb_left>>
    BY <1>12, Zenon DEF Handler, slotVars
  <2>2. \A u \in Thread : \/ pc'[u] = pc[u]
                          \/ pc[u] = "reply wait" /\ pc'[u] = "reply"
    BY <1>12, Zenon DEF Handler
  <2>3. \A u \in Thread : slot[u] = -1 /\ pc'[u] # "forward"
    BY <1>d, <1>t, <2>1, <2>2, Zenon DEF InMode
  <2>4. \A g \in flight' : g.slot = -1 /\ pc'[g.by] \in {"reply", "reply wait"}
    <3>1. \A g \in flight : g.slot = -1 /\ pc[g.by] \in {"reply", "reply wait"}
      BY <1>f, <2>1, Zenon
    <3> QED
      BY <1>0, <2>1, <2>2, <3>1, Zenon
  <2>5. cb_flags = {}
    <3>1. \A g \in flight : g.slot = -1
      BY <1>f, <2>1, Zenon
    <3>2. \A s \in cb_flags : s # -1
      BY <1>m, Zenon
    <3> QED
      BY <1>o, <2>3, <3>1, <3>2 DEF OneOwner
  <2>6. \A u \in Thread : InMode(u)'
    BY <1>d, <2>1, <2>2, Zenon DEF InMode
  <2>7. cb_left' = cb_allowed - Cardinality(cb_flags')
    BY <1>c, <2>1, Zenon
  <2> QED
    BY <2>1, <2>3, <2>4, <2>5, <2>6, Zenon DEF SlotOwned, SlotTaken, ReplyDue
<1> QED
  BY <1>1, <1>3, <1>4, <1>5, <1>6, <1>7, <1>8, <1>9, <1>10, <1>11, <1>12, Zenon
  DEF Next, Sending, Looper

-----------------------------------------------------------------------------
\* RPCs leave only in Forward, and calls change what was enqueued or sent only
\* while a thread sends or has a write in hand.
LEMMA RpcSteps ==
  ASSUME [Next]_vars
  PROVE  \/ flight' \subseteq flight
         \/ \E t \in Thread : Forward(t)
<1>1. ASSUME NEW f \in flight, AsyncHandler(f) \/ Handler(f)
      PROVE  flight' \subseteq flight
  BY <1>1, Zenon DEF AsyncHandler, Handler
<1>2. ASSUME NEW t \in Thread, \E p \in Peer : Enqueue(t, p)
      PROVE  flight' = flight
  BY <1>2, Zenon DEF Enqueue
<1>3. ASSUME NEW t \in Thread,
             \/ QueueWait(t) \/ QueueAppend(t) \/ QueueFull(t) \/ SlotWait(t) \/ TakeSlot(t)
             \/ ReplyWait(t) \/ Replied(t) \/ SentEnqueue(t) \/ SentFlush(t)
      PROVE  flight' = flight
  BY <1>3, Zenon DEF QueueWait, QueueAppend, QueueFull, SlotWait, TakeSlot,
     ReplyWait, Replied, SentEnqueue, SentFlush
<1>4. ASSUME NEW t \in Thread,
             \/ FlushBegin(t) \/ FlushSkip(t) \/ FlushSend(t) \/ FlushEnd(t)
             \/ CallbackWait(t) \/ WaitcbEnd(t)
      PROVE  flight' = flight
  BY <1>4, Zenon DEF FlushBegin, FlushSkip, FlushSend, FlushEnd, CallbackWait,
     WaitcbEnd
<1>5. CASE NextEpoch \/ UNCHANGED vars
  BY <1>5, Zenon DEF NextEpoch, vars
<1> QED
  BY <1>1, <1>2, <1>3, <1>4, <1>5 DEF Next, Sending, Looper

\* An RPC leaves with writes of one epoch.
LEMMA OneEpochStep ==
  ASSUME TypeOK, QueueOwned, QueueEpoch, OneEpoch, [Next]_vars
  PROVE  OneEpoch'
<1>1. CASE flight' \subseteq flight
  BY <1>1, Zenon DEF OneEpoch
<1>2. ASSUME NEW t \in Thread, Forward(t)
      PROVE  OneEpoch'
  <2>1. peer[t] \in Peer
    BY <1>2, Zenon DEF Forward, QueueOwned, Sends
  <2>2. /\ Message(t).msg = rpcqs[peer[t]].buf /\ Message(t).epo = rpcqs[peer[t]].lepo
        /\ flight' = flight \cup {Message(t)}
    BY <1>2, Zenon DEF Message, Forward
  <2>3. \A w \in Range(rpcqs[peer[t]].buf) : w.epoch = rpcqs[peer[t]].lepo
    BY <2>1, Zenon DEF QueueEpoch, Range
  <2> QED
    BY <2>2, <2>3, Zenon DEF OneEpoch
<1> QED
  BY <1>1, <1>2, RpcSteps, Zenon

\* With all slots back, or all replies in, no RPC is in flight.
LEMMA NoneInFlight ==
  ASSUME TypeOK, QueueOwned, SlotOwned, NEW t \in Thread,
         WaitcbEnd(t) \/ (FlushEnd(t) /\ force_sync)
  PROVE  flight = {}
<1>1. CASE WaitcbEnd(t)
  <2>1. cb_left = cb_allowed /\ ~force_sync
    <3>1. pc[t] = "waitcb" /\ cb_left = cb_allowed
      BY <1>1, Zenon DEF WaitcbEnd, AllBack
    <3> QED
      BY <3>1, Zenon DEF SlotOwned, InMode
  <2>2. cb_flags = {}
    <3>1. IsFiniteSet(cb_flags) /\ Cardinality(cb_flags) \in Nat
      BY SlotsFinite, Zenon DEF TypeOK
    <3>2. cb_left = cb_allowed - Cardinality(cb_flags)
      BY Zenon DEF SlotOwned
    <3>3. Cardinality(cb_flags) = 0
      BY <2>1, <3>1, <3>2, Config
    <3> QED
      BY <3>1, <3>3, FS_EmptySet, Zenon
  <2>3. \A f \in flight : f.slot \in cb_flags
    BY <2>1, Zenon DEF SlotOwned, ReplyDue
  <2> QED
    BY <2>2, <2>3, Zenon
<1>2. CASE FlushEnd(t) /\ force_sync
  <2>1. pc[t] = "flush" /\ \A u \in Thread : u # t => pc[u] = "idle"
    BY <1>2, Alone, Zenon DEF FlushEnd, InFlush
  <2>2. \A f \in flight : pc[f.by] \in {"reply", "reply wait"}
    BY <1>2, Zenon DEF SlotOwned, ReplyDue
  <2>3. \A f \in flight : f.by \in Thread
    BY Zenon DEF TypeOK
  <2> QED
    BY <2>1, <2>2, <2>3, Zenon
<1> QED
  BY <1>1, <1>2, Zenon

\* At the end of flushq everything enqueued was sent.
LEMMA AllHanded ==
  ASSUME TypeOK, QueueOwned, InOrder, QueueEpoch, NEW t \in Thread, FlushEnd(t) \/ WaitcbEnd(t)
  PROVE  \A p \in Peer : handed[p] = arrived[p]
<1>1. InFlush(t) /\ rest[t] = <<>>
  BY Alone, Zenon DEF FlushEnd, WaitcbEnd, InFlush
<1>2. Range(<<>>) = {}
  BY DEF Range
<1>3. \A p \in Peer : rpcqs[p].buf = <<>>
  BY <1>1, <1>2, Zenon DEF QueueEpoch
<1>4. ASSUME NEW p \in Peer
      PROVE  handed[p] = arrived[p]
  <2>1. Left(p) = <<>>
    BY <1>3, Zenon DEF Left
  <2>2. handed[p] \in Seq(Write)
    BY Zenon DEF TypeOK
  <2>3. handed[p] \o <<>> = arrived[p]
    BY <2>1, Zenon DEF InOrder
  <2> QED
    BY <2>3
<1> QED
  BY <1>4, Zenon

\* When a flush returns nothing is left behind.
LEMMA FlushCompleteStep ==
  ASSUME TypeOK, QueueOwned, Fresh, InOrder, QueueEpoch, SlotOwned, FlushComplete, [Next]_vars
  PROVE  FlushComplete'
<1>1. ASSUME ~flushed' \/ (flushed /\ flight' \subseteq flight /\ UNCHANGED <<arrived, handed>>)
      PROVE  FlushComplete'
  BY <1>1, Zenon DEF FlushComplete
<1>2. ASSUME NEW t \in Thread, NEW p \in Peer, Enqueue(t, p)
      PROVE  FlushComplete'
  BY <1>2, <1>1, Zenon DEF Enqueue
<1>3. ASSUME NEW t \in Thread, QueueAppend(t) \/ SentEnqueue(t) \/ Forward(t)
      PROVE  FlushComplete'
  <2>1. InHand(t) \/ Sends(t)
    BY <1>3, Zenon DEF QueueAppend, SentEnqueue, Forward, InHand, Sends
  <2>2. flushed' = flushed
    BY <1>3, Zenon DEF QueueAppend, SentEnqueue, Forward
  <2> QED
    BY <1>1, <2>1, <2>2, Zenon DEF QueueEpoch
<1>4. ASSUME NEW t \in Thread,
             \/ QueueWait(t) \/ QueueFull(t) \/ SlotWait(t) \/ TakeSlot(t) \/ ReplyWait(t)
             \/ Replied(t) \/ SentFlush(t) \/ FlushBegin(t) \/ FlushSkip(t) \/ FlushSend(t)
             \/ CallbackWait(t)
      PROVE  FlushComplete'
  <2>1. UNCHANGED <<flushed, flight, arrived, handed>>
    BY <1>4, Zenon DEF QueueWait, QueueFull, SlotWait, TakeSlot, ReplyWait,
       Replied, SentFlush, FlushBegin, FlushSkip, FlushSend, CallbackWait,
       queueVars
  <2> QED
    BY <2>1, Zenon DEF FlushComplete
<1>5. ASSUME NEW f \in flight, AsyncHandler(f) \/ Handler(f)
      PROVE  FlushComplete'
  <2>1. UNCHANGED <<flushed, arrived, handed>> /\ flight' \subseteq flight
    BY <1>5, Zenon DEF AsyncHandler, Handler, queueVars
  <2> QED
    BY <2>1, Zenon DEF FlushComplete
<1>6. ASSUME NEW t \in Thread, FlushEnd(t) \/ WaitcbEnd(t)
      PROVE  FlushComplete'
  <2>1. UNCHANGED <<flight, arrived, handed>>
    BY <1>6, Zenon DEF FlushEnd, WaitcbEnd, queueVars
  <2>2. \A p \in Peer : handed[p] = arrived[p]
    BY <1>6, AllHanded, Zenon
  <2>3. flushed' => flight = {}
    <3>1. flushed' => WaitcbEnd(t) \/ (FlushEnd(t) /\ force_sync)
      BY <1>6, Zenon DEF FlushEnd
    <3> QED
      BY <3>1, NoneInFlight, Zenon
  <2> QED
    BY <2>1, <2>2, <2>3, Zenon DEF FlushComplete
<1>7. CASE NextEpoch \/ UNCHANGED vars
  <2>1. UNCHANGED <<flushed, flight, arrived, handed>>
    BY <1>7, Zenon DEF NextEpoch, vars, queueVars
  <2> QED
    BY <2>1, Zenon DEF FlushComplete
<1> QED
  BY <1>2, <1>3, <1>4, <1>5, <1>6, <1>7 DEF Next, Sending, Looper

-----------------------------------------------------------------------------
\* The invariant holds when nn_shuffler_init returns.
LEMMA InitInv ==
  ASSUME Init
  PROVE  SendInv
<1>1. <<>> \in Seq(Write) /\ <<>> \in Seq(Peer)
  OBVIOUS
<1>2. 0 \in 0..MaxEpoch /\ 0 \in 0..MaxWrites /\ cb_allowed \in Int
  BY Config
<1>3. TypeOK
  BY <1>2 DEF Init, TypeOK
<1>4. \A t \in Thread : pc[t] = "idle" /\ rest[t] = <<>> /\ slot[t] = -1
  BY Zenon DEF Init
<1>5. \A t \in Thread : ~Sends(t) /\ ~Passed(t) /\ ~InHand(t) /\ ~InFlush(t)
  BY <1>4, Zenon DEF Sends, Passed, InHand, InFlush
<1>6. \A p \in Peer : rpcqs[p].buf = <<>> /\ arrived[p] = <<>> /\ handed[p] = <<>>
  BY Zenon DEF Init
<1>7. QueueOwned
  BY <1>4, <1>5, Zenon DEF QueueOwned
<1>8. Fresh
  BY <1>5, <1>6 DEF Fresh
<1>9. InOrder
  <2>1. \A p \in Peer : Left(p) = <<>>
    BY <1>6, Zenon DEF Left
  <2>2. \A p \in Peer : handed[p] \o <<>> = handed[p]
    OBVIOUS
  <2> QED
    BY <1>6, <2>1, <2>2, Zenon DEF InOrder
<1>10. QueueEpoch
  BY <1>5, <1>6 DEF QueueEpoch
<1>11. SlotOwned
  <2>1. cb_flags = {} /\ cb_left = cb_allowed /\ flight = {}
    BY Zenon DEF Init
  <2>2. cb_left = cb_allowed - Cardinality(cb_flags)
    BY <1>2, <2>1, FS_EmptySet
  <2> QED
    BY <1>4, <2>1, <2>2, Zenon DEF SlotOwned, SlotTaken, InMode
<1>12. OneEpoch /\ FlushComplete
  BY Zenon DEF Init, OneEpoch, FlushComplete
<1> QED
  BY <1>3, <1>7, <1>8, <1>9, <1>10, <1>11, <1>12 DEF SendInv

\* Every step keeps it.
LEMMA StepInv ==
  ASSUME SendInv, [Next]_vars
  PROVE  SendInv'
<1>1. /\ TypeOK /\ QueueOwned /\ Fresh /\ InOrder /\ QueueEpoch /\ SlotOwned
      /\ OneEpoch /\ FlushComplete
  BY Zenon DEF SendInv
<1> QED
  BY TypeStep, QueueOwnedStep, FreshStep, InOrderStep, QueueEpochStep,
     SlotOwnedStep, OneEpochStep, FlushCompleteStep, Zenon DEF SendInv

\* Queues and callback slots have one owner, whatever the interleaving of
\* enqueue, flushq, write_send_async and the handlers; every write is in one
\* place and in order; a queue holds writes of the current epoch.
THEOREM SendInvariant == Spec => []SendInv
<1>1. Init => SendInv
  BY InitInv, Zenon
<1>2. SendInv /\ [Next]_vars => SendInv'
  BY StepInv, Zenon
<1> QED
  BY <1>1, <1>2, PTL DEF Spec

\* Every write in an RPC was made in the epoch that the RPC carries.
THEOREM EpochOfMessage == Spec => []OneEpoch
<1>1. SendInv => OneEpoch
  BY Zenon DEF SendInv
<1> QED
  BY <1>1, SendInvariant, PTL

\* When shuffle_epoch_end returns, every write made before was answered by its
\* peer.
THEOREM FlushLeavesNothing == Spec => []FlushComplete
<1>1. SendInv => FlushComplete
  BY Zenon DEF SendInv
<1> QED
  BY <1>1, SendInvariant, PTL

-----------------------------------------------------------------------------
\* What a step is to the mailbox of a peer, when it does not concern it.
LEMMA Invisible ==
  ASSUME NEW p \in Peer, arrived'[p] = arrived[p], handed'[p] = handed[p],
         \A u \in Thread : InFlush(u)' <=> InFlush(u)
  PROVE  [Promise(p)!Next]_<<arrived[p], handed[p], Flushing>>
<1>1. Flushing' = Flushing
  BY Zenon DEF Flushing
<1> QED
  BY <1>1, Zenon

\* Every step is one of the mailbox of every peer, or none: a write is
\* accepted when it is put into the queue, and handed on by HG_Forward.
LEMMA PromiseStep ==
  ASSUME SendInv, SendInv', [Next]_vars, NEW p \in Peer
  PROVE  [Promise(p)!Next]_<<arrived[p], handed[p], Flushing>>
<1>i. /\ TypeOK /\ QueueOwned /\ Fresh /\ InOrder /\ QueueEpoch /\ SlotOwned
      /\ QueueOwned' /\ InOrder' /\ FlushComplete'
  BY Zenon DEF SendInv
<1>0. /\ pc \in [Thread -> Points] /\ rest \in [Thread -> Seq(Peer)]
      /\ arrived \in [Peer -> Seq(Write)] /\ handed \in [Peer -> Seq(Write)]
      /\ rpcqs[p].buf \in Seq(Write) /\ force_sync \in BOOLEAN
  BY <1>i, Zenon DEF TypeOK, Points
<1>1. CASE Quiet
  <2>1. arrived' = arrived /\ handed' = handed /\ \A u \in Thread : InFlush(u)' <=> InFlush(u)
    BY <1>1, Zenon DEF Quiet, Same
  <2> QED
    BY <2>1, Invisible, Zenon
<1>2. ASSUME NEW t \in Thread, NEW q \in Peer, Enqueue(t, q)
      PROVE  [Promise(p)!Next]_<<arrived[p], handed[p], Flushing>>
  <2>1. \A u \in Thread : u # t => Same(u)
    BY <1>2, <1>i, Others, Zenon
  <2>2. pc'[t] = "enqueue" /\ rest' = rest /\ pc[t] = "idle" /\ UNCHANGED <<arrived, handed>>
    BY <1>0, <1>2, Zenon DEF Enqueue, Go, queueVars
  <2>3. InFlush(t)' <=> InFlush(t)
    BY <2>2, Zenon DEF InFlush
  <2> QED
    BY <2>1, <2>2, <2>3, Invisible, Zenon DEF Same
<1>3. ASSUME NEW t \in Thread, QueueAppend(t) \/ SentEnqueue(t)
      PROVE  [Promise(p)!Next]_<<arrived[p], handed[p], Flushing>>
  <2>1. \A u \in Thread : u # t => Same(u)
    BY <1>3, <1>i, Others, Zenon DEF Sending
  <2>2. InHand(t) /\ pc[t] # "idle" /\ ~InFlush(t)
    <3>1. CASE QueueAppend(t)
      BY <1>i, <3>1, Alone, Zenon DEF QueueAppend, InHand, InFlush
    <3>2. CASE SentEnqueue(t)
      BY <3>2, Zenon DEF SentEnqueue, InHand, InFlush, Sends
    <3> QED
      BY <1>3, <3>1, <3>2, Zenon
  <2>3. /\ peer[t] \in Peer /\ mine[t] \in Write
        /\ \A i \in DOMAIN arrived[p] : arrived[p][i].id # mine[t].id
    BY <1>i, <2>2, Zenon DEF Fresh
  <2>4. /\ pc'[t] = "idle" /\ rest' = rest /\ handed' = handed
        /\ arrived' = [arrived EXCEPT ![peer[t]] = Append(@, mine[t])]
    BY <1>0, <1>3, Zenon DEF QueueAppend, SentEnqueue, Go, GoAndNotify
  <2>5. \A u \in Thread : ~InFlush(u) /\ ~InFlush(u)'
    <3>1. \A u \in Thread : ~InFlush(u)
      BY <1>i, <2>2, Zenon DEF QueueOwned
    <3>2. ~InFlush(t)'
      BY <2>2, <2>4, Zenon DEF InFlush
    <3> QED
      BY <2>1, <3>1, <3>2, Zenon DEF Same
  <2>6. CASE p # peer[t]
    BY <2>4, <2>5, <2>6, Invisible
  <2>7. CASE p = peer[t]
    <3>1. arrived'[p] = Append(arrived[p], mine[t]) /\ handed'[p] = handed[p]
      BY <1>0, <2>4, <2>7, Zenon
    <3>2. mine[t] \notin {arrived[p][i] : i \in DOMAIN arrived[p]}
      BY <2>3, Zenon
    <3>3. Flushing = FALSE /\ Flushing' = FALSE
      BY <2>5, Zenon DEF Flushing
    <3>4. Promise(p)!Accept
      BY <2>3, <3>1, <3>3, Zenon DEF Promise!Accept, Promise!ItemsOf, Write
    <3> QED
      BY <3>4, Zenon DEF Promise!Next
  <2> QED
    BY <2>6, <2>7, Zenon
<1>4. ASSUME NEW t \in Thread, Forward(t)
      PROVE  [Promise(p)!Next]_<<arrived[p], handed[p], Flushing>>
  <2>1. \A u \in Thread : u # t => Same(u)
    BY <1>4, <1>i, Others, Zenon DEF Sending
  <2>2. /\ pc[t] \in {"forward", "send"} /\ pc'[t] \in {"sent", "reply"}
        /\ peer' = peer /\ rest' = rest /\ UNCHANGED <<rpcqs, arrived>>
        /\ handed' = [handed EXCEPT ![peer[t]] = @ \o rpcqs[peer[t]].buf]
    BY <1>0, <1>4, Zenon DEF Forward, Go
  <2>3. \A u \in Thread : InFlush(u)' <=> InFlush(u)
    <3>1. InFlush(t)' <=> InFlush(t)
      BY <2>2, Zenon DEF InFlush
    <3> QED
      BY <2>1, <3>1, Zenon DEF Same
  <2>4. peer[t] \in Peer
    BY <1>i, <2>2, Zenon DEF QueueOwned, Sends
  <2>5. CASE p # peer[t] \/ rpcqs[p].buf = <<>>
    <3>1. handed[p] \in Seq(Write) /\ handed[p] \o <<>> = handed[p]
      BY <1>0
    <3>2. handed'[p] = handed[p]
      BY <1>0, <2>2, <2>5, <3>1, Zenon
    <3> QED
      BY <2>2, <2>3, <3>2, Invisible, Zenon
  <2>6. CASE p = peer[t] /\ rpcqs[p].buf # <<>>
    <3>1. handed'[p] = handed[p] \o rpcqs[p].buf
      BY <1>0, <2>2, <2>6, Zenon
    <3>2. handed'[p] = arrived[p]
      <4>1. Passed(t)' /\ peer'[t] = p
        BY <2>2, <2>6, Zenon DEF Passed
      <4>2. Left(p)' = <<>>
        BY <4>1, Zenon DEF Left
      <4>3. handed'[p] \o <<>> = arrived'[p]
        BY <1>i, <4>2, Zenon DEF InOrder
      <4>4. handed'[p] \in Seq(Write)
        BY <1>0, <3>1
      <4> QED
        BY <2>2, <4>3
    <3>3. Len(arrived[p]) \in Len(handed[p])+1 .. Len(arrived[p])
      <4>1. /\ Len(handed[p]) \in Nat /\ Len(rpcqs[p].buf) \in Nat
            /\ Len(rpcqs[p].buf) # 0
        <5>1. handed[p] \in Seq(Write)
          BY <1>0, Zenon
        <5> QED
          BY <2>6
      <4>2. Len(arrived[p]) = Len(handed[p]) + Len(rpcqs[p].buf)
        <5>1. handed[p] \in Seq(Write) /\ arrived[p] = handed[p] \o rpcqs[p].buf
          BY <1>0, <3>1, <3>2, Zenon
        <5> QED
          BY <5>1
      <4>3. \A a, b \in Nat : b # 0 => a + b \in a + 1 .. a + b
        OBVIOUS
      <4> QED
        BY <4>1, <4>2, <4>3, Zenon
    <3>4. SubSeq(arrived[p], 1, Len(arrived[p])) = arrived[p]
      BY <1>0
    <3>5. Flushing' = Flushing /\ arrived' = arrived
      BY <2>2, <2>3, Zenon DEF Flushing
    <3>6. Promise(p)!Hand
      BY <3>2, <3>3, <3>4, <3>5, Zenon DEF Promise!Hand
    <3> QED
      BY <3>6, Zenon DEF Promise!Next
  <2> QED
    BY <2>5, <2>6, Zenon
<1>5. ASSUME NEW t \in Thread, QueueFull(t) \/ SentFlush(t) \/ FlushSkip(t) \/ FlushSend(t)
      PROVE  [Promise(p)!Next]_<<arrived[p], handed[p], Flushing>>
  <2>1. \A u \in Thread : u # t => Same(u)
    BY <1>5, <1>i, Others, Zenon DEF Sending
  <2>2. UNCHANGED <<arrived, handed>>
    BY <1>5, Zenon DEF QueueFull, SentFlush, FlushSkip, FlushSend, queueVars
  <2>3. InFlush(t)' <=> InFlush(t)
    <3>1. CASE QueueFull(t)
      BY <1>0, <3>1, Zenon DEF QueueFull, Go, InFlush
    <3>2. CASE SentFlush(t)
      BY <3>2, Zenon DEF SentFlush, GoAndNotify, InFlush
    <3>3. CASE FlushSkip(t)
      BY <3>3, Zenon DEF FlushSkip, InFlush
    <3>4. CASE FlushSend(t)
      BY <3>4, Zenon DEF FlushSend, Go, InFlush
    <3> QED
      BY <1>5, <3>1, <3>2, <3>3, <3>4, Zenon
  <2> QED
    BY <2>1, <2>2, <2>3, Invisible, Zenon DEF Same
<1>6. ASSUME NEW t \in Thread, FlushBegin(t)
      PROVE  [Promise(p)!Next]_<<arrived[p], handed[p], Flushing>>
  <2>1. /\ pc'[t] = "flush" /\ UNCHANGED <<arrived, handed>>
        /\ \A u \in Thread : pc[u] = "idle"
    BY <1>0, <1>6, Zenon DEF FlushBegin, Go, AllIdle, queueVars
  <2>2. \A u \in Thread : ~InFlush(u)
    BY <1>i, <2>1, Alone, Zenon DEF InFlush
  <2>3. InFlush(t)'
    BY <2>1, Zenon DEF InFlush
  <2>4. Flushing = FALSE /\ Flushing' = TRUE
    BY <2>2, <2>3, Zenon DEF Flushing
  <2>5. Promise(p)!FlushBegin
    BY <2>1, <2>4, Zenon DEF Promise!FlushBegin, Promise!ItemsOf, Range
  <2> QED
    BY <2>5, Zenon DEF Promise!Next
<1>7. ASSUME NEW t \in Thread, FlushEnd(t), ~force_sync
      PROVE  [Promise(p)!Next]_<<arrived[p], handed[p], Flushing>>
  <2>1. \A u \in Thread : u # t => Same(u)
    BY <1>7, <1>i, Others, Zenon DEF Sending
  <2>2. pc[t] = "flush" /\ pc'[t] = "waitcb" /\ UNCHANGED <<arrived, handed>>
    BY <1>0, <1>7, Zenon DEF FlushEnd, Go, queueVars
  <2>3. InFlush(t)' /\ InFlush(t)
    BY <2>2, Zenon DEF InFlush
  <2> QED
    BY <2>1, <2>2, <2>3, Invisible, Zenon DEF Same
<1>8. ASSUME NEW t \in Thread, WaitcbEnd(t) \/ (FlushEnd(t) /\ force_sync)
      PROVE  [Promise(p)!Next]_<<arrived[p], handed[p], Flushing>>
  <2>1. \A u \in Thread : u # t => Same(u)
    BY <1>8, <1>i, Others, Zenon DEF Sending
  <2>2. pc[t] \in {"flush", "waitcb"} /\ UNCHANGED <<arrived, handed, rest>>
    BY <1>8, Zenon DEF FlushEnd, WaitcbEnd, queueVars
  <2>3. pc'[t] = "idle"
    BY <1>0, <1>8, Zenon DEF FlushEnd, WaitcbEnd, Go
  <2>4. InFlush(t)
    BY <2>2, Zenon DEF InFlush
  <2>5. \A u \in Thread : ~InFlush(u)'
    <3>1. rest[t] = <<>>
      BY <1>8, <1>i, Alone, Zenon DEF FlushEnd, WaitcbEnd
    <3>2. ~InFlush(t)'
      BY <2>2, <2>3, <3>1, Zenon DEF InFlush
    <3>3. \A u \in Thread : u # t => ~InFlush(u)
      BY <1>i, <2>4, Alone, Zenon
    <3> QED
      BY <2>1, <3>2, <3>3, Zenon DEF Same
  <2>6. Flushing = TRUE /\ Flushing' = FALSE
    BY <2>4, <2>5, Zenon DEF Flushing
  <2>7. handed[p] = arrived[p]
    BY <1>8, <1>i, AllHanded, Zenon
  <2>8. Promise(p)!FlushEnd
    BY <2>2, <2>6, <2>7, Zenon DEF Promise!FlushEnd, Promise!ItemsOf, Range
  <2> QED
    BY <2>8, Zenon DEF Promise!Next
<1>9. CASE NextEpoch
  <2>1. UNCHANGED <<arrived, handed, pc, rest>>
    BY <1>9, Zenon DEF NextEpoch, queueVars, threadVars
  <2>2. \A u \in Thread : InFlush(u)' <=> InFlush(u)
    BY <2>1, Zenon DEF InFlush
  <2> QED
    BY <2>1, <2>2, Invisible, Zenon
<1>10. /\ \A t \in Thread :
             QueueWait(t) \/ SlotWait(t) \/ TakeSlot(t) \/ ReplyWait(t) \/ Replied(t)
             \/ CallbackWait(t) => Quiet
       /\ \A f \in flight : AsyncHandler(f) \/ Handler(f) => Quiet
       /\ UNCHANGED vars => Quiet
  BY <1>i, QuietSteps, Zenon
<1> QED
  BY <1>1, <1>2, <1>3, <1>4, <1>5, <1>6, <1>7, <1>8, <1>9, <1>10, Zenon
  DEF Next, Sending, Looper

\* The queue to a peer is a mailbox: writes leave in the order they came in,
\* each once, and when shuffle_epoch_end returns nothing is left behind.
THEOREM SendImplements == Spec => Implements
<1>1. Init => \A p \in Peer : Promise(p)!Init
  <2>1. ASSUME Init, NEW p \in Peer
        PROVE  Promise(p)!Init
    <3>1. arrived[p] = <<>> /\ handed[p] = <<>>
      BY <2>1, Zenon DEF Init
    <3>2. \A u \in Thread : ~InFlush(u)
      BY <2>1, Zenon DEF Init, InFlush
    <3>3. Flushing = FALSE
      BY <3>2, Zenon DEF Flushing
    <3> QED
      BY <3>1, <3>3, Zenon DEF Promise!Init
  <2> QED
    BY <2>1, Zenon
<1>2. SendInv /\ SendInv' /\ [Next]_vars =>
        [\A p \in Peer : [Promise(p)!Next]_<<arrived[p], handed[p], Flushing>>]_vars
  BY PromiseStep, Zenon
<1> QED
  BY <1>1, <1>2, SendInvariant, PTL DEF Spec, Implements

=============================================================================
