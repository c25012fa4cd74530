--------------------------- MODULE OutQueueSteps ----------------------------
(***************************************************************************)
(* Proofs about one output queue, for any number of requests, threads and  *)
(* flushes, any limits and any failures of mercury: its steps keep the     *)
(* types, every request in one place only, what is known of the local      *)
(* variables and of the lock, the room for RPCs, and the order of the      *)
(* requests.                                                               *)
(***************************************************************************)
EXTENDS OutQueue, TLAPS

-----------------------------------------------------------------------------
\* Sequences.

LEMMA LenFacts ==
  ASSUME NEW S, NEW s \in Seq(S)
  PROVE  /\ Len(s) \in Nat /\ DOMAIN s = 1 .. Len(s)
         /\ \A i \in 1 .. Len(s) : s[i] \in S
OBVIOUS

LEMMA AppendFacts ==
  ASSUME NEW S, NEW s \in Seq(S), NEW x \in S
  PROVE  /\ Append(s, x) \in Seq(S) /\ Len(Append(s, x)) = Len(s) + 1
         /\ \A i \in 1 .. Len(s) : Append(s, x)[i] = s[i]
         /\ Append(s, x)[Len(s) + 1] = x
OBVIOUS

LEMMA AppendKeeps ==
  ASSUME NEW S, NEW s \in Seq(S), NEW x \in S, NEW n \in Nat, n <= Len(s)
  PROVE  /\ n <= Len(Append(s, x))
         /\ \A i \in 1 .. n : Append(s, x)[i] = s[i]
OBVIOUS

LEMMA HeadTailFacts ==
  ASSUME NEW S, NEW s \in Seq(S), s # <<>>
  PROVE  /\ Head(s) \in S /\ Tail(s) \in Seq(S)
         /\ Len(Tail(s)) = Len(s) - 1
         /\ \A i \in 1 .. Len(Tail(s)) : Tail(s)[i] = s[i + 1]
OBVIOUS

LEMMA ConcatFacts ==
  ASSUME NEW S, NEW s \in Seq(S), NEW u \in Seq(S)
  PROVE  /\ s \o u \in Seq(S) /\ Len(s \o u) = Len(s) + Len(u)
         /\ \A i \in 1 .. Len(s) + Len(u) :
              (s \o u)[i] = IF i <= Len(s) THEN s[i] ELSE u[i - Len(s)]
OBVIOUS


-----------------------------------------------------------------------------
\* The threads are distinct, and none of them is NoThread.
LEMMA ThreadFacts ==
  /\ Senders \subseteq Threads /\ Net \in Threads /\ Flusher \in Threads
  /\ Clients \subseteq Senders /\ Handlers \subseteq Senders
  /\ Net \notin Senders /\ Flusher \notin Senders /\ Net # Flusher
  /\ NoThread \notin Threads
BY ThreadAssumption, Zenon DEF Senders, Threads

\* The sums and comparisons a parent's count of references needs.
LEMMA Units == /\ 0 + 0 = 0 /\ 0 + 1 = 1 /\ 1 + 0 = 1 /\ 1 + 1 = 2
               /\ 0 < 1 /\ ~(1 < 1) /\ ~(2 < 1)
OBVIOUS

\* What the configuration (shuffler_init's arguments) is assumed to be.
LEMMA ConfigFacts ==
  /\ maxoqrpc \in Nat /\ maxoqrpc > 0 /\ buftarget \in Nat /\ buftarget > 0
  /\ shufsend_rpclimit \in Nat /\ MaxFail \in Nat /\ MaxFlush \in Nat
  /\ Size \in [Reqs -> Nat]
BY ConfigAssumption, SizeAssumption

\* The batch that append_req_to_locked_outqueue moves keeps the types.
LEMMA AppendReqType ==
  ASSUME TypeOK, NEW t \in Threads, NEW r \in Reqs, AppendReq(t, r)
  PROVE  /\ loading' \in Seq(Reqs) /\ loadsize' \in Nat
         /\ outs' \in Seq(Batches) /\ nsending' \in Nat
         /\ oput' \in [Threads -> Batches] /\ batched' \in Seq(Reqs)
<1>1. Size[r] \in Nat
  BY ConfigFacts, Zenon
<1>2. Append(loading, r) \in Seq(Reqs) /\ <<>> \in Seq(Reqs)
  BY DEF TypeOK
<1>3. CASE QueueReq(t, r)
  <2>1. loadsize' \in Nat
    BY <1>1, <1>3, SMTT(40) DEF TypeOK, QueueReq
  <2>2. oput' \in [Threads -> Batches]
    BY <1>3 DEF TypeOK, QueueReq, Batches
  <2> QED
    BY <1>3, <2>1, <2>2 DEF TypeOK, QueueReq
<1>4. CASE SendBatch(t, Append(loading, r))
  <2>1. outs' \in Seq(Batches)
    BY <1>4 DEF TypeOK, SendBatch, Batches
  <2>2. batched' \in Seq(Reqs)
    BY <1>4 DEF TypeOK, SendBatch
  <2> QED
    BY <1>4 DEF TypeOK, SendBatch, Batches
<1> QED
  BY <1>3, <1>4, Zenon DEF AppendReq

\* So does its call without a request, which pushes out the batch.
LEMMA FlushLoadingType ==
  ASSUME TypeOK, NEW t \in Threads, FlushLoading(t)
  PROVE  /\ loading' \in Seq(Reqs) /\ loadsize' \in Nat
         /\ outs' \in Seq(Batches) /\ nsending' \in Nat
         /\ oput' \in [Threads -> Batches] /\ batched' \in Seq(Reqs)
<1>1. <<>> \in Seq(Reqs)
  OBVIOUS
<1>2. CASE SendBatch(t, loading)
  <2>1. outs' \in Seq(Batches)
    BY <1>2 DEF TypeOK, SendBatch, Batches
  <2>2. batched' \in Seq(Reqs)
    BY <1>2 DEF TypeOK, SendBatch
  <2> QED
    BY <1>2 DEF TypeOK, SendBatch, Batches
<1>3. CASE /\ oput' = [oput EXCEPT ![t] = <<>>]
           /\ UNCHANGED <<loading, loadsize, outs, nsending, batched>>
  BY <1>3 DEF TypeOK, Batches
<1> QED
  BY <1>2, <1>3, Zenon DEF FlushLoading

\* What XTAILQ_REMOVE of one output leaves of the list.
LEMMA WithoutProperties ==
  ASSUME NEW S, NEW s \in Seq(S), NEW i \in 1 .. Len(s)
  PROVE  /\ Without(s, i) \in Seq(S)
         /\ Len(Without(s, i)) = Len(s) - 1
         /\ DOMAIN Without(s, i) = 1 .. (Len(s) - 1)
         /\ \A j \in 1 .. (Len(s) - 1) :
              Without(s, i)[j] = IF j < i THEN s[j] ELSE s[j + 1]
<1> DEFINE a == SubSeq(s, 1, i - 1)
           b == SubSeq(s, i + 1, Len(s))
<1>0. Len(s) \in Nat /\ \A j \in 1 .. Len(s) : s[j] \in S
  OBVIOUS
<1>1. /\ a \in Seq(S) /\ Len(a) = i - 1
      /\ \A j \in 1 .. (i - 1) : a[j] = s[j]
  OBVIOUS
<1>2. /\ b \in Seq(S) /\ Len(b) = Len(s) - i
      /\ \A j \in 1 .. (Len(s) - i) : b[j] = s[i + j]
  <2>1. \A j \in (i + 1) .. Len(s) : s[j] \in S
    OBVIOUS
  <2>2. /\ b \in Seq(S)
        /\ Len(b) = IF i + 1 <= Len(s) THEN Len(s) - (i + 1) + 1 ELSE 0
        /\ \A j \in 1 .. (Len(s) - (i + 1) + 1) : b[j] = s[(i + 1) + j - 1]
    OBVIOUS
  <2> QED
    OBVIOUS
<1>3. Without(s, i) = a \o b
  BY Zenon DEF Without
<1>4. /\ a \o b \in Seq(S)
      /\ Len(a \o b) = Len(a) + Len(b)
      /\ \A j \in 1 .. Len(a) + Len(b) :
           (a \o b)[j] = IF j <= Len(a) THEN a[j] ELSE b[j - Len(a)]
  BY <1>1, <1>2, ConcatFacts, Zenon
<1> HIDE DEF a, b
<1>5. Len(a) + Len(b) = Len(s) - 1
  BY <1>1, <1>2
<1>6. ASSUME NEW j \in 1 .. (Len(s) - 1)
      PROVE  (a \o b)[j] = IF j < i THEN s[j] ELSE s[j + 1]
  <2>1. CASE j < i
    BY <1>1, <2>1
  <2>2. CASE ~(j < i)
    <3>1. j - Len(a) \in 1 .. (Len(s) - i) /\ i + (j - Len(a)) = j + 1
      BY <1>1, <2>2
    <3>2. (a \o b)[j] = b[j - Len(a)]
      BY <1>1, <1>5, <2>2
    <3> QED
      BY <1>2, <2>2, <3>1, <3>2, Zenon
  <2> QED
    BY <2>1, <2>2, Zenon
<1>7. DOMAIN (a \o b) = 1 .. (Len(s) - 1)
  BY <1>4, <1>5, LenFacts
<1> QED
  BY <1>3, <1>4, <1>5, <1>6, <1>7, Zenon

-----------------------------------------------------------------------------
\* Types.

\* The empty lists have their types.
LEMMA EmptySeqs ==
  <<>> \in Seq(Reqs) /\ <<>> \in Seq(BOOLEAN) /\ <<>> \in Seq(Batches)
OBVIOUS

\* A batch consists of requests.
LEMMA RangeType == ASSUME NEW b \in Batches PROVE Range(b) \subseteq Reqs
BY LenFacts DEF Batches, Range

\* Where a thread goes on after forward_reqs_now.
LEMMA LocationsOK ==
  ASSUME NEW t, NEW fr
  PROVE  /\ Return(t) \in {"reply", "outs", "idle"}
         /\ Continue(t, fr) \in {"reply", "outs", "idle", "done"}
BY Zenon DEF Return, Continue

\* An output that is on the list has a position there.
LEMMA PosOK ==
  ASSUME NEW b, b \in Range(outs), outs \in Seq(Batches)
  PROVE  Pos(b) \in 1 .. Len(outs) /\ outs[Pos(b)] = b
<1>1. \E i \in DOMAIN outs : outs[i] = b
  BY Zenon DEF Range
<1>2. Pos(b) \in DOMAIN outs /\ outs[Pos(b)] = b
  BY <1>1, Zenon DEF Pos
<1> QED
  BY <1>2

\* XTAILQ_LAST gives an output or NULL.
LEMMA LastOutputType == ASSUME TypeOK PROVE LastOutput \in Batches
<1>1. outs \in Seq(Batches)
  BY Zenon DEF TypeOK
<1>2. outs # <<>> => Len(outs) \in 1 .. Len(outs)
  OBVIOUS
<1> QED
  BY <1>1 DEF LastOutput, Batches

\* Every step keeps the types.
LEMMA TypeStep == IndInv /\ Next => TypeOK'
<1> SUFFICES ASSUME IndInv, Next PROVE TypeOK'
  BY Zenon
<1>0. TypeOK /\ LocalInv /\ OutputOwned
  BY Zenon DEF IndInv
<1> USE <1>0, ThreadFacts, EmptySeqs DEF queueVars, flushVars, osetVars,
        flusherVars, parentVars, hgVars, histVars, Goto
<1>1. ASSUME NEW t \in Senders, NEW r \in Reqs, Send(t, r) PROVE TypeOK'
  <2>1. shufsendq' \in Seq(Clients)
    <3>1. t \in Clients /\ shufsendq \in Seq(Clients)
      BY <1>1, Zenon DEF Send, TypeOK
    <3>2. Append(shufsendq, t) \in Seq(Clients)
      BY <3>1
    <3> QED
      BY <1>1, <3>2 DEF Send
  <2>2. pc' \in [Threads -> Locations]
    <3>1. pc \in [Threads -> Locations]
      BY Zenon DEF TypeOK
    <3>2. \/ pc' = [pc EXCEPT ![t] = "enqueue"]
          \/ pc' = [pc EXCEPT ![t] = "limit"]
      BY <1>1, Zenon DEF Send, Goto
    <3> QED
      BY <3>1, <3>2, Zenon DEF Locations
  <2> QED
    BY <1>1, <2>1, <2>2, Zenon DEF Send, TypeOK
<1>2. ASSUME NEW t \in Senders, NEW r \in Reqs, Relay(t, r) PROVE TypeOK'
  BY <1>2, Zenon DEF Relay, TypeOK, Locations
<1>3. ASSUME NEW t \in Senders, PassLimit(t) PROVE TypeOK'
  BY <1>3, Zenon DEF PassLimit, TypeOK, Locations
<1>4. ASSUME NEW t \in Senders, EnqueueNow(t) PROVE TypeOK'
  <2>1. req[t] \in Reqs
    BY <1>4, Zenon DEF EnqueueNow, LocalInv
  <2>2. /\ loading' \in Seq(Reqs) /\ loadsize' \in Nat
        /\ outs' \in Seq(Batches) /\ nsending' \in Nat
        /\ oput' \in [Threads -> Batches] /\ batched' \in Seq(Reqs)
    BY <1>4, <2>1, AppendReqType, Zenon DEF EnqueueNow
  <2>3. arrivals' \in Seq(Reqs)
    BY <1>4, <2>1 DEF EnqueueNow, TypeOK
  <2>4. pc' \in [Threads -> Locations]
    BY <1>4, LocationsOK, Zenon DEF EnqueueNow, TypeOK, Locations
  <2> QED
    BY <1>4, <2>2, <2>3, <2>4, Zenon DEF EnqueueNow, TypeOK
<1>5. ASSUME NEW t \in Senders, EnqueueWait(t) PROVE TypeOK'
  <2>1. req[t] \in Reqs
    BY <1>5, Zenon DEF EnqueueWait, LocalInv
  <2>2. arrivals' \in Seq(Reqs) /\ oqwaitq' \in Seq(Reqs)
    BY <1>5, <2>1 DEF EnqueueWait, ParentRefs, TypeOK
  <2>3. pc' \in [Threads -> Locations]
    BY <1>5, Zenon DEF EnqueueWait, TypeOK, Locations
  <2> QED
    BY <1>5, <2>2, <2>3, SMTT(40) DEF EnqueueWait, ParentRefs, TypeOK
<1>6. ASSUME NEW t \in Senders, Park(t) PROVE TypeOK'
  <2>1. nrefs' \in [Reqs -> Int]
    <3>1. nrefs' = [nrefs EXCEPT ![req[t]] = @ - 1]
      BY <1>6, Zenon DEF Park
    <3>2. nrefs \in [Reqs -> Int] /\ req[t] \in Reqs
      BY <1>6, Zenon DEF Park, TypeOK, LocalInv
    <3> QED
      BY <3>1, <3>2
  <2>2. need_wakeup' \in [Reqs -> BOOLEAN] /\ pc' \in [Threads -> Locations]
    BY <1>6, Zenon DEF Park, TypeOK, Locations
  <2> QED
    BY <1>6, <2>1, <2>2, Zenon DEF Park, TypeOK
<1>7. ASSUME NEW t \in Senders, Wakeup(t) PROVE TypeOK'
  BY <1>7, Zenon DEF Wakeup, TypeOK, Locations
<1>8. ASSUME NEW t \in Senders, Reply(t) PROVE TypeOK'
  <2>1. nrefs' \in [Reqs -> Int]
    BY <1>8 DEF Reply, TypeOK
  <2>2. responded' \subseteq Reqs
    BY <1>8 DEF Reply, TypeOK, LocalInv
  <2>3. pc' \in [Threads -> Locations]
    BY <1>8, Zenon DEF Reply, TypeOK, Locations
  <2> QED
    BY <1>8, <2>1, <2>2, <2>3, Zenon DEF Reply, TypeOK
<1>9. ASSUME NEW t \in Threads, CreateHandle(t) PROVE TypeOK'
  BY <1>9 DEF CreateHandle, TypeOK, Locations
<1>10. ASSUME NEW t \in Threads, CreateFail(t) PROVE TypeOK'
  <2>1. Range(oput[t]) \subseteq Reqs
    BY RangeType, Zenon DEF TypeOK
  <2> QED
    BY <1>10, <2>1, SMTT(40) DEF CreateFail, TypeOK, Locations
<1>11. ASSUME NEW t \in Threads, Launch(t) PROVE TypeOK'
  <2>1. pc' \in [Threads -> Locations]
    BY <1>11, LocationsOK, Zenon DEF Launch, TypeOK, Locations
  <2> QED
    BY <1>11, <2>1 DEF Launch, TypeOK
<1>12. ASSUME NEW t \in Threads, LaunchFail(t) PROVE TypeOK'
  <2>1. Range(oput[t]) \subseteq Reqs
    BY RangeType DEF TypeOK
  <2> QED
    BY <1>12, <2>1 DEF LaunchFail, TypeOK, Locations
<1>13. ASSUME NEW b \in inflight, CompletionOK(b) \/ CompletionErr(b)
       PROVE  TypeOK'
  <2>1. b \in Batches /\ Range(b) \subseteq Reqs
    BY RangeType, Zenon DEF TypeOK
  <2>2. acked' \subseteq Reqs /\ lost' \subseteq Reqs /\ nfail' \in Nat
    BY <1>13, <2>1, SMTT(40) DEF CompletionOK, CompletionErr, TypeOK
  <2>3. Completion(b)
    BY <1>13, Zenon DEF CompletionOK, CompletionErr
  <2>4. oput' \in [Threads -> Batches] /\ pc' \in [Threads -> Locations]
    BY <2>3, Zenon DEF Completion, TypeOK, Locations
  <2> QED
    BY <2>2, <2>3, <2>4 DEF Completion, TypeOK
<1>14. ASSUME NEW t \in Threads, StartNext(t) PROVE TypeOK'
  <2>1. oput[t] \in Range(outs) /\ outs \in Seq(Batches)
    BY <1>14, Zenon DEF StartNext, OutputOwned, Holds, TypeOK
  <2>2. Pos(oput[t]) \in 1 .. Len(outs)
    BY <2>1, PosOK, Zenon
  <2>3. outs' \in Seq(Batches)
    BY <1>14, <2>1, <2>2, WithoutProperties, Zenon DEF StartNext
  <2>4. PrevOutput(oput[t]) \in Batches
    <3>1. Pos(oput[t]) # 1 => Pos(oput[t]) - 1 \in 1 .. Len(outs)
      BY <2>2
    <3> QED
      BY <2>1, <3>1 DEF PrevOutput, Batches
  <2>5. oqflush_output' \in Batches /\ oqflushing' \in BOOLEAN
    BY <1>14, <2>4, Zenon DEF StartNext, TypeOK
  <2>6. frames' \in [Threads -> Seq(BOOLEAN)]
    <3> DEFINE d == OnFlushOutput(t) /\ Pos(oput[t]) = 1
    <3>1. frames' = [frames EXCEPT ![t] = <<d>> \o @]
      BY <1>14, Zenon DEF StartNext
    <3>2. frames[t] \in Seq(BOOLEAN) /\ frames \in [Threads -> Seq(BOOLEAN)]
      BY Zenon DEF TypeOK
    <3>3. <<d>> \in Seq(BOOLEAN)
      OBVIOUS
    <3> HIDE DEF d
    <3>4. <<d>> \o frames[t] \in Seq(BOOLEAN)
      BY <3>2, <3>3
    <3> QED
      BY <3>1, <3>2, <3>4, Zenon
  <2>7. oqlock' \in Threads \cup {NoThread} /\ nsending' \in Nat
    BY <1>14 DEF StartNext, SendingLess, TypeOK
  <2>8. flushloadingnow' \in [Threads -> BOOLEAN]
        /\ pc' \in [Threads -> Locations]
    BY <1>14, Zenon DEF StartNext, TypeOK, Locations
  <2> QED
    BY <1>14, <2>3, <2>5, <2>6, <2>7, <2>8, Zenon DEF StartNext, TypeOK
<1>15. ASSUME NEW t \in Threads, PullOne(t) PROVE TypeOK'
  <2> DEFINE r == Head(oqwaitq)
  <2>1. r \in Reqs /\ oqwaitq' \in Seq(Reqs)
    BY <1>15, HeadTailFacts, Zenon DEF PullOne, Counted, TypeOK
  <2>2. AppendReq(t, r)
    BY <1>15, Zenon DEF PullOne
  <2>3. /\ nrefs' = [nrefs EXCEPT ![r] = @ - 1]
        /\ fq' = [fq EXCEPT ![t] = IF LastRef(r) THEN Append(@, r) ELSE @]
    BY <1>15, Zenon DEF PullOne
  <2>4. oqflush_waitcounter' \in Nat
    BY <1>15 DEF PullOne, Counted, TypeOK
  <2>5. flushloadingnow' \in [Threads -> BOOLEAN]
    BY <1>15, Zenon DEF PullOne, Counted, TypeOK
  <2>6. oqlock' \in Threads \cup {NoThread} /\ pc' \in [Threads -> Locations]
    BY <1>15, Zenon DEF PullOne, TypeOK, Locations, AfterPull
  <2> HIDE DEF r
  <2>7. /\ loading' \in Seq(Reqs) /\ loadsize' \in Nat
        /\ outs' \in Seq(Batches) /\ nsending' \in Nat
        /\ oput' \in [Threads -> Batches] /\ batched' \in Seq(Reqs)
    BY <2>1, <2>2, AppendReqType, Zenon
  <2>8. nrefs' \in [Reqs -> Int]
    <3>1. nrefs \in [Reqs -> Int]
      BY Zenon DEF TypeOK
    <3> QED
      BY <2>1, <2>3, <3>1
  <2>9. fq' \in [Threads -> Seq(Reqs)]
    <3>1. fq \in [Threads -> Seq(Reqs)] /\ fq[t] \in Seq(Reqs)
      BY Zenon DEF TypeOK
    <3>2. Append(fq[t], r) \in Seq(Reqs)
      BY <2>1, <3>1
    <3> QED
      BY <2>3, <3>1, <3>2, Zenon
  <2> QED
    BY <1>15, <2>1, <2>4, <2>6, <2>7, <2>8, <2>9, ZenonT(40) DEF PullOne,
       Counted, TypeOK
<1>16. ASSUME NEW t \in Threads, PullEnd(t) PROVE TypeOK'
  <2>1. /\ loading' \in Seq(Reqs) /\ loadsize' \in Nat
        /\ outs' \in Seq(Batches) /\ nsending' \in Nat
        /\ oput' \in [Threads -> Batches] /\ batched' \in Seq(Reqs)
    <3>1. CASE FlushLoading(t)
      BY <3>1, FlushLoadingType, Zenon
    <3>2. CASE /\ oput' = [oput EXCEPT ![t] = <<>>]
               /\ UNCHANGED <<loading, loadsize, outs, nsending, batched>>
      BY <3>2, Zenon DEF TypeOK, Batches
    <3> QED
      BY <1>16, <3>1, <3>2, Zenon DEF PullEnd
  <2>2. oqlock' \in Threads \cup {NoThread} /\ pc' \in [Threads -> Locations]
    BY <1>16, Zenon DEF PullEnd, TypeOK, Locations, AfterPull
  <2> QED
    BY <1>16, <2>1, <2>2, Zenon DEF PullEnd, TypeOK
<1>17. ASSUME NEW t \in Threads, StopWait(t) PROVE TypeOK'
  <2>1. fq[t] \in Seq(Reqs) /\ fq[t] # <<>>
    BY <1>17, Zenon DEF StopWait, LocalInv, TypeOK
  <2>2. Head(fq[t]) \in Reqs /\ Tail(fq[t]) \in Seq(Reqs)
    BY <2>1
  <2>3. responded' \subseteq Reqs /\ need_wakeup' \in [Reqs -> BOOLEAN]
    BY <1>17, <2>2, Zenon DEF StopWait, TypeOK
  <2>4. fq' \in [Threads -> Seq(Reqs)]
    BY <1>17, <2>2, Zenon DEF StopWait, TypeOK
  <2>5. pc' \in [Threads -> Locations]
    BY <1>17, Zenon DEF StopWait, TypeOK, Locations, AfterPull
  <2> QED
    BY <1>17, <2>3, <2>4, <2>5, Zenon DEF StopWait, TypeOK
<1>18. ASSUME NEW t \in Threads, Track(t) PROVE TypeOK'
  <2>1. LastOutput \in Batches
    BY LastOutputType, Zenon
  <2>2. frames' \in [Threads -> Seq(BOOLEAN)]
    <3> DEFINE d == Head(frames[t]) \/ outs = <<>>
    <3>1. frames' = [frames EXCEPT ![t] = <<d>> \o Tail(frames[t])]
      BY <1>18, Zenon DEF Track, TypeOK
    <3>2. /\ frames[t] \in Seq(BOOLEAN) /\ frames[t] # <<>>
          /\ frames \in [Threads -> Seq(BOOLEAN)]
      BY <1>18, Zenon DEF Track, TypeOK, LocalInv, InNext
    <3>3. d \in BOOLEAN
      BY Zenon
    <3> HIDE DEF d
    <3>4. <<d>> \in Seq(BOOLEAN)
      BY <3>3
    <3>5. <<d>> \o Tail(frames[t]) \in Seq(BOOLEAN)
      BY <3>2, <3>4
    <3> QED
      BY <3>1, <3>2, <3>5, Zenon
  <2> QED
    BY <1>18, <2>1, <2>2, Zenon DEF Track, TypeOK, Locations
<1>19. ASSUME NEW t \in Threads, DoneOqFlush(t) PROVE TypeOK'
  <2>1. frames' \in [Threads -> Seq(BOOLEAN)]
    <3>1. /\ frames' = [frames EXCEPT ![t] = <<FALSE>> \o Tail(frames[t])]
          /\ pc[t] = "done"
      BY <1>19, Zenon DEF DoneOqFlush, TypeOK
    <3>2. /\ frames[t] \in Seq(BOOLEAN) /\ frames[t] # <<>>
          /\ frames \in [Threads -> Seq(BOOLEAN)]
      BY <3>1, Zenon DEF TypeOK, LocalInv, InNext
    <3>3. <<FALSE>> \in Seq(BOOLEAN) /\ Tail(frames[t]) \in Seq(BOOLEAN)
      BY <3>2
    <3>4. <<FALSE>> \o Tail(frames[t]) \in Seq(BOOLEAN)
      BY <3>3
    <3> QED
      BY <3>1, <3>2
  <2>2. oqflush_counter' \in {oqflush_counter - 1, oqflush_counter}
    BY <1>19, Zenon DEF DoneOqFlush
  <2>3. osetflushing' \in BOOLEAN
    <3>1. CASE osetflushing' = (osetflushing /\ oqflush_counter' > 0)
      BY <3>1, Zenon
    <3>2. CASE UNCHANGED osetflushing
      BY <3>2, Zenon DEF TypeOK
    <3> QED
      BY <1>19, <3>2, Zenon DEF DoneOqFlush
  <2>4. oqflush_counter' \in Int
    BY <2>2 DEF TypeOK
  <2>5. pc' \in [Threads -> Locations]
    BY <1>19, Zenon DEF DoneOqFlush, TypeOK, Locations
  <2> QED
    BY <1>19, <2>1, <2>4, <2>5, Zenon DEF DoneOqFlush, TypeOK
<1>20. ASSUME NEW t \in Threads, Progress(t) PROVE TypeOK'
  <2>1. shufsendq' \in Seq(Clients)
    <3>1. shufsendq \in Seq(Clients) /\ CanDo \in Nat
      BY ConfigFacts DEF TypeOK, CanDo
    <3>2. /\ Len(shufsendq) \in Nat
          /\ \A i \in 1 .. Len(shufsendq) : shufsendq[i] \in Clients
      BY <3>1
    <3>3. SubSeq(shufsendq, CanDo + 1, Len(shufsendq)) \in Seq(Clients)
      BY <3>1
    <3> QED
      BY <1>20, <3>3, Zenon DEF Progress
  <2>2. frames[t] \in Seq(BOOLEAN) /\ frames[t] # <<>>
    BY <1>20, Zenon DEF Progress, TypeOK, LocalInv, InNext
  <2>3. Tail(frames[t]) \in Seq(BOOLEAN)
    BY <2>2, HeadTailFacts, Zenon
  <2>4. frames' \in [Threads -> Seq(BOOLEAN)]
    BY <1>20, <2>3, Zenon DEF Progress, TypeOK
  <2>5. pc' \in [Threads -> Locations]
    BY <1>20, LocationsOK, Zenon DEF Progress, TypeOK, Locations
  <2> QED
    BY <1>20, <2>1, <2>4, <2>5, Zenon DEF Progress, TypeOK
<1>21. ASSUME AquireFlush PROVE TypeOK'
  BY <1>21 DEF AquireFlush, TypeOK, Locations
<1>22. Queued \subseteq Reqs
  <2>1. /\ Range(loading) \subseteq Reqs /\ Range(oqwaitq) \subseteq Reqs
        /\ outs \in Seq(Batches)
    BY LenFacts DEF TypeOK, Range
  <2>2. \A i \in DOMAIN outs : outs[i] \in Batches
    BY <2>1
  <2>3. \A i \in DOMAIN outs : Range(outs[i]) \subseteq Reqs
    BY <2>2, RangeType, Zenon
  <2> QED
    BY <2>1, <2>3, Zenon DEF Queued
<1>23. LastOutput \in Batches
  BY LastOutputType, Zenon
<1>24. ASSUME StartWaitq PROVE TypeOK'
  <2>1. Len(oqwaitq) \in Nat /\ <<>> \in Batches
    BY DEF TypeOK, Batches
  <2> QED
    BY <1>22, <1>24, <2>1 DEF StartWaitq, StartWaiting, TypeOK, Locations
<1>25. ASSUME StartLoading PROVE TypeOK'
  <2>1. /\ loading' \in Seq(Reqs) /\ loadsize' \in Nat
        /\ outs' \in Seq(Batches) /\ nsending' \in Nat
        /\ oput' \in [Threads -> Batches] /\ batched' \in Seq(Reqs)
    BY <1>25, FlushLoadingType, Zenon DEF StartLoading
  <2> QED
    BY <1>22, <1>25, <2>1, Zenon DEF StartLoading, TypeOK, Locations
<1>26. ASSUME StartOuts PROVE TypeOK'
  <2>1. /\ oqflushing' \in BOOLEAN /\ oqflush_waitcounter' \in Nat
        /\ oqflush_output' \in Batches /\ oqflush_counter' \in Int
    <3>1. CASE outs # <<>> /\ StartWaiting(0, LastOutput)
      BY <1>23, <3>1 DEF StartWaiting, TypeOK
    <3>2. CASE UNCHANGED <<flushVars, oqflush_counter>>
      BY <3>2, Zenon DEF TypeOK
    <3> QED
      BY <1>26, <3>1, <3>2, Zenon DEF StartOuts
  <2>2. fset' \subseteq Reqs
    BY <1>22, <1>26, Zenon DEF StartOuts, TypeOK
  <2> QED
    BY <1>26, <2>1, <2>2, Zenon DEF StartOuts, TypeOK, Locations
<1>27. ASSUME DropRef PROVE TypeOK'
  BY <1>27 DEF DropRef, TypeOK, Locations
<1>28. ASSUME FlushReturn PROVE TypeOK'
  BY <1>28, Zenon DEF FlushReturn, TypeOK, Locations
<1>29. ASSUME Quiescent PROVE TypeOK'
  BY <1>29, Zenon DEF Quiescent, vars, threadVars, TypeOK
<1> QED
  BY <1>1, <1>2, <1>3, <1>4, <1>5, <1>6, <1>7, <1>8, <1>9, <1>10, <1>11,
     <1>12, <1>13, <1>14, <1>15, <1>16, <1>17, <1>18, <1>19, <1>20, <1>21,
     <1>24, <1>25, <1>26, <1>27, <1>28, <1>29, SMTT(40)
  DEF Next, SenderStep, ForwardStep, ForwardFail, FlushStep

-----------------------------------------------------------------------------
\* A request is in one place.

\* The elements after appending one.
LEMMA RangeAppend ==
  ASSUME NEW S, NEW s \in Seq(S), NEW e \in S
  PROVE  /\ Range(Append(s, e)) = Range(s) \cup {e}
         /\ Range(<<>>) = {}
<1>1. /\ Append(s, e) \in Seq(S)
      /\ Len(s) \in Nat
      /\ Len(Append(s, e)) = Len(s) + 1
      /\ \A i \in 1 .. Len(s) : Append(s, e)[i] = s[i]
      /\ Append(s, e)[Len(s) + 1] = e
  OBVIOUS
<1>2. DOMAIN s = 1 .. Len(s) /\ DOMAIN Append(s, e) = 1 .. Len(s) + 1
  OBVIOUS
<1> QED
  BY <1>1 DEF Range

\* The elements of a concatenation.
LEMMA RangeConcat ==
  ASSUME NEW S, NEW s \in Seq(S), NEW u \in Seq(S)
  PROVE  Range(s \o u) = Range(s) \cup Range(u)
<1>1. /\ Len(s) \in Nat /\ DOMAIN s = 1 .. Len(s) /\ Len(u) \in Nat
      /\ DOMAIN u = 1 .. Len(u) /\ DOMAIN (s \o u) = 1 .. Len(s) + Len(u)
  BY LenFacts, ConcatFacts
<1>2. ASSUME NEW i \in DOMAIN (s \o u) PROVE (s \o u)[i] \in Range(s) \cup Range(u)
  <2>1. (s \o u)[i] = IF i <= Len(s) THEN s[i] ELSE u[i - Len(s)]
    BY <1>1, ConcatFacts
  <2>2. i \in DOMAIN s \/ (~(i <= Len(s)) /\ i - Len(s) \in DOMAIN u)
    BY <1>1
  <2> QED
    BY <1>1, <2>1, <2>2 DEF Range
<1>3. ASSUME NEW i \in DOMAIN s PROVE s[i] \in Range(s \o u)
  <2>1. i \in DOMAIN (s \o u) /\ (s \o u)[i] = s[i]
    BY <1>1, ConcatFacts
  <2> QED
    BY <2>1, Zenon DEF Range
<1>4. ASSUME NEW i \in DOMAIN u PROVE u[i] \in Range(s \o u)
  <2>1. /\ Len(s) + i \in 1 .. Len(s) + Len(u) /\ ~(Len(s) + i <= Len(s))
        /\ Len(s) + i - Len(s) = i
    BY <1>1
  <2>2. (s \o u)[Len(s) + i] = u[i]
    BY <2>1, ConcatFacts
  <2> QED
    BY <1>1, <2>1, <2>2, Zenon DEF Range
<1> QED
  BY <1>2, <1>3, <1>4, Zenon DEF Range

\* The elements of a queue and of what is behind its front.
LEMMA RangeHeadTail ==
  ASSUME NEW S, NEW w \in Seq(S), w # <<>>
  PROVE  /\ Head(w) \in S /\ Tail(w) \in Seq(S)
         /\ Range(w) = {Head(w)} \cup Range(Tail(w))
         /\ Len(w) \in Nat /\ DOMAIN w = 1 .. Len(w)
         /\ DOMAIN Tail(w) = 1 .. (Len(w) - 1)
         /\ \A i \in DOMAIN Tail(w) : Tail(w)[i] = w[i + 1]
         /\ Len(w) > 0 /\ Head(w) = w[1]
<1>1. /\ Head(w) \in S /\ Tail(w) \in Seq(S)
      /\ Len(w) \in Nat /\ DOMAIN w = 1 .. Len(w) /\ Len(w) > 0
      /\ DOMAIN Tail(w) = 1 .. (Len(w) - 1)
      /\ \A i \in 1 .. (Len(w) - 1) : Tail(w)[i] = w[i + 1]
      /\ Head(w) = w[1]
  OBVIOUS
<1>2. \A i \in 1 .. Len(w) : i = 1 \/ (i - 1 \in 1 .. (Len(w) - 1)
                                       /\ w[i] = Tail(w)[i - 1])
  OBVIOUS
<1>3. \A i \in 1 .. (Len(w) - 1) : i + 1 \in 1 .. Len(w)
  OBVIOUS
<1>4. Range(w) \subseteq {Head(w)} \cup Range(Tail(w))
  <2>1. SUFFICES ASSUME NEW i \in 1 .. Len(w)
                 PROVE  w[i] \in {Head(w)} \cup Range(Tail(w))
    BY DEF Range
  <2>2. CASE i = 1
    BY <2>2
  <2>3. CASE i - 1 \in 1 .. (Len(w) - 1) /\ w[i] = Tail(w)[i - 1]
    BY <1>1, <2>3, Zenon DEF Range
  <2> QED
    BY <2>3
<1>5. {Head(w)} \cup Range(Tail(w)) \subseteq Range(w)
  BY DEF Range
<1> QED
  BY <1>4, <1>5

\* append_req_to_locked_outqueue puts the request in one new place.
LEMMA AppendReqPlaces ==
  ASSUME TypeOK, NEW t \in Threads, NEW r \in Reqs, AppendReq(t, r),
         r \notin Range(batched) \cup Range(loading),
         Range(batched) \cap Range(loading) = {}
  PROVE  /\ Range(batched') \cup Range(loading')
              = Range(batched) \cup Range(loading) \cup {r}
         /\ Range(batched') \cap Range(loading') = {}
<1>1. loading \in Seq(Reqs) /\ batched \in Seq(Reqs)
  BY Zenon DEF TypeOK
<1>2. /\ Append(loading, r) \in Seq(Reqs)
      /\ Range(Append(loading, r)) = Range(loading) \cup {r}
      /\ Range(<<>>) = {}
  BY <1>1, RangeAppend
<1>3. CASE QueueReq(t, r)
  BY <1>2, <1>3, Zenon DEF QueueReq
<1>4. CASE SendBatch(t, Append(loading, r))
  <2>1. Range(batched') = Range(batched) \cup Range(Append(loading, r))
    BY <1>1, <1>2, <1>4, RangeConcat, ZenonT(40) DEF SendBatch
  <2>2. loading' = <<>>
    BY <1>4, Zenon DEF SendBatch
  <2> QED
    BY <1>2, <2>1, <2>2, Zenon
<1> QED
  BY <1>3, <1>4, ZenonT(40) DEF AppendReq

\* Pushing out the batch only moves its requests.
LEMMA FlushLoadingPlaces ==
  ASSUME TypeOK, NEW t \in Threads, FlushLoading(t),
         Range(batched) \cap Range(loading) = {}
  PROVE  /\ Range(batched') \cup Range(loading')
              = Range(batched) \cup Range(loading)
         /\ Range(batched') \cap Range(loading') = {}
<1>1. loading \in Seq(Reqs) /\ batched \in Seq(Reqs)
  BY Zenon DEF TypeOK
<1>2. Range(<<>>) = {}
  BY DEF Range
<1>3. CASE SendBatch(t, loading)
  <2>1. Range(batched') = Range(batched) \cup Range(loading)
    BY <1>1, <1>3, RangeConcat DEF SendBatch
  <2>2. loading' = <<>>
    BY <1>3, Zenon DEF SendBatch
  <2> QED
    BY <1>2, <2>1, <2>2, Zenon
<1> QED
  BY <1>3, Zenon DEF FlushLoading

\* Every step keeps each request in one place.
LEMMA FreshStep == IndInv /\ Next => FreshInv'
<1> SUFFICES ASSUME IndInv, Next PROVE FreshInv'
  OBVIOUS
<1>0. TypeOK /\ LocalInv /\ FreshInv
  BY Zenon DEF IndInv
<1> USE <1>0, ThreadFacts DEF queueVars, flushVars, osetVars,
        flusherVars, parentVars, hgVars, histVars, Goto
<1>1. ASSUME NEW t \in Senders, NEW r \in Reqs, Send(t, r) PROVE FreshInv'
  <2>0. pc \in [Threads -> Locations] /\ req \in [Senders -> Reqs \cup {NoReq}]
    BY Zenon DEF TypeOK
  <2>1. /\ UNCHANGED <<batched, loading, oqwaitq>>
        /\ r \in todo /\ todo' = todo \ {r}
        /\ ~Pending(t) /\ req'[t] = r
        /\ \A u \in Senders \ {t} : req'[u] = req[u] /\ pc'[u] = pc[u]
    BY <1>1, <2>0, Zenon DEF Send, Pending
  <2>2. Placed' = Placed
    BY <2>1, Zenon DEF Placed
  <2>3. r \notin Placed
    BY <2>1, Zenon DEF FreshInv
  <2>4. \A u \in Senders \ {t} :
          /\ Pending(u)' => Pending(u)
          /\ Pending(u) => req[u] \notin todo \cup Placed
    BY <2>1, Zenon DEF FreshInv, Pending
  <2>5. \A u \in Senders : Pending(u)' => req'[u] \notin todo' \cup Placed'
    BY <2>1, <2>2, <2>3, <2>4, Zenon
  <2>6. \A u, v \in Senders :
          Pending(u)' /\ Pending(v)' /\ req'[u] = req'[v] => u = v
    <3>1. \A u \in Senders \ {t} : Pending(u)' => req'[u] # r
      BY <2>1, <2>4, Zenon
    <3>2. \A u, v \in Senders \ {t} :
            Pending(u)' /\ Pending(v)' /\ req'[u] = req'[v] => u = v
      BY <2>1, <2>4, Zenon DEF FreshInv
    <3> QED
      BY <2>1, <3>1, <3>2, Zenon
  <2> QED
    BY <2>1, <2>2, <2>5, <2>6, Zenon DEF FreshInv
<1>2. ASSUME NEW t \in Senders, NEW r \in Reqs, Relay(t, r) PROVE FreshInv'
  <2>0. pc \in [Threads -> Locations] /\ req \in [Senders -> Reqs \cup {NoReq}]
    BY DEF TypeOK
  <2>1. /\ UNCHANGED <<batched, loading, oqwaitq>>
        /\ r \in todo /\ todo' = todo \ {r}
        /\ ~Pending(t) /\ req'[t] = r
        /\ \A u \in Senders \ {t} : req'[u] = req[u] /\ pc'[u] = pc[u]
    BY <1>2, <2>0 DEF Relay, Pending
  <2>2. Placed' = Placed
    BY <2>1 DEF Placed
  <2>3. r \notin Placed
    BY <2>1 DEF FreshInv
  <2>4. \A u \in Senders \ {t} :
          /\ Pending(u)' => Pending(u)
          /\ Pending(u) => req[u] \notin todo \cup Placed
    BY <2>1 DEF FreshInv, Pending
  <2>5. \A u \in Senders : Pending(u)' => req'[u] \notin todo' \cup Placed'
    BY <2>1, <2>2, <2>3, <2>4
  <2>6. \A u, v \in Senders :
          Pending(u)' /\ Pending(v)' /\ req'[u] = req'[v] => u = v
    <3>1. \A u \in Senders \ {t} : Pending(u)' => req'[u] # r
      BY <2>1, <2>4
    <3>2. \A u, v \in Senders \ {t} :
            Pending(u)' /\ Pending(v)' /\ req'[u] = req'[v] => u = v
      BY <2>1, <2>4 DEF FreshInv
    <3> QED
      BY <2>1, <3>1, <3>2
  <2> QED
    BY <2>1, <2>2, <2>5, <2>6 DEF FreshInv
<1>3. ASSUME NEW t \in Senders, PassLimit(t) PROVE FreshInv'
  <2>1. UNCHANGED <<batched, loading, oqwaitq, todo, req>>
    BY <1>3, Zenon DEF PassLimit
  <2>0. pc \in [Threads -> Locations]
    BY Zenon DEF TypeOK
  <2>2. \A u \in Senders : Pending(u)' => Pending(u)
    BY <1>3 DEF PassLimit, Pending, Return, Continue, AfterPull
  <2> QED
    BY <2>1, <2>2, Zenon DEF FreshInv, Placed
<1>4. ASSUME NEW t \in Senders, EnqueueNow(t) PROVE FreshInv'
  <2>0. pc \in [Threads -> Locations]
    BY DEF TypeOK
  <2>1. /\ req[t] \in Reqs /\ Pending(t) /\ AppendReq(t, req[t])
        /\ UNCHANGED <<oqwaitq, todo, req>>
    BY <1>4, Zenon DEF EnqueueNow, LocalInv, Pending
  <2>2. req[t] \notin todo \cup Placed
    BY <2>1, Zenon DEF FreshInv
  <2>3. /\ Range(batched') \cup Range(loading')
              = Range(batched) \cup Range(loading) \cup {req[t]}
        /\ Range(batched') \cap Range(loading') = {}
    BY <2>1, AppendReqPlaces, Zenon DEF FreshInv, Placed
  <2>4. Placed' = Placed \cup {req[t]}
    BY <2>1, <2>3, Zenon DEF Placed
  <2>5. \A u \in Senders : Pending(u)' => Pending(u) /\ u # t
    BY <1>4, <2>0, Zenon DEF EnqueueNow, Pending, Return
  <2>6. \A u \in Senders : Pending(u)' => req'[u] \notin todo' \cup Placed'
    BY <2>1, <2>4, <2>5, Zenon DEF FreshInv
  <2>7. \A u, v \in Senders :
          Pending(u)' /\ Pending(v)' /\ req'[u] = req'[v] => u = v
    BY <2>1, <2>5, Zenon DEF FreshInv
  <2>8. /\ Range(batched') \cap Range(oqwaitq') = {}
        /\ Range(loading') \cap Range(oqwaitq') = {}
        /\ todo' \cap Placed' = {}
    BY <2>1, <2>3 DEF FreshInv, Placed
  <2> QED
    BY <2>1, <2>3, <2>6, <2>7, <2>8, Zenon DEF FreshInv
<1>5. ASSUME NEW t \in Senders, EnqueueWait(t) PROVE FreshInv'
  <2>0. pc \in [Threads -> Locations]
    BY DEF TypeOK
  <2>1. /\ req[t] \in Reqs /\ Pending(t) /\ oqwaitq \in Seq(Reqs)
        /\ oqwaitq' = Append(oqwaitq, req[t])
        /\ UNCHANGED <<batched, loading, todo, req>>
    BY <1>5, Zenon DEF EnqueueWait, LocalInv, Pending, TypeOK
  <2>2. req[t] \notin todo \cup Placed
    BY <2>1, Zenon DEF FreshInv
  <2>3. Range(oqwaitq') = Range(oqwaitq) \cup {req[t]}
    BY <2>1, RangeAppend
  <2>4. Placed' = Placed \cup {req[t]}
    BY <2>1, <2>3, Zenon DEF Placed
  <2>5. \A u \in Senders : Pending(u)' => Pending(u) /\ u # t
    BY <1>5, <2>0, Zenon DEF EnqueueWait, Pending
  <2>6. \A u \in Senders : Pending(u)' => req'[u] \notin todo' \cup Placed'
    BY <2>1, <2>4, <2>5, Zenon DEF FreshInv
  <2>7. \A u, v \in Senders :
          Pending(u)' /\ Pending(v)' /\ req'[u] = req'[v] => u = v
    BY <2>1, <2>5, Zenon DEF FreshInv
  <2>8. /\ Range(batched') \cap Range(loading') = {}
        /\ Range(batched') \cap Range(oqwaitq') = {}
        /\ Range(loading') \cap Range(oqwaitq') = {}
        /\ todo' \cap Placed' = {}
    BY <2>1, <2>3 DEF FreshInv, Placed
  <2>9. \A i, j \in DOMAIN oqwaitq' : oqwaitq'[i] = oqwaitq'[j] => i = j
    <3>1. /\ Len(oqwaitq) \in Nat
          /\ DOMAIN oqwaitq = 1 .. Len(oqwaitq)
          /\ DOMAIN oqwaitq' = 1 .. (Len(oqwaitq) + 1)
          /\ \A i \in 1 .. Len(oqwaitq) : oqwaitq'[i] = oqwaitq[i]
          /\ oqwaitq'[Len(oqwaitq) + 1] = req[t]
      BY <2>1
    <3>2. \A i \in 1 .. Len(oqwaitq) : oqwaitq[i] # req[t]
      BY <2>2 DEF Placed, Range
    <3>3. \A i \in DOMAIN oqwaitq' :
            i \in 1 .. Len(oqwaitq) \/ i = Len(oqwaitq) + 1
      BY <3>1
    <3>4. \A i, j \in 1 .. Len(oqwaitq) : oqwaitq[i] = oqwaitq[j] => i = j
      BY DEF FreshInv
    <3> HIDE <1>0, <2>1
    <3> QED
      BY <3>1, <3>2, <3>4
  <2> QED
    BY <2>6, <2>7, <2>8, <2>9, Zenon DEF FreshInv
<1>6. ASSUME NEW t \in Senders, Park(t) PROVE FreshInv'
  <2>1. UNCHANGED <<batched, loading, oqwaitq, todo, req>>
    BY <1>6, Zenon DEF Park
  <2>0. pc \in [Threads -> Locations]
    BY DEF TypeOK
  <2>2. \A u \in Senders : Pending(u)' => Pending(u)
    BY <1>6, <2>0, Zenon DEF Park, Pending, Return, Continue, AfterPull
  <2> QED
    BY <2>1, <2>2 DEF FreshInv, Placed
<1>7. ASSUME NEW t \in Senders, Wakeup(t) PROVE FreshInv'
  <2>1. UNCHANGED <<batched, loading, oqwaitq, todo, req>>
    BY <1>7, Zenon DEF Wakeup
  <2>0. pc \in [Threads -> Locations]
    BY DEF TypeOK
  <2>2. \A u \in Senders : Pending(u)' => Pending(u)
    BY <1>7 DEF Wakeup, Pending, Return, Continue, AfterPull
  <2> QED
    BY <2>1, <2>2 DEF FreshInv, Placed
<1>8. ASSUME NEW t \in Senders, Reply(t) PROVE FreshInv'
  <2>1. UNCHANGED <<batched, loading, oqwaitq, todo, req>>
    BY <1>8, Zenon DEF Reply
  <2>0. pc \in [Threads -> Locations]
    BY DEF TypeOK
  <2>2. \A u \in Senders : Pending(u)' => Pending(u)
    BY <1>8 DEF Reply, Pending, Return, Continue, AfterPull
  <2> QED
    BY <2>1, <2>2 DEF FreshInv, Placed
<1>9. ASSUME NEW t \in Threads, CreateHandle(t) PROVE FreshInv'
  <2>1. UNCHANGED <<batched, loading, oqwaitq, todo, req>>
    BY <1>9, Zenon DEF CreateHandle
  <2>0. pc \in [Threads -> Locations]
    BY Zenon DEF TypeOK
  <2>2. \A u \in Senders : Pending(u)' => Pending(u)
    BY <1>9 DEF CreateHandle, Pending, Return, Continue, AfterPull
  <2> QED
    BY <2>1, <2>2, Zenon DEF FreshInv, Placed
<1>10. ASSUME NEW t \in Threads, CreateFail(t) PROVE FreshInv'
  <2>1. UNCHANGED <<batched, loading, oqwaitq, todo, req>>
    BY <1>10, Zenon DEF CreateFail
  <2>0. pc \in [Threads -> Locations]
    BY DEF TypeOK
  <2>2. \A u \in Senders : Pending(u)' => Pending(u)
    BY <1>10 DEF CreateFail, Pending, Return, Continue, AfterPull
  <2> QED
    BY <2>1, <2>2 DEF FreshInv, Placed
<1>11. ASSUME NEW t \in Threads, Launch(t) PROVE FreshInv'
  <2>1. UNCHANGED <<batched, loading, oqwaitq, todo, req>>
    BY <1>11, Zenon DEF Launch
  <2>0. pc \in [Threads -> Locations]
    BY DEF TypeOK
  <2>2. \A u \in Senders : Pending(u)' => Pending(u)
    BY <1>11 DEF Launch, Pending, Return, Continue, AfterPull
  <2> QED
    BY <2>1, <2>2 DEF FreshInv, Placed
<1>12. ASSUME NEW t \in Threads, LaunchFail(t) PROVE FreshInv'
  <2>1. UNCHANGED <<batched, loading, oqwaitq, todo, req>>
    BY <1>12, Zenon DEF LaunchFail
  <2>0. pc \in [Threads -> Locations]
    BY DEF TypeOK
  <2>2. \A u \in Senders : Pending(u)' => Pending(u)
    BY <1>12 DEF LaunchFail, Pending, Return, Continue, AfterPull
  <2> QED
    BY <2>1, <2>2 DEF FreshInv, Placed
<1>13. ASSUME NEW b \in inflight, Completion(b) PROVE FreshInv'
  <2>1. UNCHANGED <<batched, loading, oqwaitq, todo, req>>
    BY <1>13, Zenon DEF Completion
  <2>0. pc \in [Threads -> Locations]
    BY Zenon DEF TypeOK
  <2>2. \A u \in Senders : Pending(u)' => Pending(u)
    BY <1>13 DEF Completion, Pending, Return, Continue, AfterPull
  <2> QED
    BY <2>1, <2>2, Zenon DEF FreshInv, Placed
<1>14. ASSUME NEW t \in Threads, StartNext(t) PROVE FreshInv'
  <2>1. UNCHANGED <<batched, loading, oqwaitq, todo, req>>
    BY <1>14, Zenon DEF StartNext
  <2>0. pc \in [Threads -> Locations]
    BY DEF TypeOK
  <2>2. \A u \in Senders : Pending(u)' => Pending(u)
    BY <1>14 DEF StartNext, Pending, Return, Continue, AfterPull
  <2> QED
    BY <2>1, <2>2 DEF FreshInv, Placed
<1>15. ASSUME NEW t \in Threads, PullOne(t) PROVE FreshInv'
  <2>0. pc \in [Threads -> Locations]
    BY DEF TypeOK
  <2> DEFINE r == Head(oqwaitq)
  <2>1. /\ oqwaitq # <<>> /\ oqwaitq' = Tail(oqwaitq)
        /\ AppendReq(t, r) /\ oqwaitq \in Seq(Reqs)
        /\ UNCHANGED <<todo, req>>
    BY <1>15, Zenon DEF PullOne, TypeOK
  <2>2. /\ r \in Reqs
        /\ Range(oqwaitq) = {r} \cup Range(oqwaitq')
        /\ Len(oqwaitq) \in Nat /\ DOMAIN oqwaitq = 1 .. Len(oqwaitq)
        /\ DOMAIN oqwaitq' = 1 .. (Len(oqwaitq) - 1)
        /\ \A i \in DOMAIN oqwaitq' : oqwaitq'[i] = oqwaitq[i + 1]
        /\ Len(oqwaitq) > 0 /\ r = oqwaitq[1]
    BY <2>1, RangeHeadTail, Zenon
  <2>3. \A i, j \in DOMAIN oqwaitq : oqwaitq[i] = oqwaitq[j] => i = j
    BY Zenon DEF FreshInv
  <2>4. \A i \in DOMAIN oqwaitq' : i + 1 \in DOMAIN oqwaitq /\ i + 1 # 1
    BY <2>2
  <2>5. r \notin Range(oqwaitq')
    <3>1. 1 \in DOMAIN oqwaitq
      BY <2>2
    <3> HIDE <1>0 DEF r
    <3> QED
      BY <2>2, <2>3 DEF Range
  <2>6. \A i, j \in DOMAIN oqwaitq' : oqwaitq'[i] = oqwaitq'[j] => i = j
    <3> HIDE <1>0 DEF r
    <3>1. SUFFICES ASSUME NEW i \in DOMAIN oqwaitq',
                          NEW j \in DOMAIN oqwaitq',
                          oqwaitq'[i] = oqwaitq'[j]
                   PROVE  i = j
      BY Zenon
    <3>2. i + 1 = j + 1
      BY <2>2, <2>3, <3>1
    <3> QED
      BY <2>2, <3>2
  <2>7. r \notin Range(batched) \cup Range(loading)
    BY <2>2, Zenon DEF FreshInv
  <2>8. /\ Range(batched') \cup Range(loading')
              = Range(batched) \cup Range(loading) \cup {r}
        /\ Range(batched') \cap Range(loading') = {}
    BY <2>1, <2>7, AppendReqPlaces DEF FreshInv
  <2>9. Placed' = Placed
    BY <2>2, <2>8, Zenon DEF Placed
  <2>10. /\ Range(batched') \cap Range(oqwaitq') = {}
         /\ Range(loading') \cap Range(oqwaitq') = {}
    BY <2>2, <2>5, <2>8 DEF FreshInv
  <2>11. \A u \in Senders : Pending(u)' => Pending(u)
    BY <1>15, <2>0, Zenon DEF PullOne, Pending, AfterPull
  <2>12. \A u \in Senders : Pending(u)' => req'[u] \notin todo' \cup Placed'
    BY <2>1, <2>9, <2>11, Zenon DEF FreshInv
  <2>13. \A u, v \in Senders :
          Pending(u)' /\ Pending(v)' /\ req'[u] = req'[v] => u = v
    BY <2>1, <2>11, Zenon DEF FreshInv
  <2>14. todo' \cap Placed' = {}
    BY <2>1, <2>9, Zenon DEF FreshInv
  <2> QED
    BY <2>6, <2>8, <2>10, <2>12, <2>13, <2>14, Zenon DEF FreshInv
<1>16. ASSUME NEW t \in Threads, PullEnd(t) PROVE FreshInv'
  <2>1. UNCHANGED <<oqwaitq, todo, req>>
    BY <1>16, Zenon DEF PullEnd
  <2>2. /\ Range(batched') \cup Range(loading')
              = Range(batched) \cup Range(loading)
        /\ Range(batched') \cap Range(loading') = {}
    <3>1. CASE FlushLoading(t)
      BY <3>1, FlushLoadingPlaces, Zenon DEF FreshInv
    <3>2. CASE UNCHANGED <<loading, loadsize, outs, nsending, batched>>
      BY <3>2, Zenon DEF FreshInv
    <3> QED
      BY <1>16, <3>1, <3>2, Zenon DEF PullEnd
  <2>3. Placed' = Placed
    BY <2>1, <2>2, Zenon DEF Placed
  <2>4. \A u \in Senders : Pending(u)' => Pending(u)
    BY <1>16 DEF PullEnd, Pending, AfterPull
  <2>5. \A u \in Senders : Pending(u)' => req'[u] \notin todo' \cup Placed'
    BY <2>1, <2>3, <2>4, Zenon DEF FreshInv
  <2>6. \A u, v \in Senders :
          Pending(u)' /\ Pending(v)' /\ req'[u] = req'[v] => u = v
    BY <2>1, <2>4, Zenon DEF FreshInv
  <2>7. /\ Range(batched') \cap Range(oqwaitq') = {}
        /\ Range(loading') \cap Range(oqwaitq') = {}
        /\ todo' \cap Placed' = {}
    BY <2>1, <2>2, <2>3, Zenon DEF FreshInv
  <2> QED
    BY <2>1, <2>2, <2>5, <2>6, <2>7, Zenon DEF FreshInv
<1>17. ASSUME NEW t \in Threads, StopWait(t) PROVE FreshInv'
  <2>1. UNCHANGED <<batched, loading, oqwaitq, todo, req>>
    BY <1>17, Zenon DEF StopWait
  <2>0. pc \in [Threads -> Locations]
    BY DEF TypeOK
  <2>2. \A u \in Senders : Pending(u)' => Pending(u)
    BY <1>17 DEF StopWait, Pending, Return, Continue, AfterPull
  <2> QED
    BY <2>1, <2>2 DEF FreshInv, Placed
<1>18. ASSUME NEW t \in Threads, Track(t) PROVE FreshInv'
  <2>1. UNCHANGED <<batched, loading, oqwaitq, todo, req>>
    BY <1>18, Zenon DEF Track
  <2>0. pc \in [Threads -> Locations]
    BY DEF TypeOK
  <2>2. \A u \in Senders : Pending(u)' => Pending(u)
    BY <1>18, <2>0, Zenon DEF Track, Pending, Return, Continue, AfterPull
  <2> QED
    BY <2>1, <2>2 DEF FreshInv, Placed
<1>19. ASSUME NEW t \in Threads, DoneOqFlush(t) PROVE FreshInv'
  <2>1. UNCHANGED <<batched, loading, oqwaitq, todo, req>>
    BY <1>19, Zenon DEF DoneOqFlush
  <2>0. pc \in [Threads -> Locations]
    BY DEF TypeOK
  <2>2. \A u \in Senders : Pending(u)' => Pending(u)
    BY <1>19, <2>0, Zenon DEF DoneOqFlush, Pending, Return, Continue, AfterPull
  <2> QED
    BY <2>1, <2>2 DEF FreshInv, Placed
<1>20. ASSUME NEW t \in Threads, Progress(t) PROVE FreshInv'
  <2>1. UNCHANGED <<batched, loading, oqwaitq, todo, req>>
    BY <1>20, Zenon DEF Progress
  <2>0. pc \in [Threads -> Locations]
    BY DEF TypeOK
  <2>2. \A u \in Senders : Pending(u)' => Pending(u)
    BY <1>20 DEF Progress, Pending, Return, Continue, AfterPull
  <2> QED
    BY <2>1, <2>2 DEF FreshInv, Placed
<1>21. ASSUME AquireFlush PROVE FreshInv'
  <2>1. UNCHANGED <<batched, loading, oqwaitq, todo, req>>
    BY <1>21, Zenon DEF AquireFlush
  <2>0. pc \in [Threads -> Locations]
    BY Zenon DEF TypeOK
  <2>2. \A u \in Senders : Pending(u)' => Pending(u)
    BY <1>21 DEF AquireFlush, Pending, Return, Continue, AfterPull
  <2> QED
    BY <2>1, <2>2, Zenon DEF FreshInv, Placed
<1>22. ASSUME StartWaitq PROVE FreshInv'
  <2>1. UNCHANGED <<batched, loading, oqwaitq, todo, req>>
    BY <1>22, Zenon DEF StartWaitq
  <2>0. pc \in [Threads -> Locations]
    BY DEF TypeOK
  <2>2. \A u \in Senders : Pending(u)' => Pending(u)
    BY <1>22 DEF StartWaitq, Pending, Return, Continue, AfterPull
  <2> QED
    BY <2>1, <2>2 DEF FreshInv, Placed
<1>23. ASSUME StartLoading PROVE FreshInv'
  <2>1. UNCHANGED <<oqwaitq, todo, req>> /\ FlushLoading(Flusher)
    BY <1>23, Zenon DEF StartLoading
  <2>2. /\ Range(batched') \cup Range(loading')
              = Range(batched) \cup Range(loading)
        /\ Range(batched') \cap Range(loading') = {}
    BY <2>1, FlushLoadingPlaces, Zenon DEF FreshInv
  <2>3. Placed' = Placed
    BY <2>1, <2>2, Zenon DEF Placed
  <2>4. \A u \in Senders : Pending(u)' => Pending(u)
    BY <1>23 DEF StartLoading, Pending, AfterPull
  <2>5. \A u \in Senders : Pending(u)' => req'[u] \notin todo' \cup Placed'
    BY <2>1, <2>3, <2>4, Zenon DEF FreshInv
  <2>6. \A u, v \in Senders :
          Pending(u)' /\ Pending(v)' /\ req'[u] = req'[v] => u = v
    BY <2>1, <2>4, Zenon DEF FreshInv
  <2>7. /\ Range(batched') \cap Range(oqwaitq') = {}
        /\ Range(loading') \cap Range(oqwaitq') = {}
        /\ todo' \cap Placed' = {}
    BY <2>1, <2>2, <2>3, Zenon DEF FreshInv
  <2> QED
    BY <2>1, <2>2, <2>5, <2>6, <2>7, Zenon DEF FreshInv
<1>24. ASSUME StartOuts PROVE FreshInv'
  <2>1. UNCHANGED <<batched, loading, oqwaitq, todo, req>>
    BY <1>24, Zenon DEF StartOuts
  <2>0. pc \in [Threads -> Locations]
    BY DEF TypeOK
  <2>2. \A u \in Senders : Pending(u)' => Pending(u)
    BY <1>24 DEF StartOuts, Pending, Return, Continue, AfterPull
  <2> QED
    BY <2>1, <2>2 DEF FreshInv, Placed
<1>25. ASSUME DropRef PROVE FreshInv'
  <2>1. UNCHANGED <<batched, loading, oqwaitq, todo, req>>
    BY <1>25, Zenon DEF DropRef
  <2>0. pc \in [Threads -> Locations]
    BY DEF TypeOK
  <2>2. \A u \in Senders : Pending(u)' => Pending(u)
    BY <1>25 DEF DropRef, Pending, Return, Continue, AfterPull
  <2> QED
    BY <2>1, <2>2 DEF FreshInv, Placed
<1>26. ASSUME FlushReturn PROVE FreshInv'
  <2>1. UNCHANGED <<batched, loading, oqwaitq, todo, req>>
    BY <1>26, Zenon DEF FlushReturn
  <2>0. pc \in [Threads -> Locations]
    BY DEF TypeOK
  <2>2. \A u \in Senders : Pending(u)' => Pending(u)
    BY <1>26 DEF FlushReturn, Pending, Return, Continue, AfterPull
  <2> QED
    BY <2>1, <2>2 DEF FreshInv, Placed
<1>27. ASSUME Quiescent PROVE FreshInv'
  BY <1>27, Zenon DEF Quiescent, FreshInv, Placed, Pending, Return, Continue,
     vars, threadVars
<1> QED
  BY <1>1, <1>2, <1>3, <1>4, <1>5, <1>6, <1>7, <1>8, <1>9, <1>10, <1>11, <1>12,
     <1>13, <1>14, <1>15, <1>16, <1>17, <1>18, <1>19, <1>20, <1>21, <1>22, <1>23,
     <1>24, <1>25, <1>26, <1>27, SMTT(40)
  DEF Next, SenderStep, ForwardStep, ForwardFail, FlushStep,
      CompletionOK, CompletionErr

-----------------------------------------------------------------------------
\* Threads and the lock.

\* Every step keeps what a thread's location says of its variables.
LEMMA LocalStep == IndInv /\ Next => LocalInv'
<1> SUFFICES ASSUME IndInv, Next PROVE LocalInv'
  OBVIOUS
<1>0. /\ LocalInv /\ pc \in [Threads -> Locations]
      /\ req \in [Senders -> Reqs \cup {NoReq}]
      /\ fq \in [Threads -> Seq(Reqs)] /\ frames \in [Threads -> Seq(BOOLEAN)]
  BY Zenon DEF IndInv, TypeOK
<1> USE <1>0, ThreadFacts DEF queueVars, flushVars, osetVars,
        flusherVars, parentVars, hgVars, histVars, Goto
<1>1. ASSUME NEW t \in Senders, NEW r \in Reqs, Send(t, r) PROVE LocalInv'
  BY <1>1, Zenon DEF Send, LocalInv, InNext
<1>2. ASSUME NEW t \in Senders, NEW r \in Reqs, Relay(t, r) PROVE LocalInv'
  BY <1>2, Zenon DEF Relay, LocalInv, InNext
<1>3. ASSUME NEW t \in Senders, PassLimit(t) PROVE LocalInv'
  BY <1>3, Zenon DEF PassLimit, LocalInv, InNext
<1>4. ASSUME NEW t \in Senders, EnqueueNow(t) PROVE LocalInv'
  BY <1>4, Zenon DEF EnqueueNow, LocalInv, InNext, Return
<1>5. ASSUME NEW t \in Senders, EnqueueWait(t) PROVE LocalInv'
  BY <1>5, Zenon DEF EnqueueWait, LocalInv, InNext
<1>6. ASSUME NEW t \in Senders, Park(t) PROVE LocalInv'
  BY <1>6 DEF Park, LocalInv, InNext
<1>7. ASSUME NEW t \in Senders, Wakeup(t) PROVE LocalInv'
  BY <1>7, Zenon DEF Wakeup, LocalInv, InNext
<1>8. ASSUME NEW t \in Senders, Reply(t) PROVE LocalInv'
  BY <1>8, Zenon DEF Reply, LocalInv, InNext
<1>9. ASSUME NEW t \in Threads, CreateHandle(t) PROVE LocalInv'
  BY <1>9, Zenon DEF CreateHandle, LocalInv, InNext
<1>10. ASSUME NEW t \in Threads, CreateFail(t) PROVE LocalInv'
  BY <1>10, Zenon DEF CreateFail, LocalInv, InNext
<1>11. ASSUME NEW t \in Threads, Launch(t) PROVE LocalInv'
  BY <1>11, Zenon DEF Launch, LocalInv, InNext, Return, Continue
<1>12. ASSUME NEW t \in Threads, LaunchFail(t) PROVE LocalInv'
  BY <1>12, Zenon DEF LaunchFail, LocalInv, InNext
<1>13. ASSUME NEW b \in inflight, Completion(b) PROVE LocalInv'
  BY <1>13, Zenon DEF Completion, LocalInv, InNext
<1>14. ASSUME NEW t \in Threads, StartNext(t) PROVE LocalInv'
  BY <1>14 DEF StartNext, LocalInv, InNext
<1>15. ASSUME NEW t \in Threads, PullOne(t) PROVE LocalInv'
  BY <1>15, Zenon DEF PullOne, LocalInv, InNext, AfterPull
<1>16. ASSUME NEW t \in Threads, PullEnd(t) PROVE LocalInv'
  BY <1>16, Zenon DEF PullEnd, LocalInv, InNext, AfterPull
<1>17. ASSUME NEW t \in Threads, StopWait(t) PROVE LocalInv'
  BY <1>17, Zenon DEF StopWait, LocalInv, InNext, AfterPull
<1>18. ASSUME NEW t \in Threads, Track(t) PROVE LocalInv'
  BY <1>18, Zenon DEF Track, LocalInv, InNext
<1>19. ASSUME NEW t \in Threads, DoneOqFlush(t) PROVE LocalInv'
  <2>1. frames[t] \in Seq(BOOLEAN) /\ frames[t] # <<>>
    BY <1>19, Zenon DEF DoneOqFlush, LocalInv, InNext
  <2>2. <<FALSE>> \o Tail(frames[t]) # <<>>
    <3>0. <<FALSE>> \in Seq(BOOLEAN)
      OBVIOUS
    <3>1. Tail(frames[t]) \in Seq(BOOLEAN) /\ <<FALSE>> \in Seq(BOOLEAN)
      BY <2>1
    <3>2. Len(<<FALSE>> \o Tail(frames[t])) = 1 + Len(Tail(frames[t]))
      OBVIOUS
    <3>3. Len(Tail(frames[t])) \in Nat
      OBVIOUS
    <3> QED
      OBVIOUS
  <2>3. frames'[t] # <<>>
    BY <1>19, <2>2, Zenon DEF DoneOqFlush
  <2> QED
    BY <1>19, <2>3, Zenon DEF DoneOqFlush, LocalInv, InNext
<1>20. ASSUME NEW t \in Threads, Progress(t) PROVE LocalInv'
  BY <1>20, Zenon DEF Progress, LocalInv, InNext, Return, Continue
<1>21. ASSUME AquireFlush PROVE LocalInv'
  BY <1>21, Zenon DEF AquireFlush, LocalInv, InNext
<1>22. ASSUME StartWaitq PROVE LocalInv'
  BY <1>22, Zenon DEF StartWaitq, LocalInv, InNext
<1>23. ASSUME StartLoading PROVE LocalInv'
  BY <1>23, Zenon DEF StartLoading, LocalInv, InNext
<1>24. ASSUME StartOuts PROVE LocalInv'
  BY <1>24, Zenon DEF StartOuts, LocalInv, InNext
<1>25. ASSUME DropRef PROVE LocalInv'
  BY <1>25, Zenon DEF DropRef, LocalInv, InNext
<1>26. ASSUME FlushReturn PROVE LocalInv'
  BY <1>26, Zenon DEF FlushReturn, LocalInv, InNext
<1>27. ASSUME Quiescent PROVE LocalInv'
  BY <1>27, Zenon DEF Quiescent, LocalInv, InNext, vars, threadVars
<1> QED
  BY <1>1, <1>2, <1>3, <1>4, <1>5, <1>6, <1>7, <1>8, <1>9, <1>10, <1>11, <1>12,
     <1>13, <1>14, <1>15, <1>16, <1>17, <1>18, <1>19, <1>20, <1>21, <1>22,
     <1>23, <1>24, <1>25, <1>26, <1>27, Zenon DEF Next, SenderStep,
     ForwardStep, ForwardFail, FlushStep, CompletionOK, CompletionErr

\* Every step keeps oqlock with the thread in the loop of forw_start_next.
LEMMA LockStep == IndInv /\ Next => LockInv'
<1> SUFFICES ASSUME IndInv, Next PROVE LockInv'
  OBVIOUS
<1>0. /\ LockInv /\ RpcBound /\ OutputOwned
      /\ pc \in [Threads -> Locations] /\ nsending \in Nat
      /\ loading \in Seq(Reqs) /\ oqwaitq \in Seq(Reqs) /\ outs \in Seq(Batches)
      /\ oput \in [Threads -> Batches]
  BY Zenon DEF IndInv, TypeOK
<1> USE <1>0, ThreadFacts DEF queueVars, flushVars, osetVars,
        flusherVars, parentVars, hgVars, histVars, Goto
<1>1. ASSUME NEW t \in Senders, NEW r \in Reqs, Send(t, r) PROVE LockInv'
  BY <1>1, Zenon DEF Send, LockInv
<1>2. ASSUME NEW t \in Senders, NEW r \in Reqs, Relay(t, r) PROVE LockInv'
  BY <1>2, Zenon DEF Relay, LockInv
<1>3. ASSUME NEW t \in Senders, PassLimit(t) PROVE LockInv'
  BY <1>3, Zenon DEF PassLimit, LockInv
<1>4. ASSUME NEW t \in Senders, EnqueueNow(t) PROVE LockInv'
  BY <1>4, Zenon DEF EnqueueNow, LockInv, Return, NeedWait
<1>5. ASSUME NEW t \in Senders, EnqueueWait(t) PROVE LockInv'
  BY <1>5, Zenon DEF EnqueueWait, LockInv
<1>6. ASSUME NEW t \in Senders, Park(t) PROVE LockInv'
  BY <1>6, Zenon DEF Park, LockInv
<1>7. ASSUME NEW t \in Senders, Wakeup(t) PROVE LockInv'
  BY <1>7, Zenon DEF Wakeup, LockInv
<1>8. ASSUME NEW t \in Senders, Reply(t) PROVE LockInv'
  BY <1>8, Zenon DEF Reply, LockInv
<1>9. ASSUME NEW t \in Threads, CreateHandle(t) PROVE LockInv'
  BY <1>9, Zenon DEF CreateHandle, LockInv
<1>10. ASSUME NEW t \in Threads, CreateFail(t) PROVE LockInv'
  BY <1>10, Zenon DEF CreateFail, LockInv
<1>11. ASSUME NEW t \in Threads, Launch(t) PROVE LockInv'
  BY <1>11, Zenon DEF Launch, LockInv, Return, Continue
<1>12. ASSUME NEW t \in Threads, LaunchFail(t) PROVE LockInv'
  BY <1>12, Zenon DEF LaunchFail, LockInv
<1>13. ASSUME NEW b \in inflight, Completion(b) PROVE LockInv'
  BY <1>13, Zenon DEF Completion, LockInv
<1>14. ASSUME NEW t \in Threads, StartNext(t) PROVE LockInv'
  <2>1. oput[t] \in Range(outs) /\ outs \in Seq(Batches)
    BY <1>14, Zenon DEF StartNext, OutputOwned, Holds
  <2>2. Len(outs) > 0
    BY <2>1, PosOK
  <2>3. nsending' < maxoqrpc
    BY <1>14, ConfigFacts DEF StartNext, SendingLess, RpcBound
  <2>4. oqlock = NoThread /\ oqlock' = t /\ pc' = [pc EXCEPT ![t] = "pull"]
    BY <1>14, Zenon DEF StartNext
  <2> QED
    BY <2>3, <2>4, Zenon DEF LockInv
<1>15. ASSUME NEW t \in Threads, PullOne(t) PROVE LockInv'
  <2>1. oqlock = t /\ nsending < maxoqrpc /\ pc[t] = "pull"
    BY <1>15, Zenon DEF PullOne, LockInv
  <2>2. AppendReq(t, Head(oqwaitq))
    BY <1>15, Zenon DEF PullOne
  <2>3. CASE oput'[t] = <<>> /\ UNCHANGED <<oqlock, pc>>
    <3>1. UNCHANGED nsending
      <4>1. CASE SendBatch(t, Append(loading, Head(oqwaitq)))
        <5>1. Append(loading, Head(oqwaitq)) # <<>>
          <6>1. oqwaitq # <<>> /\ oqwaitq \in Seq(Reqs) /\ loading \in Seq(Reqs)
            BY <1>15, Zenon DEF PullOne
          <6> QED
            BY <6>1
        <5> QED
          BY <2>3, <4>1 DEF SendBatch
      <4> QED
        BY <2>2, <4>1, Zenon DEF AppendReq, QueueReq
    <3> QED
      BY <2>3, <3>1, Zenon DEF LockInv
  <2>4. CASE /\ oqlock' = NoThread
             /\ Goto(t, AfterPull(t, oput'[t], flushloadingnow'[t]))
    BY <2>1, <2>4, Zenon DEF LockInv, AfterPull
  <2> QED
    BY <1>15, <2>3, <2>4, Zenon DEF PullOne
<1>16. ASSUME NEW t \in Threads, PullEnd(t) PROVE LockInv'
  BY <1>16, Zenon DEF PullEnd, LockInv, AfterPull
<1>17. ASSUME NEW t \in Threads, StopWait(t) PROVE LockInv'
  BY <1>17, Zenon DEF StopWait, LockInv, AfterPull
<1>18. ASSUME NEW t \in Threads, Track(t) PROVE LockInv'
  BY <1>18, Zenon DEF Track, LockInv
<1>19. ASSUME NEW t \in Threads, DoneOqFlush(t) PROVE LockInv'
  BY <1>19, Zenon DEF DoneOqFlush, LockInv
<1>20. ASSUME NEW t \in Threads, Progress(t) PROVE LockInv'
  BY <1>20, Zenon DEF Progress, LockInv, Return, Continue
<1>21. ASSUME AquireFlush PROVE LockInv'
  BY <1>21, Zenon DEF AquireFlush, LockInv
<1>22. ASSUME StartWaitq PROVE LockInv'
  BY <1>22, Zenon DEF StartWaitq, LockInv
<1>23. ASSUME StartLoading PROVE LockInv'
  BY <1>23, Zenon DEF StartLoading, LockInv
<1>24. ASSUME StartOuts PROVE LockInv'
  BY <1>24, Zenon DEF StartOuts, LockInv
<1>25. ASSUME DropRef PROVE LockInv'
  BY <1>25, Zenon DEF DropRef, LockInv
<1>26. ASSUME FlushReturn PROVE LockInv'
  BY <1>26, Zenon DEF FlushReturn, LockInv
<1>27. ASSUME Quiescent PROVE LockInv'
  BY <1>27, Zenon DEF Quiescent, LockInv, vars, threadVars
<1> QED
  BY <1>1, <1>2, <1>3, <1>4, <1>5, <1>6, <1>7, <1>8, <1>9, <1>10, <1>11, <1>12,
     <1>13, <1>14, <1>15, <1>16, <1>17, <1>18, <1>19, <1>20, <1>21, <1>22, <1>23,
     <1>24, <1>25, <1>26, <1>27
  DEF Next, SenderStep, ForwardStep, ForwardFail, FlushStep,
      CompletionOK, CompletionErr

-----------------------------------------------------------------------------
\* Room for RPCs.

Room == RpcBound /\ LoadBound /\ LoadInv /\ WaitOnlyWhenFull /\ PullRoom

\* append_req_to_locked_outqueue keeps the bounds if there is room.
LEMMA AppendReqRoom ==
  ASSUME TypeOK, RpcBound, LoadBound, LoadInv, nsending < maxoqrpc,
         NEW t \in Threads, NEW r \in Reqs, AppendReq(t, r)
  PROVE  /\ RpcBound' /\ LoadBound' /\ LoadInv'
         /\ oput'[t] = <<>> => nsending' = nsending
         /\ oput'[t] # <<>> => nsending' = nsending + 1
<1> DEFINE b == Append(loading, r)
<1>0. loading \in Seq(Reqs) /\ loadsize \in Nat /\ nsending \in Nat
      /\ outs \in Seq(Batches) /\ oput \in [Threads -> Batches]
  BY Zenon DEF TypeOK
<1>1. b \in Seq(Reqs) /\ b # <<>>
  BY <1>0
<1>2. Size[r] \in Nat
  BY ConfigFacts, Zenon
<1>3. CASE StillRoom(loadsize + Size[r], FALSE) /\ QueueReq(t, r)
  <2>1. loadsize' < buftarget /\ nsending' = nsending /\ outs' = outs
    BY <1>3, ConfigFacts, Zenon DEF StillRoom, QueueReq
  <2>2. oput'[t] = <<>> /\ loading' = b
    BY <1>0, <1>3, Zenon DEF QueueReq
  <2> HIDE DEF b
  <2> QED
    BY <1>1, <2>1, <2>2 DEF RpcBound, LoadBound, LoadInv
<1>4. CASE SendBatch(t, b)
  <2>1. Len(outs') = Len(outs) + 1
    BY <1>4 DEF SendBatch, Batches
  <2>2. oput'[t] = b /\ nsending' = nsending + 1 /\ loadsize' = 0
    BY <1>0, <1>4, Zenon DEF SendBatch
  <2> HIDE DEF b
  <2> QED
    BY <1>1, <2>1, <2>2, ConfigFacts DEF RpcBound, LoadBound, LoadInv
<1> QED
  BY <1>3, <1>4, Zenon DEF AppendReq

\* Pushing out the batch keeps the bounds: a nonempty batch means room.
LEMMA FlushLoadingRoom ==
  ASSUME TypeOK, RpcBound, LoadBound, LoadInv,
         NEW t \in Threads, FlushLoading(t)
  PROVE  RpcBound' /\ LoadBound' /\ LoadInv'
<1>1. CASE UNCHANGED <<loading, loadsize, outs, nsending, batched>>
  BY <1>1, Zenon DEF RpcBound, LoadBound, LoadInv
<1>2. CASE ~StillRoom(loadsize, TRUE) /\ SendBatch(t, loading)
  <2>1. Len(outs') = Len(outs) + 1
    BY <1>2 DEF SendBatch, TypeOK, Batches
  <2>2. nsending < maxoqrpc
    BY <1>2, ConfigFacts DEF StillRoom, RpcBound, LoadBound, TypeOK
  <2> QED
    BY <1>2, <2>2, ConfigFacts DEF SendBatch, TypeOK, RpcBound, LoadBound,
       LoadInv
<1> QED
  BY <1>1, <1>2, Zenon DEF FlushLoading

\* Every step keeps the bounds on RPCs and bytes and who may wait.
LEMMA RoomStep == IndInv /\ Next => Room'
<1> SUFFICES ASSUME IndInv, Next PROVE Room'
  BY Zenon
<1>0. TypeOK /\ LocalInv /\ LockInv /\ OutputOwned /\ RpcBound /\ LoadBound
      /\ LoadInv /\ WaitOnlyWhenFull /\ PullRoom
  BY Zenon DEF IndInv
<1> USE <1>0, ThreadFacts DEF queueVars, flushVars, osetVars,
        flusherVars, parentVars, hgVars, histVars, Goto
<1>1. ASSUME NEW t \in Senders, NEW r \in Reqs, Send(t, r) PROVE Room'
  BY <1>1, Zenon DEF Send, Room, RpcBound, LoadBound, LoadInv,
     WaitOnlyWhenFull, PullRoom
<1>2. ASSUME NEW t \in Senders, NEW r \in Reqs, Relay(t, r) PROVE Room'
  BY <1>2, Zenon DEF Relay, Room, RpcBound, LoadBound, LoadInv,
     WaitOnlyWhenFull, PullRoom
<1>3. ASSUME NEW t \in Senders, PassLimit(t) PROVE Room'
  BY <1>3, Zenon DEF PassLimit, Room, RpcBound, LoadBound, LoadInv,
     WaitOnlyWhenFull, PullRoom
<1>4. ASSUME NEW t \in Senders, EnqueueNow(t) PROVE Room'
  <2>1. req[t] \in Reqs /\ oqlock = NoThread /\ ~NeedWait
    <3>1. pc[t] = "enqueue" /\ oqlock = NoThread /\ ~NeedWait
      BY <1>4, Zenon DEF EnqueueNow
    <3> QED
      BY <3>1, Zenon DEF LocalInv
  <2>2. nsending < maxoqrpc /\ oqwaitq = <<>>
    BY <2>1, ConfigFacts DEF NeedWait, TypeOK, WaitOnlyWhenFull
  <2>3. RpcBound' /\ LoadBound' /\ LoadInv'
    BY <1>4, <2>1, <2>2, AppendReqRoom, Zenon DEF EnqueueNow
  <2> QED
    BY <1>4, <2>2, <2>3, Zenon DEF EnqueueNow, Room, WaitOnlyWhenFull, PullRoom
<1>5. ASSUME NEW t \in Senders, EnqueueWait(t) PROVE Room'
  <2>1. nsending = maxoqrpc
    BY <1>5, ConfigFacts DEF EnqueueWait, NeedWait, RpcBound, TypeOK
  <2> QED
    BY <1>5, <2>1, Zenon DEF EnqueueWait, Room, RpcBound, LoadBound, LoadInv,
       WaitOnlyWhenFull, PullRoom
<1>6. ASSUME NEW t \in Senders, Park(t) PROVE Room'
  BY <1>6, Zenon DEF Park, Room, RpcBound, LoadBound, LoadInv,
     WaitOnlyWhenFull, PullRoom
<1>7. ASSUME NEW t \in Senders, Wakeup(t) PROVE Room'
  BY <1>7, Zenon DEF Wakeup, Room, RpcBound, LoadBound, LoadInv,
     WaitOnlyWhenFull, PullRoom
<1>8. ASSUME NEW t \in Senders, Reply(t) PROVE Room'
  BY <1>8, Zenon DEF Reply, Room, RpcBound, LoadBound, LoadInv,
     WaitOnlyWhenFull, PullRoom
<1>9. ASSUME NEW t \in Threads, CreateHandle(t) PROVE Room'
  BY <1>9, Zenon DEF CreateHandle, Room, RpcBound, LoadBound, LoadInv,
     WaitOnlyWhenFull, PullRoom
<1>10. ASSUME NEW t \in Threads, CreateFail(t) PROVE Room'
  BY <1>10, Zenon DEF CreateFail, Room, RpcBound, LoadBound, LoadInv,
     WaitOnlyWhenFull, PullRoom
<1>11. ASSUME NEW t \in Threads, Launch(t) PROVE Room'
  BY <1>11, Zenon DEF Launch, Room, RpcBound, LoadBound, LoadInv,
     WaitOnlyWhenFull, PullRoom
<1>12. ASSUME NEW t \in Threads, LaunchFail(t) PROVE Room'
  BY <1>12, Zenon DEF LaunchFail, Room, RpcBound, LoadBound, LoadInv,
     WaitOnlyWhenFull, PullRoom
<1>13. ASSUME NEW b \in inflight, Completion(b) PROVE Room'
  BY <1>13, Zenon DEF Completion, Room, RpcBound, LoadBound, LoadInv,
     WaitOnlyWhenFull, PullRoom
<1>14. ASSUME NEW t \in Threads, StartNext(t) PROVE Room'
  <2>1. oput[t] \in Range(outs) /\ outs \in Seq(Batches)
    BY <1>14, Zenon DEF StartNext, OutputOwned, Holds, TypeOK
  <2>2. Pos(oput[t]) \in 1 .. Len(outs)
    BY <2>1, PosOK, Zenon
  <2>3. Len(outs') = Len(outs) - 1 /\ Len(outs) \in Nat /\ Len(outs) > 0
    <3>1. outs' = Without(outs, Pos(oput[t])) /\ Len(outs) \in Nat
      BY <1>14 DEF StartNext
    <3>2. Len(Without(outs, Pos(oput[t]))) = Len(outs) - 1
      BY <2>1, <2>2, WithoutProperties, Zenon
    <3> QED
      BY <3>1, <3>2
  <2>4. nsending' = nsending - 1 /\ RpcBound'
    BY <1>14, <2>3, ConfigFacts DEF StartNext, SendingLess, RpcBound, TypeOK
  <2>5. UNCHANGED <<loading, loadsize, oqwaitq>> /\ oqlock' = t
        /\ oqlock = NoThread
    BY <1>14, Zenon DEF StartNext
  <2>6. LoadBound' /\ LoadInv' /\ WaitOnlyWhenFull'
    BY <2>4, <2>5, ConfigFacts DEF LoadBound, LoadInv, WaitOnlyWhenFull,
       RpcBound, TypeOK
  <2>7. PullRoom'
    BY <2>4, <2>5, Zenon DEF WaitOnlyWhenFull, PullRoom
  <2> QED
    BY <2>4, <2>6, <2>7, Zenon DEF Room
<1>15. ASSUME NEW t \in Threads, PullOne(t) PROVE Room'
  <2>1. oqlock = t /\ oqwaitq # <<>> /\ oqwaitq' = Tail(oqwaitq)
    BY <1>15, Zenon DEF PullOne, LockInv
  <2>2. nsending = maxoqrpc - 1 /\ nsending < maxoqrpc
    BY <2>1, ConfigFacts DEF PullRoom
  <2>3. Head(oqwaitq) \in Reqs
    BY <2>1 DEF TypeOK
  <2>4. AppendReq(t, Head(oqwaitq))
    BY <1>15, Zenon DEF PullOne
  <2>5. /\ RpcBound' /\ LoadBound' /\ LoadInv'
        /\ oput'[t] = <<>> => nsending' = nsending
        /\ oput'[t] # <<>> => nsending' = nsending + 1
    BY <2>2, <2>3, <2>4, AppendReqRoom, Zenon
  <2>6. \/ oput'[t] = <<>> /\ oqlock' = oqlock
        \/ oput'[t] # <<>> /\ oqlock' = NoThread
    BY <1>15, Zenon DEF PullOne
  <2>7. WaitOnlyWhenFull' /\ PullRoom'
    BY <2>1, <2>5, <2>6, ConfigFacts DEF WaitOnlyWhenFull, PullRoom
  <2> QED
    BY <2>5, <2>7, Zenon DEF Room
<1>16. ASSUME NEW t \in Threads, PullEnd(t) PROVE Room'
  <2>1. RpcBound' /\ LoadBound' /\ LoadInv'
    <3>1. CASE FlushLoading(t)
      BY <3>1, FlushLoadingRoom, Zenon
    <3>2. CASE UNCHANGED <<loading, loadsize, outs, nsending, batched>>
      BY <3>2, Zenon DEF RpcBound, LoadBound, LoadInv
    <3> QED
      BY <1>16, <3>1, <3>2, Zenon DEF PullEnd
  <2> QED
    BY <1>16, <2>1, Zenon DEF PullEnd, Room, WaitOnlyWhenFull, PullRoom
<1>17. ASSUME NEW t \in Threads, StopWait(t) PROVE Room'
  BY <1>17, Zenon DEF StopWait, Room, RpcBound, LoadBound, LoadInv,
     WaitOnlyWhenFull, PullRoom
<1>18. ASSUME NEW t \in Threads, Track(t) PROVE Room'
  BY <1>18, Zenon DEF Track, Room, RpcBound, LoadBound, LoadInv,
     WaitOnlyWhenFull, PullRoom
<1>19. ASSUME NEW t \in Threads, DoneOqFlush(t) PROVE Room'
  BY <1>19, Zenon DEF DoneOqFlush, Room, RpcBound, LoadBound, LoadInv,
     WaitOnlyWhenFull, PullRoom
<1>20. ASSUME NEW t \in Threads, Progress(t) PROVE Room'
  BY <1>20, Zenon DEF Progress, Room, RpcBound, LoadBound, LoadInv,
     WaitOnlyWhenFull, PullRoom
<1>21. ASSUME AquireFlush PROVE Room'
  BY <1>21, Zenon DEF AquireFlush, Room, RpcBound, LoadBound, LoadInv,
     WaitOnlyWhenFull, PullRoom
<1>22. ASSUME StartWaitq PROVE Room'
  BY <1>22, Zenon DEF StartWaitq, Room, RpcBound, LoadBound, LoadInv,
     WaitOnlyWhenFull, PullRoom
<1>23. ASSUME StartLoading PROVE Room'
  <2>1. RpcBound' /\ LoadBound' /\ LoadInv'
    BY <1>23, FlushLoadingRoom, Zenon DEF StartLoading
  <2> QED
    BY <1>23, <2>1, Zenon DEF StartLoading, Room, WaitOnlyWhenFull, PullRoom
<1>24. ASSUME StartOuts PROVE Room'
  BY <1>24, Zenon DEF StartOuts, Room, RpcBound, LoadBound, LoadInv,
     WaitOnlyWhenFull, PullRoom
<1>25. ASSUME DropRef PROVE Room'
  BY <1>25, Zenon DEF DropRef, Room, RpcBound, LoadBound, LoadInv,
     WaitOnlyWhenFull, PullRoom
<1>26. ASSUME FlushReturn PROVE Room'
  BY <1>26, Zenon DEF FlushReturn, Room, RpcBound, LoadBound, LoadInv,
     WaitOnlyWhenFull, PullRoom
<1>27. ASSUME Quiescent PROVE Room'
  BY <1>27, Zenon DEF Quiescent, Room, RpcBound, LoadBound, LoadInv,
     WaitOnlyWhenFull, PullRoom, vars, threadVars
<1> QED
  BY <1>1, <1>2, <1>3, <1>4, <1>5, <1>6, <1>7, <1>8, <1>9, <1>10, <1>11, <1>12,
     <1>13, <1>14, <1>15, <1>16, <1>17, <1>18, <1>19, <1>20, <1>21, <1>22, <1>23,
     <1>24, <1>25, <1>26, <1>27
  DEF Next, SenderStep, ForwardStep, ForwardFail, FlushStep,
      CompletionOK, CompletionErr

-----------------------------------------------------------------------------
\* Order.

\* Appending to the second of two sequences.
LEMMA ConcatAppend ==
  ASSUME NEW S, NEW s \in Seq(S), NEW u \in Seq(S), NEW e \in S
  PROVE  s \o Append(u, e) = Append(s \o u, e)
<1>1. <<e>> \in Seq(S) /\ s \o u \in Seq(S)
  OBVIOUS
<1>2. Append(u, e) = u \o <<e>> /\ Append(s \o u, e) = (s \o u) \o <<e>>
  OBVIOUS
<1> QED
  OBVIOUS

\* Moving the head of one sequence to the end of another.
LEMMA HeadMoves ==
  ASSUME NEW S, NEW s \in Seq(S), NEW w \in Seq(S), w # <<>>
  PROVE  Append(s, Head(w)) \o Tail(w) = s \o w
<1>1. Head(w) \in S /\ Tail(w) \in Seq(S) /\ Len(w) \in Nat /\ Len(w) > 0
  OBVIOUS
<1>2. <<Head(w)>> \in Seq(S)
  OBVIOUS
<1>3. w = <<Head(w)>> \o Tail(w)
  <2>1. SubSeq(w, 1, Len(w)) = <<w[1]>> \o SubSeq(w, 2, Len(w))
    OBVIOUS
  <2> QED
    OBVIOUS
<1>4. Append(s, Head(w)) = s \o <<Head(w)>>
  OBVIOUS
<1>5. (s \o <<Head(w)>>) \o Tail(w) = s \o (<<Head(w)>> \o Tail(w))
  OBVIOUS
<1> QED
  BY <1>4

\* append_req_to_locked_outqueue adds the request behind all others.
LEMMA AppendReqOrder ==
  ASSUME TypeOK, NEW t \in Threads, NEW r \in Reqs, AppendReq(t, r)
  PROVE  batched' \o loading' = Append(batched \o loading, r)
<1>1. loading \in Seq(Reqs) /\ batched \in Seq(Reqs)
  BY Zenon DEF TypeOK
<1>2. batched \o Append(loading, r) = Append(batched \o loading, r)
  OBVIOUS
<1>3. batched \o Append(loading, r) \in Seq(Reqs)
  BY <1>1
<1>4. (batched \o Append(loading, r)) \o <<>> = batched \o Append(loading, r)
  OBVIOUS
<1> QED
  BY <1>2, <1>4, Zenon DEF AppendReq, QueueReq, SendBatch

\* Pushing out the batch reorders nothing.
LEMMA FlushLoadingOrder ==
  ASSUME TypeOK, NEW t \in Threads, FlushLoading(t)
  PROVE  batched' \o loading' = batched \o loading
<1>1. batched \o loading \in Seq(Reqs)
  BY DEF TypeOK
<1>2. (batched \o loading) \o <<>> = batched \o loading
  OBVIOUS
<1> QED
  BY <1>2, ZenonT(40) DEF FlushLoading, SendBatch

\* Every step keeps the order of arrival.
LEMMA FifoStep == IndInv /\ Next => Fifo'
<1> SUFFICES ASSUME IndInv, Next PROVE Fifo'
  OBVIOUS
<1>0. TypeOK /\ LocalInv /\ LockInv /\ WaitOnlyWhenFull /\ RpcBound
      /\ Fifo
  BY Zenon DEF IndInv
<1> USE <1>0, ThreadFacts DEF queueVars, flushVars, osetVars,
        flusherVars, parentVars, hgVars, histVars, Goto
<1>1. ASSUME NEW t \in Senders, NEW r \in Reqs, Send(t, r) PROVE Fifo'
  BY <1>1, Zenon DEF Send, Fifo
<1>2. ASSUME NEW t \in Senders, NEW r \in Reqs, Relay(t, r) PROVE Fifo'
  BY <1>2, Zenon DEF Relay, Fifo
<1>3. ASSUME NEW t \in Senders, PassLimit(t) PROVE Fifo'
  BY <1>3, Zenon DEF PassLimit, Fifo
<1>4. ASSUME NEW t \in Senders, EnqueueNow(t) PROVE Fifo'
  <2>1. req[t] \in Reqs /\ oqlock = NoThread /\ ~NeedWait
    <3>1. pc[t] = "enqueue" /\ oqlock = NoThread /\ ~NeedWait
      BY <1>4, Zenon DEF EnqueueNow
    <3> QED
      BY <3>1, Zenon DEF LocalInv
  <2>2. oqwaitq = <<>> /\ oqwaitq' = <<>>
    <3>1. oqwaitq = <<>>
      BY <2>1 DEF NeedWait, TypeOK, WaitOnlyWhenFull
    <3> QED
      BY <1>4, <3>1, Zenon DEF EnqueueNow
  <2>3. batched' \o loading' = Append(batched \o loading, req[t])
    BY <1>4, <2>1, AppendReqOrder, Zenon DEF EnqueueNow
  <2>4. batched \o loading \in Seq(Reqs)
    BY DEF TypeOK
  <2>5. Append(batched \o loading, req[t]) \in Seq(Reqs)
    BY <2>1, <2>4
  <2>6. arrivals = batched \o loading
    BY <2>2 DEF Fifo
  <2>7. (batched' \o loading') \o oqwaitq' = Append(batched \o loading, req[t])
    BY <2>2, <2>3
  <2> QED
    BY <1>4, <2>6, <2>7, Zenon DEF EnqueueNow, Fifo
<1>5. ASSUME NEW t \in Senders, EnqueueWait(t) PROVE Fifo'
  <2>1. req[t] \in Reqs
    BY <1>5, Zenon DEF EnqueueWait, LocalInv
  <2>2. batched \o loading \in Seq(Reqs) /\ oqwaitq \in Seq(Reqs)
    BY DEF TypeOK
  <2>3. (batched \o loading) \o Append(oqwaitq, req[t])
          = Append((batched \o loading) \o oqwaitq, req[t])
    OBVIOUS
  <2> QED
    BY <1>5, <2>3, Zenon DEF EnqueueWait, Fifo
<1>6. ASSUME NEW t \in Senders, Park(t) PROVE Fifo'
  BY <1>6, Zenon DEF Park, Fifo
<1>7. ASSUME NEW t \in Senders, Wakeup(t) PROVE Fifo'
  BY <1>7, Zenon DEF Wakeup, Fifo
<1>8. ASSUME NEW t \in Senders, Reply(t) PROVE Fifo'
  BY <1>8, Zenon DEF Reply, Fifo
<1>9. ASSUME NEW t \in Threads, CreateHandle(t) PROVE Fifo'
  BY <1>9, Zenon DEF CreateHandle, Fifo
<1>10. ASSUME NEW t \in Threads, CreateFail(t) PROVE Fifo'
  BY <1>10, Zenon DEF CreateFail, Fifo
<1>11. ASSUME NEW t \in Threads, Launch(t) PROVE Fifo'
  BY <1>11, Zenon DEF Launch, Fifo
<1>12. ASSUME NEW t \in Threads, LaunchFail(t) PROVE Fifo'
  BY <1>12, Zenon DEF LaunchFail, Fifo
<1>13. ASSUME NEW b \in inflight, Completion(b) PROVE Fifo'
  BY <1>13, Zenon DEF Completion, Fifo
<1>14. ASSUME NEW t \in Threads, StartNext(t) PROVE Fifo'
  BY <1>14, Zenon DEF StartNext, Fifo
<1>15. ASSUME NEW t \in Threads, PullOne(t) PROVE Fifo'
  <2>1. /\ oqwaitq # <<>> /\ oqwaitq' = Tail(oqwaitq)
        /\ AppendReq(t, Head(oqwaitq)) /\ arrivals' = arrivals
    BY <1>15, Zenon DEF PullOne
  <2>2. Head(oqwaitq) \in Reqs /\ oqwaitq \in Seq(Reqs)
    BY <2>1, HeadTailFacts, Zenon DEF TypeOK
  <2>3. batched' \o loading' = Append(batched \o loading, Head(oqwaitq))
    BY <2>1, <2>2, AppendReqOrder, Zenon
  <2>4. batched \o loading \in Seq(Reqs)
    BY DEF TypeOK
  <2>5. Append(batched \o loading, Head(oqwaitq)) \o Tail(oqwaitq)
          = (batched \o loading) \o oqwaitq
    BY <2>1, <2>2, <2>4, HeadMoves, Zenon
  <2> QED
    BY <2>1, <2>3, <2>5, Zenon DEF Fifo
<1>16. ASSUME NEW t \in Threads, PullEnd(t) PROVE Fifo'
  <2>1. batched' \o loading' = batched \o loading
    <3>1. CASE FlushLoading(t)
      BY <3>1, FlushLoadingOrder, Zenon
    <3>2. CASE UNCHANGED <<loading, loadsize, outs, nsending, batched>>
      BY <3>2, Zenon
    <3> QED
      BY <1>16, <3>1, Zenon DEF PullEnd
  <2> QED
    BY <1>16, <2>1, Zenon DEF PullEnd, Fifo
<1>17. ASSUME NEW t \in Threads, StopWait(t) PROVE Fifo'
  BY <1>17, Zenon DEF StopWait, Fifo
<1>18. ASSUME NEW t \in Threads, Track(t) PROVE Fifo'
  BY <1>18, Zenon DEF Track, Fifo
<1>19. ASSUME NEW t \in Threads, DoneOqFlush(t) PROVE Fifo'
  BY <1>19, Zenon DEF DoneOqFlush, Fifo
<1>20. ASSUME NEW t \in Threads, Progress(t) PROVE Fifo'
  BY <1>20, Zenon DEF Progress, Fifo
<1>21. ASSUME AquireFlush PROVE Fifo'
  BY <1>21, Zenon DEF AquireFlush, Fifo
<1>22. ASSUME StartWaitq PROVE Fifo'
  BY <1>22, Zenon DEF StartWaitq, Fifo
<1>23. ASSUME StartLoading PROVE Fifo'
  <2>1. batched' \o loading' = batched \o loading
    BY <1>23, FlushLoadingOrder, Zenon DEF StartLoading
  <2> QED
    BY <1>23, <2>1, Zenon DEF StartLoading, Fifo
<1>24. ASSUME StartOuts PROVE Fifo'
  BY <1>24, Zenon DEF StartOuts, Fifo
<1>25. ASSUME DropRef PROVE Fifo'
  BY <1>25, Zenon DEF DropRef, Fifo
<1>26. ASSUME FlushReturn PROVE Fifo'
  BY <1>26, Zenon DEF FlushReturn, Fifo
<1>27. ASSUME Quiescent PROVE Fifo'
  BY <1>27, Zenon DEF Quiescent, Fifo, vars, threadVars
<1> QED
  BY <1>1, <1>2, <1>3, <1>4, <1>5, <1>6, <1>7, <1>8, <1>9, <1>10, <1>11, <1>12,
     <1>13, <1>14, <1>15, <1>16, <1>17, <1>18, <1>19, <1>20, <1>21, <1>22,
     <1>23, <1>24, <1>25, <1>26, <1>27, Zenon DEF Next, SenderStep,
     ForwardStep, ForwardFail, FlushStep, CompletionOK, CompletionErr
=============================================================================
