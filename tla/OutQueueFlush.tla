--------------------------- MODULE OutQueueFlush ----------------------------
(***************************************************************************)
(* Proofs about the outputs of one output queue and its flush: an output   *)
(* has one owner, the flush's references are counted while callbacks nest, *)
(* an RPC that is gone has an outcome, and whatever the flush still owes   *)
(* is among the outputs, the batch or the waiting requests it counts.      *)
(***************************************************************************)
EXTENDS OutQueueSteps

-----------------------------------------------------------------------------
\* Outputs and who holds them.

\* A step that leaves the outputs alone and hands none over.
LEMMA OwnSame ==
  ASSUME OutputOwned, UNCHANGED <<outs, batched, inflight>>,
         \A u \in Threads : Holds(u)' => Holds(u) /\ oput'[u] = oput[u]
  PROVE  OutputOwned'
<1>1. \A u \in Threads : Holds(u)' => oput'[u] \in Range(outs') \ inflight'
  BY Zenon DEF OutputOwned
<1>2. \A u, v \in Threads :
        Holds(u)' /\ Holds(v)' /\ oput'[u] = oput'[v] => u = v
  BY Zenon DEF OutputOwned
<1> QED
  BY Zenon DEF OutputOwned

\* A new output is different from all others: it has a new request.
LEMMA OwnSend ==
  ASSUME TypeOK, OutputOwned, NEW t \in Threads, NEW b \in Batches,
         SendBatch(t, b), ~Holds(t), b # <<>>,
         NEW r, r \in Range(b), r \notin Range(batched),
         inflight' = inflight,
         \A u \in Threads \ {t} : pc'[u] = pc[u]
  PROVE  OutputOwned'
<1>1. /\ outs \in Seq(Batches) /\ batched \in Seq(Reqs) /\ b \in Seq(Reqs)
      /\ oput \in [Threads -> Batches]
  BY Zenon DEF TypeOK, Batches
<1>2. /\ outs' = Append(outs, b) /\ batched' = batched \o b
      /\ oput'[t] = b /\ \A u \in Threads \ {t} : oput'[u] = oput[u]
  BY <1>1, Zenon DEF SendBatch
<1>3. Range(outs') = Range(outs) \cup {b}
  BY <1>1, <1>2, RangeAppend
<1>4. Range(batched') = Range(batched) \cup Range(b)
  BY <1>1, <1>2, RangeConcat
<1>5. /\ Len(outs) \in Nat /\ DOMAIN outs = 1 .. Len(outs)
      /\ DOMAIN outs' = 1 .. (Len(outs) + 1)
      /\ \A i \in 1 .. Len(outs) : outs'[i] = outs[i]
      /\ outs'[Len(outs) + 1] = b
  BY <1>2
<1>6. \A i \in DOMAIN outs' : i \in 1 .. Len(outs) \/ i = Len(outs) + 1
  BY <1>5
<1>7. /\ \A i \in 1 .. Len(outs) :
           outs[i] # <<>> /\ Range(outs[i]) \subseteq Range(batched)
      /\ \A i, j \in 1 .. Len(outs) : outs[i] = outs[j] => i = j
  BY DEF OutputOwned
<1>8. \A i \in 1 .. Len(outs) : outs[i] # b
  BY <1>7, Zenon
<1>9. b \notin Range(outs)
  BY <1>8 DEF Range
<1>10. \A i \in DOMAIN outs' :
         outs'[i] # <<>> /\ Range(outs'[i]) \subseteq Range(batched')
  <2>1. \A i \in 1 .. Len(outs) :
          outs'[i] # <<>> /\ Range(outs'[i]) \subseteq Range(batched')
    BY <1>4, <1>5, <1>7, Zenon
  <2>2. outs'[Len(outs) + 1] # <<>>
          /\ Range(outs'[Len(outs) + 1]) \subseteq Range(batched')
    BY <1>4, <1>5, Zenon
  <2> QED
    BY <1>6, <2>1, <2>2, Zenon
<1>11. \A i, j \in DOMAIN outs' : outs'[i] = outs'[j] => i = j
  BY <1>5, <1>7
<1>12. inflight \subseteq Range(outs)
  BY Zenon DEF OutputOwned
<1>13. \A u \in Threads \ {t} : Holds(u)' => Holds(u)
  BY <1>2, Zenon DEF Holds
<1>14. \A u \in Threads \ {t} : Holds(u) => oput[u] \in Range(outs) \ inflight
  BY Zenon DEF OutputOwned
<1>15. \A u \in Threads : Holds(u)' => oput'[u] \in Range(outs') \ inflight'
  BY <1>2, <1>3, <1>9, <1>12, <1>13, <1>14, Zenon
<1>16. \A u, v \in Threads :
         Holds(u)' /\ Holds(v)' /\ oput'[u] = oput'[v] => u = v
  <2>1. \A u \in Threads \ {t} : Holds(u)' => oput'[u] # b
    BY <1>2, <1>9, <1>13, <1>14, Zenon
  <2>2. \A u, v \in Threads \ {t} :
          Holds(u)' /\ Holds(v)' /\ oput'[u] = oput'[v] => u = v
    BY <1>2, <1>13 DEF OutputOwned
  <2> QED
    BY <1>2, <2>1, <2>2, Zenon
<1>17. inflight' \subseteq Range(outs')
  BY <1>3, <1>12, Zenon
<1> QED
  BY <1>10, <1>11, <1>15, <1>16, <1>17, Zenon DEF OutputOwned

\* append_req_to_locked_outqueue gives its caller what it completes.
LEMMA AppendReqOwn ==
  ASSUME TypeOK, OutputOwned, NEW t \in Threads, NEW r \in Reqs,
         AppendReq(t, r), ~Holds(t), r \notin Range(batched),
         inflight' = inflight,
         \A u \in Threads \ {t} : pc'[u] = pc[u],
         oput'[t] = <<>> => ~Holds(t)'
  PROVE  OutputOwned'
<1>0. loading \in Seq(Reqs) /\ oput \in [Threads -> Batches]
  BY Zenon DEF TypeOK
<1>1. CASE QueueReq(t, r)
  <2>1. /\ UNCHANGED <<outs, batched, inflight>>
        /\ oput'[t] = <<>> /\ \A u \in Threads \ {t} : oput'[u] = oput[u]
    BY <1>0, <1>1, Zenon DEF QueueReq
  <2>2. \A u \in Threads : Holds(u)' => Holds(u) /\ oput'[u] = oput[u]
    BY <2>1, Zenon DEF Holds
  <2> QED
    BY <2>1, <2>2, OwnSame, Zenon
<1>2. CASE SendBatch(t, Append(loading, r))
  <2>1. /\ Append(loading, r) \in Batches /\ Append(loading, r) # <<>>
        /\ r \in Range(Append(loading, r))
    <3>1. Append(loading, r) \in Seq(Reqs) /\ Append(loading, r) # <<>>
      BY <1>0
    <3>2. Range(Append(loading, r)) = Range(loading) \cup {r}
      BY <1>0, RangeAppend
    <3> QED
      BY <3>1, <3>2, Zenon DEF Batches
  <2> QED
    BY <1>2, <2>1, OwnSend, Zenon
<1> QED
  BY <1>1, <1>2, Zenon DEF AppendReq

\* Pushing out the batch gives it to the caller.
LEMMA FlushLoadingOwn ==
  ASSUME TypeOK, OutputOwned, LoadInv, FreshInv, NEW t \in Threads,
         FlushLoading(t), ~Holds(t),
         inflight' = inflight,
         \A u \in Threads \ {t} : pc'[u] = pc[u],
         oput'[t] = <<>> => ~Holds(t)'
  PROVE  OutputOwned'
<1>0. /\ loading \in Seq(Reqs) /\ oput \in [Threads -> Batches]
      /\ loadsize \in Nat
  BY Zenon DEF TypeOK
<1>1. CASE /\ oput' = [oput EXCEPT ![t] = <<>>]
           /\ UNCHANGED <<loading, loadsize, outs, nsending, batched>>
  <2>1. /\ UNCHANGED <<outs, batched, inflight>>
        /\ oput'[t] = <<>> /\ \A u \in Threads \ {t} : oput'[u] = oput[u]
    BY <1>0, <1>1, Zenon
  <2>2. \A u \in Threads : Holds(u)' => Holds(u) /\ oput'[u] = oput[u]
    BY <2>1, Zenon DEF Holds
  <2> QED
    BY <2>1, <2>2, OwnSame, Zenon
<1>2. CASE ~StillRoom(loadsize, TRUE) /\ SendBatch(t, loading)
  <2>1. loading # <<>>
    BY <1>0, <1>2 DEF StillRoom, LoadInv
  <2>2. Head(loading) \in Range(loading)
    BY <1>0, <2>1, RangeHeadTail, Zenon
  <2>3. Head(loading) \notin Range(batched)
    BY <2>2, Zenon DEF FreshInv
  <2>4. loading \in Batches
    BY <1>0 DEF Batches
  <2> QED
    BY <1>2, <2>1, <2>2, <2>3, <2>4, OwnSend, Zenon
<1> QED
  BY <1>1, <1>2, Zenon DEF FlushLoading

\* Every step keeps each output with one owner.
LEMMA OutputStep == IndInv /\ Next => OutputOwned'
<1> SUFFICES ASSUME IndInv, Next PROVE OutputOwned'
  BY Zenon
<1>0. TypeOK /\ LocalInv /\ FreshInv /\ LoadInv /\ OutputOwned
  BY Zenon DEF IndInv
<1> USE <1>0, ThreadFacts DEF queueVars, flushVars, osetVars,
        flusherVars, parentVars, hgVars, histVars, Goto
<1>1. ASSUME NEW t \in Senders, NEW r \in Reqs, Send(t, r) PROVE OutputOwned'
  <2>0. pc \in [Threads -> Locations] /\ oput \in [Threads -> Batches]
    BY Zenon DEF TypeOK
  <2>1. UNCHANGED <<outs, batched, inflight, oput>>
    BY <1>1, Zenon DEF Send
  <2>2. \A u \in Threads : Holds(u)' => Holds(u)
    BY <1>1, <2>0, Zenon DEF Send, Holds, Return, Continue, AfterPull
  <2> QED
    BY <2>1, <2>2, OwnSame, Zenon
<1>2. ASSUME NEW t \in Senders, NEW r \in Reqs, Relay(t, r) PROVE OutputOwned'
  <2>0. pc \in [Threads -> Locations] /\ oput \in [Threads -> Batches]
    BY Zenon DEF TypeOK
  <2>1. UNCHANGED <<outs, batched, inflight, oput>>
    BY <1>2, Zenon DEF Relay
  <2>2. \A u \in Threads : Holds(u)' => Holds(u)
    BY <1>2, <2>0, Zenon DEF Relay, Holds, Return, Continue, AfterPull
  <2> QED
    BY <2>1, <2>2, OwnSame, Zenon
<1>3. ASSUME NEW t \in Senders, PassLimit(t) PROVE OutputOwned'
  <2>0. pc \in [Threads -> Locations] /\ oput \in [Threads -> Batches]
    BY Zenon DEF TypeOK
  <2>1. UNCHANGED <<outs, batched, inflight, oput>>
    BY <1>3, Zenon DEF PassLimit
  <2>2. \A u \in Threads : Holds(u)' => Holds(u)
    BY <1>3, <2>0, Zenon DEF PassLimit, Holds, Return, Continue, AfterPull
  <2> QED
    BY <2>1, <2>2, OwnSame, Zenon
<1>4. ASSUME NEW t \in Senders, EnqueueNow(t) PROVE OutputOwned'
  <2>0. pc \in [Threads -> Locations] /\ oput \in [Threads -> Batches]
    BY Zenon DEF TypeOK
  <2>1. /\ req[t] \in Reqs /\ AppendReq(t, req[t]) /\ inflight' = inflight
        /\ ~Holds(t) /\ \A u \in Threads \ {t} : pc'[u] = pc[u]
        /\ Pending(t) /\ t \in Threads
    BY <1>4 DEF EnqueueNow, LocalInv, Pending, Holds
  <2>2. req[t] \notin Range(batched)
    BY <2>1, Zenon DEF FreshInv, Placed
  <2>3. oput'[t] = <<>> => ~Holds(t)'
    BY <1>4 DEF EnqueueNow, Holds, Return
  <2> QED
    BY <2>1, <2>2, <2>3, AppendReqOwn, Zenon
<1>5. ASSUME NEW t \in Senders, EnqueueWait(t) PROVE OutputOwned'
  <2>0. pc \in [Threads -> Locations] /\ oput \in [Threads -> Batches]
    BY Zenon DEF TypeOK
  <2>1. UNCHANGED <<outs, batched, inflight, oput>>
    BY <1>5, Zenon DEF EnqueueWait
  <2>2. \A u \in Threads : Holds(u)' => Holds(u)
    BY <1>5, <2>0, Zenon DEF EnqueueWait, Holds, Return, Continue, AfterPull
  <2> QED
    BY <2>1, <2>2, OwnSame, Zenon
<1>6. ASSUME NEW t \in Senders, Park(t) PROVE OutputOwned'
  <2>0. pc \in [Threads -> Locations] /\ oput \in [Threads -> Batches]
    BY Zenon DEF TypeOK
  <2>1. UNCHANGED <<outs, batched, inflight, oput>>
    BY <1>6, Zenon DEF Park
  <2>2. \A u \in Threads : Holds(u)' => Holds(u)
    BY <1>6, <2>0, Zenon DEF Park, Holds, Return, Continue, AfterPull
  <2> QED
    BY <2>1, <2>2, OwnSame, Zenon
<1>7. ASSUME NEW t \in Senders, Wakeup(t) PROVE OutputOwned'
  <2>0. pc \in [Threads -> Locations] /\ oput \in [Threads -> Batches]
    BY Zenon DEF TypeOK
  <2>1. UNCHANGED <<outs, batched, inflight, oput>>
    BY <1>7, Zenon DEF Wakeup
  <2>2. \A u \in Threads : Holds(u)' => Holds(u)
    BY <1>7, <2>0, Zenon DEF Wakeup, Holds, Return, Continue, AfterPull
  <2> QED
    BY <2>1, <2>2, OwnSame, Zenon
<1>8. ASSUME NEW t \in Senders, Reply(t) PROVE OutputOwned'
  <2>0. pc \in [Threads -> Locations] /\ oput \in [Threads -> Batches]
    BY Zenon DEF TypeOK
  <2>1. UNCHANGED <<outs, batched, inflight, oput>>
    BY <1>8, Zenon DEF Reply
  <2>2. \A u \in Threads : Holds(u)' => Holds(u)
    BY <1>8, <2>0, Zenon DEF Reply, Holds, Return, Continue, AfterPull
  <2> QED
    BY <2>1, <2>2, OwnSame, Zenon
<1>9. ASSUME NEW t \in Threads, CreateHandle(t) PROVE OutputOwned'
  <2>0. pc \in [Threads -> Locations] /\ oput \in [Threads -> Batches]
    BY Zenon DEF TypeOK
  <2>1. UNCHANGED <<outs, batched, inflight, oput>>
    BY <1>9, Zenon DEF CreateHandle
  <2>2. \A u \in Threads : Holds(u)' => Holds(u)
    BY <1>9, <2>0, Zenon DEF CreateHandle, Holds, Return, Continue, AfterPull
  <2> QED
    BY <2>1, <2>2, OwnSame, Zenon
<1>10. ASSUME NEW t \in Threads, CreateFail(t) PROVE OutputOwned'
  <2>0. pc \in [Threads -> Locations] /\ oput \in [Threads -> Batches]
    BY Zenon DEF TypeOK
  <2>1. UNCHANGED <<outs, batched, inflight, oput>>
    BY <1>10, Zenon DEF CreateFail
  <2>2. \A u \in Threads : Holds(u)' => Holds(u)
    BY <1>10, <2>0, Zenon DEF CreateFail, Holds, Return, Continue, AfterPull
  <2> QED
    BY <2>1, <2>2, OwnSame, Zenon
<1>11. ASSUME NEW t \in Threads, Launch(t) PROVE OutputOwned'
  <2>0. pc \in [Threads -> Locations] /\ oput \in [Threads -> Batches]
    BY Zenon DEF TypeOK
  <2>1. /\ UNCHANGED <<outs, batched, oput>>
        /\ inflight' = inflight \cup {oput[t]}
        /\ Holds(t) /\ ~Holds(t)'
        /\ \A u \in Threads : Holds(u)' => Holds(u) /\ u # t
    <3>1. /\ UNCHANGED <<outs, batched, oput>>
          /\ inflight' = inflight \cup {oput[t]}
          /\ Holds(t)
      BY <1>11, Zenon DEF Launch, Holds
    <3>2. pc'[t] \in {"reply", "outs", "idle", "done"}
      BY <1>11, <2>0, LocationsOK, Zenon DEF Launch
    <3>3. \A u \in Threads \ {t} : pc'[u] = pc[u]
      BY <1>11 DEF Launch
    <3> QED
      BY <3>1, <3>2, <3>3, Zenon DEF Holds
  <2>2. oput[t] \in Range(outs)
    BY <2>1, Zenon DEF OutputOwned
  <2>3. \A u \in Threads : Holds(u)' => oput'[u] \in Range(outs') \ inflight'
    BY <2>1, Zenon DEF OutputOwned
  <2>4. \A u, v \in Threads :
          Holds(u)' /\ Holds(v)' /\ oput'[u] = oput'[v] => u = v
    BY <2>1, Zenon DEF OutputOwned
  <2>5. inflight' \subseteq Range(outs')
    BY <2>1, Zenon DEF OutputOwned
  <2> QED
    BY <2>1, Zenon DEF OutputOwned
<1>12. ASSUME NEW t \in Threads, LaunchFail(t) PROVE OutputOwned'
  <2>0. pc \in [Threads -> Locations] /\ oput \in [Threads -> Batches]
    BY Zenon DEF TypeOK
  <2>1. UNCHANGED <<outs, batched, inflight, oput>>
    BY <1>12, Zenon DEF LaunchFail
  <2>2. \A u \in Threads : Holds(u)' => Holds(u)
    BY <1>12, <2>0, Zenon DEF LaunchFail, Holds, Return, Continue, AfterPull
  <2> QED
    BY <2>1, <2>2, OwnSame, Zenon
<1>13. ASSUME NEW b \in inflight, Completion(b) PROVE OutputOwned'
  <2>0. pc \in [Threads -> Locations] /\ oput \in [Threads -> Batches]
    BY SMTT(40) DEF TypeOK
  <2>1. /\ UNCHANGED <<outs, batched>>
        /\ inflight' = inflight \ {b} /\ b \in inflight
        /\ ~Holds(Net) /\ oput'[Net] = b
        /\ \A u \in Threads \ {Net} : oput'[u] = oput[u] /\ pc'[u] = pc[u]
    BY <1>13, <2>0, Zenon DEF Completion, Holds
  <2>2. \A u \in Threads \ {Net} : Holds(u)' => Holds(u)
    BY <2>1, Zenon DEF Holds
  <2>3. \A u \in Threads : Holds(u)' => oput'[u] \in Range(outs') \ inflight'
    BY <2>1, <2>2, Zenon DEF OutputOwned
  <2>4. \A u, v \in Threads :
          Holds(u)' /\ Holds(v)' /\ oput'[u] = oput'[v] => u = v
    BY <2>1, <2>2 DEF OutputOwned
  <2>5. inflight' \subseteq Range(outs')
    BY <2>1, Zenon DEF OutputOwned
  <2> QED
    BY <2>1, <2>3, <2>4, Zenon DEF OutputOwned
<1>14. ASSUME NEW t \in Threads, StartNext(t) PROVE OutputOwned'
  <2>0. pc \in [Threads -> Locations] /\ oput \in [Threads -> Batches]
    BY Zenon DEF TypeOK
  <2>1. /\ outs' = Without(outs, Pos(oput[t]))
        /\ UNCHANGED <<batched, inflight, oput>>
        /\ Holds(t)
        /\ \A u \in Threads : Holds(u)' => Holds(u) /\ u # t
    BY <1>14, <2>0, Zenon DEF StartNext, Holds
  <2>2. oput[t] \in Range(outs) /\ oput[t] \notin inflight
    BY <2>1, Zenon DEF OutputOwned
  <2>3. outs \in Seq(Batches)
    BY Zenon DEF TypeOK
  <2> DEFINE p == Pos(oput[t])
             n == Len(outs)
             q == Without(outs, Pos(oput[t]))
  <2>4. p \in 1 .. n /\ outs[p] = oput[t] /\ n \in Nat
    BY <2>2, <2>3, PosOK
  <2>5. /\ DOMAIN outs = 1 .. n /\ DOMAIN q = 1 .. (n - 1)
        /\ \A j \in 1 .. (n - 1) : q[j] = IF j < p THEN outs[j] ELSE outs[j + 1]
    BY <2>3, <2>4, WithoutProperties, LenFacts, Zenon
  <2>6. outs' = q
    BY <2>1, Zenon
  <2>7. /\ \A i \in 1 .. n :
             outs[i] # <<>> /\ Range(outs[i]) \subseteq Range(batched)
        /\ \A i, j \in 1 .. n : outs[i] = outs[j] => i = j
    BY <2>5, SMTT(40) DEF OutputOwned
  <2> HIDE DEF p, n, q
  <2> DEFINE Src(j) == IF j < p THEN j ELSE j + 1
  <2>8. \A j \in 1 .. (n - 1) : Src(j) \in 1 .. n /\ q[j] = outs[Src(j)]
    BY <2>4, <2>5
  <2>9. \A i, j \in 1 .. (n - 1) : Src(i) = Src(j) => i = j
    BY <2>4
  <2>10. \A i \in 1 .. n : i # p => \E j \in 1 .. (n - 1) : Src(j) = i
    <3>1. SUFFICES ASSUME NEW i \in 1 .. n, i # p
                   PROVE  \E j \in 1 .. (n - 1) : Src(j) = i
      BY Zenon
    <3>2. CASE i < p
      <4>1. i \in 1 .. (n - 1) /\ Src(i) = i
        BY <2>4, <3>2
      <4> QED
        BY <4>1, Zenon
    <3>3. CASE ~(i < p)
      <4>1. i - 1 \in 1 .. (n - 1) /\ Src(i - 1) = i
        BY <2>4, <3>1, <3>3
      <4> QED
        BY <4>1, Zenon
    <3> QED
      BY <3>2, <3>3, Zenon
  <2> HIDE DEF Src
  <2>11. \A i \in DOMAIN outs' :
           outs'[i] # <<>> /\ Range(outs'[i]) \subseteq Range(batched')
    BY <2>1, <2>5, <2>6, <2>7, <2>8
  <2>12. \A i, j \in DOMAIN outs' : outs'[i] = outs'[j] => i = j
    <3>1. SUFFICES ASSUME NEW i \in 1 .. (n - 1), NEW j \in 1 .. (n - 1),
                          q[i] = q[j]
                   PROVE  i = j
      BY <2>5, <2>6, Zenon
    <3>2. Src(i) = Src(j)
      BY <2>7, <2>8, <3>1, Zenon
    <3> QED
      BY <2>9, <3>2, Zenon
  <2>13. \A b \in Range(outs) : b # oput[t] => b \in Range(outs')
    <3>1. SUFFICES ASSUME NEW i \in 1 .. n, outs[i] # oput[t]
                   PROVE  outs[i] \in Range(q)
      BY <2>5, <2>6 DEF Range
    <3>2. PICK j \in 1 .. (n - 1) : Src(j) = i
      BY <2>4, <2>10, <3>1, Zenon
    <3>3. q[j] = outs[i]
      BY <2>8, <3>2, Zenon
    <3> QED
      BY <2>5, <3>3, Zenon DEF Range
  <2>14. inflight' \subseteq Range(outs')
    BY <2>1, <2>13, Zenon DEF OutputOwned
  <2>15. \A u \in Threads : Holds(u)' => oput'[u] \in Range(outs') \ inflight'
    BY <2>1, <2>13, Zenon DEF OutputOwned
  <2>16. \A u, v \in Threads :
          Holds(u)' /\ Holds(v)' /\ oput'[u] = oput'[v] => u = v
    BY <2>1, Zenon DEF OutputOwned
  <2> QED
    BY <2>11, <2>12, <2>14, <2>15, <2>16, Zenon DEF OutputOwned
<1>15. ASSUME NEW t \in Threads, PullOne(t) PROVE OutputOwned'
  <2>0. pc \in [Threads -> Locations] /\ oput \in [Threads -> Batches]
    BY SMTT(40) DEF TypeOK
  <2>1. /\ oqwaitq # <<>> /\ AppendReq(t, Head(oqwaitq))
        /\ inflight' = inflight
        /\ ~Holds(t) /\ \A u \in Threads \ {t} : pc'[u] = pc[u]
    BY <1>15, <2>0, Zenon DEF PullOne, Holds
  <2>2. Head(oqwaitq) \in Reqs /\ Head(oqwaitq) \in Range(oqwaitq)
    BY <2>1, RangeHeadTail, SMTT(40) DEF TypeOK
  <2>3. Head(oqwaitq) \notin Range(batched)
    BY <2>2, Zenon DEF FreshInv
  <2>4. oput'[t] = <<>> => ~Holds(t)'
    BY <1>15, Zenon DEF PullOne, Holds
  <2> QED
    BY <2>1, <2>2, <2>3, <2>4, AppendReqOwn, Zenon
<1>16. ASSUME NEW t \in Threads, PullEnd(t) PROVE OutputOwned'
  <2>0. pc \in [Threads -> Locations] /\ oput \in [Threads -> Batches]
    BY Zenon DEF TypeOK
  <2>1. /\ inflight' = inflight
        /\ ~Holds(t) /\ \A u \in Threads \ {t} : pc'[u] = pc[u]
    BY <1>16 DEF PullEnd, Holds
  <2>2. oput'[t] = <<>> => ~Holds(t)'
    BY <1>16 DEF PullEnd, Holds, AfterPull
  <2>3. CASE FlushLoading(t)
    BY <2>1, <2>2, <2>3, FlushLoadingOwn, Zenon
  <2>4. CASE /\ oput' = [oput EXCEPT ![t] = <<>>]
             /\ UNCHANGED <<loading, loadsize, outs, nsending, batched>>
    <3>1. \A u \in Threads \ {t} : oput'[u] = oput[u]
      BY <2>4
    <3>2. oput'[t] = <<>>
      BY <2>0, <2>4, Zenon
    <3>3. \A u \in Threads : Holds(u)' => Holds(u) /\ oput'[u] = oput[u]
      BY <2>1, <2>2, <3>1, <3>2, Zenon DEF Holds
    <3> QED
      BY <2>1, <2>4, <3>3, OwnSame, Zenon
  <2> QED
    BY <1>16, <2>3, <2>4, Zenon DEF PullEnd
<1>17. ASSUME NEW t \in Threads, StopWait(t) PROVE OutputOwned'
  <2>0. pc \in [Threads -> Locations] /\ oput \in [Threads -> Batches]
    BY Zenon DEF TypeOK
  <2>1. UNCHANGED <<outs, batched, inflight, oput>>
    BY <1>17, Zenon DEF StopWait
  <2>2. \A u \in Threads : Holds(u)' => Holds(u)
    BY <1>17, <2>0, Zenon DEF StopWait, Holds, Return, Continue, AfterPull
  <2> QED
    BY <2>1, <2>2, OwnSame, Zenon
<1>18. ASSUME NEW t \in Threads, Track(t) PROVE OutputOwned'
  <2>0. pc \in [Threads -> Locations] /\ oput \in [Threads -> Batches]
    BY Zenon DEF TypeOK
  <2>1. UNCHANGED <<outs, batched, inflight, oput>>
    BY <1>18, Zenon DEF Track
  <2>2. \A u \in Threads : Holds(u)' => Holds(u)
    BY <1>18, <2>0, Zenon DEF Track, Holds, Return, Continue, AfterPull
  <2> QED
    BY <2>1, <2>2, OwnSame, Zenon
<1>19. ASSUME NEW t \in Threads, DoneOqFlush(t) PROVE OutputOwned'
  <2>0. pc \in [Threads -> Locations] /\ oput \in [Threads -> Batches]
    BY Zenon DEF TypeOK
  <2>1. UNCHANGED <<outs, batched, inflight, oput>>
    BY <1>19, Zenon DEF DoneOqFlush
  <2>2. \A u \in Threads : Holds(u)' => Holds(u)
    BY <1>19, <2>0, Zenon DEF DoneOqFlush, Holds, Return, Continue, AfterPull
  <2> QED
    BY <2>1, <2>2, OwnSame, Zenon
<1>20. ASSUME NEW t \in Threads, Progress(t) PROVE OutputOwned'
  <2>0. pc \in [Threads -> Locations] /\ oput \in [Threads -> Batches]
    BY Zenon DEF TypeOK
  <2>1. UNCHANGED <<outs, batched, inflight, oput>>
    BY <1>20, Zenon DEF Progress
  <2>2. \A u \in Threads : Holds(u)' => Holds(u)
    BY <1>20, <2>0, Zenon DEF Progress, Holds, Return, Continue, AfterPull
  <2> QED
    BY <2>1, <2>2, OwnSame, Zenon
<1>21. ASSUME AquireFlush PROVE OutputOwned'
  <2>0. pc \in [Threads -> Locations] /\ oput \in [Threads -> Batches]
    BY Zenon DEF TypeOK
  <2>1. UNCHANGED <<outs, batched, inflight, oput>>
    BY <1>21, Zenon DEF AquireFlush
  <2>2. \A u \in Threads : Holds(u)' => Holds(u)
    BY <1>21, <2>0, Zenon DEF AquireFlush, Holds, Return, Continue, AfterPull
  <2> QED
    BY <2>1, <2>2, OwnSame, Zenon
<1>22. ASSUME StartWaitq PROVE OutputOwned'
  <2>0. pc \in [Threads -> Locations] /\ oput \in [Threads -> Batches]
    BY Zenon DEF TypeOK
  <2>1. UNCHANGED <<outs, batched, inflight, oput>>
    BY <1>22, Zenon DEF StartWaitq
  <2>2. \A u \in Threads : Holds(u)' => Holds(u)
    BY <1>22, <2>0, Zenon DEF StartWaitq, Holds, Return, Continue, AfterPull
  <2> QED
    BY <2>1, <2>2, OwnSame, Zenon
<1>23. ASSUME StartLoading PROVE OutputOwned'
  <2>0. pc \in [Threads -> Locations] /\ oput \in [Threads -> Batches]
    BY Zenon DEF TypeOK
  <2>1. /\ inflight' = inflight /\ FlushLoading(Flusher)
        /\ ~Holds(Flusher) /\ ~StillRoom(loadsize, TRUE)
        /\ \A u \in Threads \ {Flusher} : pc'[u] = pc[u]
    BY <1>23, <2>0, ZenonT(40) DEF StartLoading, Holds
  <2>2. oput'[Flusher] # <<>>
    <3>1. loading # <<>>
      BY <2>1 DEF StillRoom, LoadInv, TypeOK
    <3>2. SendBatch(Flusher, loading)
      BY <2>1, Zenon DEF FlushLoading
    <3> QED
      BY <2>0, <3>1, <3>2, Zenon DEF SendBatch
  <2> QED
    BY <2>1, <2>2, FlushLoadingOwn, Zenon
<1>24. ASSUME StartOuts PROVE OutputOwned'
  <2>0. pc \in [Threads -> Locations] /\ oput \in [Threads -> Batches]
    BY Zenon DEF TypeOK
  <2>1. UNCHANGED <<outs, batched, inflight, oput>>
    BY <1>24, Zenon DEF StartOuts
  <2>2. \A u \in Threads : Holds(u)' => Holds(u)
    BY <1>24, <2>0, Zenon DEF StartOuts, Holds, Return, Continue, AfterPull
  <2> QED
    BY <2>1, <2>2, OwnSame, Zenon
<1>25. ASSUME DropRef PROVE OutputOwned'
  <2>0. pc \in [Threads -> Locations] /\ oput \in [Threads -> Batches]
    BY Zenon DEF TypeOK
  <2>1. UNCHANGED <<outs, batched, inflight, oput>>
    BY <1>25, Zenon DEF DropRef
  <2>2. \A u \in Threads : Holds(u)' => Holds(u)
    BY <1>25, <2>0, Zenon DEF DropRef, Holds, Return, Continue, AfterPull
  <2> QED
    BY <2>1, <2>2, OwnSame, Zenon
<1>26. ASSUME FlushReturn PROVE OutputOwned'
  <2>0. pc \in [Threads -> Locations] /\ oput \in [Threads -> Batches]
    BY Zenon DEF TypeOK
  <2>1. UNCHANGED <<outs, batched, inflight, oput>>
    BY <1>26, Zenon DEF FlushReturn
  <2>2. \A u \in Threads : Holds(u)' => Holds(u)
    BY <1>26, <2>0, Zenon DEF FlushReturn, Holds, Return, Continue, AfterPull
  <2> QED
    BY <2>1, <2>2, OwnSame, Zenon
<1>27. ASSUME Quiescent PROVE OutputOwned'
  <2>0. pc \in [Threads -> Locations] /\ oput \in [Threads -> Batches]
    BY Zenon DEF TypeOK
  <2>1. UNCHANGED <<outs, batched, inflight, oput>>
    BY <1>27, Zenon DEF Quiescent, vars, threadVars
  <2>2. \A u \in Threads : Holds(u)' => Holds(u)
    BY <1>27, Zenon DEF Quiescent, vars, threadVars, Holds, Return, Continue,
       AfterPull
  <2> QED
    BY <2>1, <2>2, OwnSame, Zenon
<1> QED
  BY <1>1, <1>2, <1>3, <1>4, <1>5, <1>6, <1>7, <1>8, <1>9, <1>10, <1>11, <1>12,
     <1>13, <1>14, <1>15, <1>16, <1>17, <1>18, <1>19, <1>20, <1>21, <1>22, <1>23,
     <1>24, <1>25, <1>26, <1>27, SMTT(40)
  DEF Next, SenderStep, ForwardStep, ForwardFail, FlushStep,
      CompletionOK, CompletionErr

-----------------------------------------------------------------------------
\* The flush: its references, and where what it owes is.

\* At most one frame remembers that it has ended the flush of the queue.
OneFlag ==
  \A t, u \in Threads : \A i \in DOMAIN frames[t], j \in DOMAIN frames[u] :
    frames[t][i] /\ frames[u][j] => t = u /\ i = j

\* What the innermost forw_start_next of a thread has to say.
Top(t) == Head(frames[t])

LEMMA FramePush ==
  ASSUME NEW s \in Seq(BOOLEAN), NEW b \in BOOLEAN
  PROVE  /\ <<b>> \o s \in Seq(BOOLEAN) /\ Len(s) \in Nat
         /\ DOMAIN s = 1 .. Len(s) /\ DOMAIN (<<b>> \o s) = 1 .. (Len(s) + 1)
         /\ (<<b>> \o s)[1] = b /\ Head(<<b>> \o s) = b
         /\ \A i \in 1 .. Len(s) : (<<b>> \o s)[i + 1] = s[i]
         /\ \A i \in 2 .. (Len(s) + 1) : (<<b>> \o s)[i] = s[i - 1]
OBVIOUS

LEMMA FrameBack ==
  ASSUME NEW s \in Seq(BOOLEAN), s # <<>>
  PROVE  /\ <<Head(s)>> \o Tail(s) = s /\ Head(s) \in BOOLEAN
         /\ Tail(s) \in Seq(BOOLEAN)
         /\ Len(s) \in Nat /\ Len(s) > 0 /\ DOMAIN s = 1 .. Len(s)
         /\ DOMAIN Tail(s) = 1 .. (Len(s) - 1) /\ Head(s) = s[1]
         /\ \A i \in 1 .. (Len(s) - 1) : Tail(s)[i] = s[i + 1]
OBVIOUS

\* forw_start_next begins.
LEMMA FlagPush ==
  ASSUME frames \in [Threads -> Seq(BOOLEAN)], NEW t \in Threads, OneFlag,
         NEW b \in BOOLEAN, b => ~Ending,
         frames' = [frames EXCEPT ![t] = <<b>> \o @]
  PROVE  OneFlag' /\ (Ending' <=> b \/ Ending) /\ (Top(t)' <=> b)
<1>1. /\ frames[t] \in Seq(BOOLEAN) /\ frames'[t] = <<b>> \o frames[t]
      /\ \A u \in Threads \ {t} : frames'[u] = frames[u]
  BY Zenon
<1>2. /\ Len(frames[t]) \in Nat /\ DOMAIN frames[t] = 1 .. Len(frames[t])
      /\ DOMAIN frames'[t] = 1 .. (Len(frames[t]) + 1)
      /\ frames'[t][1] = b /\ Head(frames'[t]) = b
      /\ \A i \in 1 .. Len(frames[t]) : frames'[t][i + 1] = frames[t][i]
      /\ \A i \in 2 .. (Len(frames[t]) + 1) : frames'[t][i] = frames[t][i - 1]
  BY <1>1, FramePush
<1>3. ASSUME NEW u \in Threads, NEW i \in DOMAIN frames'[u]
      PROVE  \/ u # t /\ i \in DOMAIN frames[u] /\ frames'[u][i] = frames[u][i]
             \/ u = t /\ i = 1 /\ frames'[u][i] = b
             \/ /\ u = t /\ i \in Int /\ i - 1 \in DOMAIN frames[u]
                /\ frames'[u][i] = frames[u][i - 1]
  BY <1>1, <1>2
<1>4. \A u \in Threads : \A i \in DOMAIN frames[u] : b => ~frames[u][i]
  BY Zenon DEF Ending, Flagged
<1>5. ASSUME NEW u \in Threads, NEW v \in Threads, NEW i \in DOMAIN frames'[u],
             NEW j \in DOMAIN frames'[v], frames'[u][i], frames'[v][j]
      PROVE  u = v /\ i = j
  <2>1. \/ u # t /\ i \in DOMAIN frames[u] /\ frames[u][i]
        \/ u = t /\ i = 1 /\ b
        \/ u = t /\ i \in Int /\ i - 1 \in DOMAIN frames[u] /\ frames[u][i - 1]
    BY <1>3, <1>5
  <2>2. \/ v # t /\ j \in DOMAIN frames[v] /\ frames[v][j]
        \/ v = t /\ j = 1 /\ b
        \/ v = t /\ j \in Int /\ j - 1 \in DOMAIN frames[v] /\ frames[v][j - 1]
    BY <1>3, <1>5
  <2>3. CASE b
    BY <1>4, <2>1, <2>2, <2>3, Zenon
  <2>4. CASE ~b
    <3>1. u = v
      BY <2>1, <2>2, <2>4, Zenon DEF OneFlag
    <3>2. CASE u # t
      BY <2>1, <2>2, <3>1, <3>2, Zenon DEF OneFlag
    <3>3. CASE u = t
      <4>1. i - 1 = j - 1 /\ i \in Int /\ j \in Int
        BY <2>1, <2>2, <2>4, <3>1, <3>3, Zenon DEF OneFlag
      <4> QED
        BY <3>1, <4>1
    <3> QED
      BY <3>1, <3>2, <3>3, Zenon
  <2> QED
    BY <2>3, <2>4, Zenon
<1>6. OneFlag'
  BY <1>5 DEF OneFlag
<1>7. ASSUME Ending' PROVE b \/ Ending
  BY <1>3, <1>7 DEF Ending, Flagged
<1>8. ASSUME Ending PROVE Ending'
  <2>1. PICK u \in Threads : \E i \in DOMAIN frames[u] : frames[u][i]
    BY <1>8, Zenon DEF Ending, Flagged
  <2>2. \E i \in DOMAIN frames'[u] : frames'[u][i]
    <3>1. CASE u = t
      <4>1. PICK i \in 1 .. Len(frames[t]) : frames[t][i]
        BY <1>2, <2>1, <3>1, Zenon
      <4>2. i + 1 \in DOMAIN frames'[t] /\ frames'[t][i + 1]
        BY <1>2, <4>1
      <4> QED
        BY <3>1, <4>2, Zenon
    <3>2. CASE u # t
      BY <1>1, <2>1, <3>2, Zenon
    <3> QED
      BY <3>1, <3>2, Zenon
  <2> QED
    BY <2>2, Zenon DEF Ending, Flagged
<1>9. ASSUME b PROVE Ending'
  <2>1. 1 \in DOMAIN frames'[t] /\ frames'[t][1]
    BY <1>2, <1>9
  <2> QED
    BY <2>1, Zenon DEF Ending, Flagged
<1> QED
  BY <1>2, <1>6, <1>7, <1>8, <1>9, Zenon DEF Top

\* forw_start_next returns, having said what it had to say.
LEMMA FlagPop ==
  ASSUME frames \in [Threads -> Seq(BOOLEAN)], NEW t \in Threads, OneFlag,
         frames[t] # <<>>, ~Top(t),
         frames' = [frames EXCEPT ![t] = Tail(@)]
  PROVE  OneFlag' /\ (Ending' <=> Ending)
<1>1. /\ frames[t] \in Seq(BOOLEAN) /\ frames'[t] = Tail(frames[t])
      /\ \A u \in Threads \ {t} : frames'[u] = frames[u]
  BY Zenon
<1>2. /\ Len(frames[t]) \in Nat /\ DOMAIN frames[t] = 1 .. Len(frames[t])
      /\ DOMAIN frames'[t] = 1 .. (Len(frames[t]) - 1) /\ frames[t][1] = FALSE
      /\ \A i \in 1 .. (Len(frames[t]) - 1) : frames'[t][i] = frames[t][i + 1]
  BY <1>1, FrameBack, Zenon DEF Top
<1>3. ASSUME NEW u \in Threads, NEW i \in DOMAIN frames'[u]
      PROVE  \/ u # t /\ i \in DOMAIN frames[u] /\ frames'[u][i] = frames[u][i]
             \/ /\ u = t /\ i \in Int /\ i + 1 \in DOMAIN frames[u]
                /\ frames'[u][i] = frames[u][i + 1]
  BY <1>1, <1>2
<1>4. ASSUME NEW u \in Threads, NEW v \in Threads, NEW i \in DOMAIN frames'[u],
             NEW j \in DOMAIN frames'[v], frames'[u][i], frames'[v][j]
      PROVE  u = v /\ i = j
  <2>1. \/ u # t /\ i \in DOMAIN frames[u] /\ frames[u][i]
        \/ u = t /\ i \in Int /\ i + 1 \in DOMAIN frames[u] /\ frames[u][i + 1]
    BY <1>3, <1>4
  <2>2. \/ v # t /\ j \in DOMAIN frames[v] /\ frames[v][j]
        \/ v = t /\ j \in Int /\ j + 1 \in DOMAIN frames[v] /\ frames[v][j + 1]
    BY <1>3, <1>4, Zenon
  <2>3. u = v
    BY <2>1, <2>2, Zenon DEF OneFlag
  <2>4. CASE u # t
    BY <2>1, <2>2, <2>3, <2>4, Zenon DEF OneFlag
  <2>5. CASE u = t
    <3>1. i + 1 = j + 1 /\ i \in Int /\ j \in Int
      BY <2>1, <2>2, <2>3, <2>5, Zenon DEF OneFlag
    <3> QED
      BY <2>3, <3>1
  <2> QED
    BY <2>3, <2>4, <2>5, Zenon
<1>5. OneFlag'
  BY <1>4 DEF OneFlag
<1>6. ASSUME Ending' PROVE Ending
  BY <1>3, <1>6, Zenon DEF Ending, Flagged
<1>7. ASSUME Ending PROVE Ending'
  <2>1. PICK u \in Threads : \E i \in DOMAIN frames[u] : frames[u][i]
    BY <1>7, Zenon DEF Ending, Flagged
  <2>2. \E i \in DOMAIN frames'[u] : frames'[u][i]
    <3>1. CASE u = t
      <4>1. PICK i \in 1 .. Len(frames[t]) : frames[t][i]
        BY <1>2, <2>1, <3>1, Zenon
      <4>2. i - 1 \in DOMAIN frames'[t] /\ i - 1 + 1 = i
        BY <1>2, <4>1
      <4>3. frames'[t][i - 1]
        BY <1>2, <4>1, <4>2, Zenon
      <4> QED
        BY <3>1, <4>2, <4>3, Zenon
    <3>2. CASE u # t
      BY <1>1, <2>1, <3>2, Zenon
    <3> QED
      BY <3>1, <3>2, Zenon
  <2> QED
    BY <2>2, Zenon DEF Ending, Flagged
<1> QED
  BY <1>5, <1>6, <1>7, Zenon

\* done_oq_flush: the frame that ended the flush has said so.
LEMMA FlagDrop ==
  ASSUME frames \in [Threads -> Seq(BOOLEAN)], NEW t \in Threads, OneFlag,
         frames[t] # <<>>, Top(t),
         frames' = [frames EXCEPT ![t] = <<FALSE>> \o Tail(@)]
  PROVE  OneFlag' /\ ~Ending' /\ Ending /\ ~Top(t)'
<1>1. /\ frames[t] \in Seq(BOOLEAN) /\ frames'[t] = <<FALSE>> \o Tail(frames[t])
      /\ \A u \in Threads \ {t} : frames'[u] = frames[u]
  BY Zenon
<1>2. /\ Tail(frames[t]) \in Seq(BOOLEAN)
      /\ Len(frames[t]) \in Nat /\ DOMAIN frames[t] = 1 .. Len(frames[t])
      /\ DOMAIN Tail(frames[t]) = 1 .. (Len(frames[t]) - 1)
      /\ frames[t][1] = TRUE /\ Len(frames[t]) > 0
      /\ \A i \in 1 .. (Len(frames[t]) - 1) : Tail(frames[t])[i] = frames[t][i + 1]
  BY <1>1, FrameBack, Zenon DEF Top
<1>3. 1 \in DOMAIN frames[t]
  BY <1>2
<1>4. ASSUME NEW i \in DOMAIN frames'[t] PROVE ~frames'[t][i]
  <2>1. /\ DOMAIN frames'[t] = 1 .. (Len(Tail(frames[t])) + 1)
        /\ Len(Tail(frames[t])) = Len(frames[t]) - 1
        /\ frames'[t][1] = FALSE
        /\ \A j \in 2 .. (Len(Tail(frames[t])) + 1) :
             frames'[t][j] = Tail(frames[t])[j - 1]
    BY <1>1, <1>2, FramePush, LenFacts
  <2>2. CASE i # 1
    <3>1. i - 1 \in 1 .. (Len(frames[t]) - 1) /\ i - 1 + 1 = i /\ i \in DOMAIN frames[t]
      BY <1>2, <2>1, <2>2
    <3>2. frames'[t][i] = frames[t][i]
      BY <1>2, <2>1, <2>2, <3>1
    <3> QED
      BY <1>2, <1>3, <2>2, <3>1, <3>2 DEF OneFlag
  <2> QED
    BY <2>1, <2>2, Zenon
<1>5. ASSUME NEW u \in Threads \ {t}, NEW i \in DOMAIN frames'[u] PROVE ~frames'[u][i]
  BY <1>1, <1>2, <1>3, Zenon DEF OneFlag
<1>6. Head(frames'[t]) = FALSE
  BY <1>1, <1>2, FramePush, Zenon
<1> QED
  BY <1>2, <1>3, <1>4, <1>5, <1>6, Zenon DEF OneFlag, Ending, Flagged, Top

FlushTypes ==
  /\ pc \in [Threads -> Locations] /\ frames \in [Threads -> Seq(BOOLEAN)]
  /\ oqflush_counter \in Int /\ oqflushing \in BOOLEAN
  /\ osetflushing \in BOOLEAN /\ curflush \in BOOLEAN

\* A step that leaves the references of the flush alone; the thread that
\* flushes moves only while it starts.
LEMMA CountQuiet ==
  ASSUME FlushCount,
         UNCHANGED <<oqflushing, osetflushing, oqflush_counter, curflush, frames>>,
         \/ pc'[Flusher] = pc[Flusher]
         \/ /\ pc[Flusher] \notin {"idle", "drop", "wait"}
            /\ pc'[Flusher] \notin {"idle", "wait"},
         \A u \in Threads : pc'[u] = "progress" => pc[u] = "progress" \/ ~Top(u)
  PROVE  FlushCount'
<1>1. (Ending' <=> Ending) /\ (OneFlag' <=> OneFlag)
  BY DEF Ending, Flagged, OneFlag
<1>2. OneFlag
  BY Zenon DEF FlushCount, OneFlag
<1>3. \A u \in Threads : pc'[u] = "progress" => ~Head(frames'[u])
  BY Zenon DEF FlushCount, Top
<1>4. /\ curflush' <=> pc'[Flusher] # "idle"
      /\ oqflushing' \/ Ending' => pc'[Flusher] \in {"drop", "wait"}
      /\ ~(oqflushing' /\ Ending')
      /\ oqflush_counter' = (IF pc'[Flusher] \in {"idle", "wait"} THEN 0 ELSE 1)
                              + (IF oqflushing' \/ Ending' THEN 1 ELSE 0)
      /\ osetflushing' <=> oqflush_counter' > 0
  BY <1>1, Zenon DEF FlushCount
<1>5. OneFlag'
  BY <1>1, <1>2, Zenon
<1> QED
  BY <1>3, <1>4, <1>5, Zenon DEF FlushCount, OneFlag

\* forw_start_next begins, and may end the flush of the queue.
LEMMA CountStartNext ==
  ASSUME FlushTypes, FlushCount, NEW t \in Threads, StartNext(t)
  PROVE  FlushCount'
<1> DEFINE fd == OnFlushOutput(t) /\ Pos(oput[t]) = 1
<1>1. /\ pc[t] = "next" /\ Goto(t, "pull")
      /\ oqflushing' = (oqflushing /\ ~fd)
      /\ frames' = [frames EXCEPT ![t] = <<fd>> \o @]
      /\ UNCHANGED <<osetflushing, oqflush_counter, curflush>>
  BY Zenon DEF StartNext, flusherVars
<1>2. fd \in BOOLEAN /\ (fd => oqflushing)
  BY Zenon DEF OnFlushOutput
<1> HIDE DEF fd
<1>3. OneFlag /\ (fd => ~Ending)
  BY <1>2, Zenon DEF FlushCount, OneFlag
<1>4. OneFlag' /\ (Ending' <=> fd \/ Ending)
  BY <1>1, <1>2, <1>3, FlagPush, Zenon DEF FlushTypes
<1>5. oqflushing' \/ Ending' <=> oqflushing \/ Ending
  BY <1>1, <1>2, <1>4, Zenon
<1>6. /\ pc'[t] = "pull" /\ \A u \in Threads \ {t} : pc'[u] = pc[u]
      /\ \A u \in Threads \ {t} : frames'[u] = frames[u]
  BY <1>1, Zenon DEF Goto, FlushTypes
<1>7. \A u \in Threads : pc'[u] = "progress" => ~Head(frames'[u])
  BY <1>6, Zenon DEF FlushCount
<1>8. \/ pc'[Flusher] = pc[Flusher]
      \/ pc[Flusher] = "next" /\ pc'[Flusher] = "pull"
  BY <1>1, <1>6, ThreadFacts, Zenon
<1>9. /\ curflush' <=> pc'[Flusher] # "idle"
      /\ oqflushing' \/ Ending' => pc'[Flusher] \in {"drop", "wait"}
      /\ ~(oqflushing' /\ Ending')
      /\ oqflush_counter' = (IF pc'[Flusher] \in {"idle", "wait"} THEN 0 ELSE 1)
                              + (IF oqflushing' \/ Ending' THEN 1 ELSE 0)
      /\ osetflushing' <=> oqflush_counter' > 0
  BY <1>1, <1>2, <1>3, <1>4, <1>5, <1>8, Zenon DEF FlushCount
<1> QED
  BY <1>4, <1>7, <1>9, Zenon DEF FlushCount, OneFlag

\* done_oq_flush drops the queue's reference.
LEMMA CountDone ==
  ASSUME FlushTypes, FlushCount, LocalInv, NEW t \in Threads, DoneOqFlush(t)
  PROVE  FlushCount'
<1>1. /\ pc[t] = "done" /\ Goto(t, "progress") /\ frames[t] # <<>>
      /\ UNCHANGED <<oqflushing, curflush>>
      /\ frames' = [frames EXCEPT ![t] = <<FALSE>> \o Tail(@)]
  BY Zenon DEF DoneOqFlush, flushVars, LocalInv, InNext
<1>2. /\ pc'[t] = "progress" /\ \A u \in Threads \ {t} : pc'[u] = pc[u]
  BY <1>1, Zenon DEF Goto, FlushTypes
<1>3. \/ pc'[Flusher] = pc[Flusher]
      \/ pc[Flusher] = "done" /\ pc'[Flusher] = "progress"
  BY <1>1, <1>2, ThreadFacts, Zenon
<1>4. CASE Top(t)
  <2>1. /\ oqflush_counter' = oqflush_counter - 1
        /\ osetflushing' = (osetflushing /\ oqflush_counter' > 0)
    BY <1>4, Zenon DEF DoneOqFlush, Top
  <2>2. OneFlag
    BY Zenon DEF FlushCount, OneFlag
  <2>3. OneFlag' /\ ~Ending' /\ Ending /\ ~Top(t)'
    BY <1>1, <1>4, <2>2, FlagDrop, Zenon DEF FlushTypes
  <2>4. \A u \in Threads \ {t} : frames'[u] = frames[u]
    BY <1>1, Zenon DEF FlushTypes
  <2>5. \A u \in Threads : pc'[u] = "progress" => ~Head(frames'[u])
    BY <1>2, <2>3, <2>4, Zenon DEF FlushCount, Top
  <2>6. /\ curflush' <=> pc'[Flusher] # "idle"
        /\ oqflushing' \/ Ending' => pc'[Flusher] \in {"drop", "wait"}
        /\ ~(oqflushing' /\ Ending')
        /\ oqflush_counter' = (IF pc'[Flusher] \in {"idle", "wait"} THEN 0 ELSE 1)
                                + (IF oqflushing' \/ Ending' THEN 1 ELSE 0)
        /\ osetflushing' <=> oqflush_counter' > 0
    <3>1. /\ pc[Flusher] \in {"drop", "wait"} /\ ~oqflushing
          /\ curflush <=> pc[Flusher] # "idle"
          /\ oqflush_counter = (IF pc[Flusher] = "wait" THEN 0 ELSE 1) + 1
          /\ osetflushing <=> oqflush_counter > 0
      BY <2>3, Zenon DEF FlushCount
    <3>2. pc'[Flusher] = pc[Flusher] /\ ~oqflushing'
      BY <1>1, <1>3, <3>1, Zenon
    <3>3. oqflush_counter' = IF pc[Flusher] = "wait" THEN 0 ELSE 1
      BY <2>1, <3>1
    <3>4. osetflushing' <=> oqflush_counter' > 0
      <4>1. oqflush_counter > 0
        BY <3>1
      <4> QED
        BY <2>1, <3>1, <4>1, Zenon
    <3> QED
      BY <1>1, <2>3, <3>1, <3>2, <3>3, <3>4
  <2> QED
    BY <2>3, <2>5, <2>6, Zenon DEF FlushCount, OneFlag
<1>5. CASE ~Top(t)
  <2>1. oqflush_counter' = oqflush_counter /\ osetflushing' = osetflushing
    BY <1>5, Zenon DEF DoneOqFlush, Top
  <2>2. frames[t] \in Seq(BOOLEAN) /\ Head(frames[t]) \in BOOLEAN
    BY <1>1, FrameBack, Zenon DEF FlushTypes
  <2>3. <<FALSE>> \o Tail(frames[t]) = frames[t]
    BY <1>1, <1>5, <2>2, FrameBack, Zenon DEF Top
  <2>4. frames' = frames
    BY <1>1, <2>3, Zenon DEF FlushTypes
  <2> QED
    BY <1>1, <1>2, <1>3, <1>5, <2>1, <2>4, CountQuiet, Zenon
<1> QED
  BY <1>4, <1>5, Zenon

\* forw_start_next returns.
LEMMA CountProgress ==
  ASSUME FlushTypes, FlushCount, LocalInv, NEW t \in Threads, Progress(t)
  PROVE  FlushCount'
<1>1. /\ pc[t] = "progress" /\ frames[t] # <<>>
      /\ Goto(t, Continue(t, Tail(frames[t])))
      /\ UNCHANGED <<oqflushing, osetflushing, oqflush_counter, curflush>>
      /\ frames' = [frames EXCEPT ![t] = Tail(@)]
  BY Zenon DEF Progress, flushVars, flusherVars, LocalInv, InNext
<1>2. OneFlag /\ ~Top(t)
  BY <1>1, Zenon DEF FlushCount, OneFlag, Top
<1>3. OneFlag' /\ (Ending' <=> Ending)
  BY <1>1, <1>2, FlagPop, Zenon DEF FlushTypes
<1>4. /\ pc'[t] # "progress" /\ \A u \in Threads \ {t} : pc'[u] = pc[u]
      /\ \A u \in Threads \ {t} : frames'[u] = frames[u]
      /\ t = Flusher => pc'[t] \notin {"idle", "wait"}
  BY <1>1, ThreadFacts, Zenon DEF Goto, FlushTypes, Continue, Return
<1>5. \A u \in Threads : pc'[u] = "progress" => ~Head(frames'[u])
  BY <1>4, Zenon DEF FlushCount
<1>6. \/ pc'[Flusher] = pc[Flusher]
      \/ pc[Flusher] = "progress" /\ pc'[Flusher] \notin {"idle", "wait"}
  BY <1>1, <1>4, ThreadFacts, Zenon
<1>7. /\ curflush' <=> pc'[Flusher] # "idle"
      /\ oqflushing' \/ Ending' => pc'[Flusher] \in {"drop", "wait"}
      /\ ~(oqflushing' /\ Ending')
      /\ oqflush_counter' = (IF pc'[Flusher] \in {"idle", "wait"} THEN 0 ELSE 1)
                              + (IF oqflushing' \/ Ending' THEN 1 ELSE 0)
      /\ osetflushing' <=> oqflush_counter' > 0
  BY <1>1, <1>3, <1>6, Zenon DEF FlushCount
<1> QED
  BY <1>3, <1>5, <1>7, Zenon DEF FlushCount, OneFlag

\* Steps of shuffler_flush_qs that change the references.
RefStep ==
  \/ /\ pc[Flusher] = "idle" /\ pc'[Flusher] = "startq"
     /\ curflush' = TRUE /\ osetflushing' = TRUE /\ oqflush_counter' = 1
     /\ oqflushing' = oqflushing
  \/ /\ pc[Flusher] \in {"startq", "outs"} /\ pc'[Flusher] = "drop"
     /\ oqflushing' = TRUE /\ oqflush_counter' = oqflush_counter + 1
     /\ UNCHANGED <<osetflushing, curflush>>
  \/ /\ pc[Flusher] = "drop" /\ pc'[Flusher] = "wait"
     /\ oqflush_counter' = oqflush_counter - 1
     /\ osetflushing' = (osetflushing /\ oqflush_counter' # 0)
     /\ UNCHANGED <<oqflushing, curflush>>
  \/ /\ pc[Flusher] = "wait" /\ pc'[Flusher] = "idle"
     /\ osetflushing = FALSE /\ curflush' = FALSE
     /\ UNCHANGED <<oqflushing, oqflush_counter, osetflushing>>
LEMMA CountFlush ==
  ASSUME FlushTypes, FlushCount, UNCHANGED frames, RefStep,
         \A u \in Threads \ {Flusher} : pc'[u] = pc[u]
  PROVE  FlushCount'
<1>1. (Ending' <=> Ending) /\ (OneFlag' <=> OneFlag)
  BY DEF Ending, Flagged, OneFlag
<1>2. \A u \in Threads : pc'[u] = "progress" => ~Head(frames'[u])
  BY Zenon DEF FlushCount, RefStep
<1>3. OneFlag
  BY Zenon DEF FlushCount, OneFlag
<1>4. /\ curflush <=> pc[Flusher] # "idle"
      /\ oqflushing \/ Ending => pc[Flusher] \in {"drop", "wait"}
      /\ ~(oqflushing /\ Ending)
      /\ oqflush_counter = (IF pc[Flusher] \in {"idle", "wait"} THEN 0 ELSE 1)
                              + (IF oqflushing \/ Ending THEN 1 ELSE 0)
      /\ osetflushing <=> oqflush_counter > 0
  BY Zenon DEF FlushCount
<1>5. /\ curflush' <=> pc'[Flusher] # "idle"
      /\ oqflushing' \/ Ending' => pc'[Flusher] \in {"drop", "wait"}
      /\ ~(oqflushing' /\ Ending')
  BY <1>1, <1>4 DEF RefStep
<1>6. oqflush_counter' = (IF pc'[Flusher] \in {"idle", "wait"} THEN 0 ELSE 1)
                          + (IF oqflushing' \/ Ending' THEN 1 ELSE 0)
  BY <1>1, <1>4 DEF RefStep
<1>7. osetflushing' <=> oqflush_counter' > 0
  <2>1. CASE pc[Flusher] = "drop"
    <3>1. oqflush_counter > 0 /\ (oqflush_counter - 1 # 0 <=> oqflush_counter - 1 > 0)
      BY <1>4, <2>1
    <3>2. /\ oqflush_counter' = oqflush_counter - 1
          /\ osetflushing' = (osetflushing /\ oqflush_counter' # 0)
      BY <2>1, Zenon DEF RefStep
    <3> QED
      BY <1>4, <3>1, <3>2, Zenon
  <2>2. CASE pc[Flusher] # "drop"
    <3>1. oqflush_counter > 0 => oqflush_counter + 1 > 0
      BY DEF FlushTypes
    <3>2. pc[Flusher] \in {"startq", "outs"} => oqflush_counter > 0
      BY <1>4
    <3> QED
      BY <1>4, <2>2, <3>1, <3>2 DEF RefStep
  <2> QED
    BY <2>1, <2>2, Zenon
<1> QED
  BY <1>1, <1>2, <1>3, <1>5, <1>6, <1>7, Zenon DEF FlushCount, OneFlag

\* Every step keeps the references of the flush.
LEMMA CountStep == IndInv /\ [Next]_vars => FlushCount'
<1> SUFFICES ASSUME IndInv, [Next]_vars PROVE FlushCount'
  BY Zenon
<1>0. TypeOK /\ LocalInv /\ FlushCount /\ OutputOwned
  BY Zenon DEF IndInv
<1>1. FlushTypes
  BY <1>0, Zenon DEF TypeOK, FlushTypes
<1> USE <1>0, <1>1
<1>2. ASSUME NEW t \in Senders, NEW l, Goto(t, l), l # "progress",
             UNCHANGED <<flushVars, flusherVars, frames>>
      PROVE  FlushCount'
  <2>1. pc'[Flusher] = pc[Flusher] /\ \A u \in Threads : pc'[u] = "progress" => pc[u] = "progress"
    BY <1>2, ThreadFacts, Zenon DEF Goto, FlushTypes
  <2> QED
    BY <1>2, <2>1, CountQuiet, Zenon DEF flushVars, flusherVars
<1>3. ASSUME NEW t \in Senders, NEW r \in Reqs, Send(t, r) \/ Relay(t, r) PROVE FlushCount'
  <2>1. \E l \in {"limit", "enqueue"} : Goto(t, l)
    BY <1>3, Zenon DEF Send, Relay
  <2>2. UNCHANGED <<flushVars, flusherVars, frames>>
    BY <1>3, Zenon DEF Send, Relay
  <2> QED
    BY <1>2, <2>1, <2>2, Zenon
<1>4. ASSUME NEW t \in Senders, SenderStep(t) PROVE FlushCount'
  <2>1. \E l \in {"enqueue", "create", "park", "reply", "blocked", "idle", "outs"} : Goto(t, l)
    BY <1>4, Zenon DEF SenderStep, PassLimit, EnqueueNow, EnqueueWait, Park,
       Wakeup, Reply, Return
  <2>2. UNCHANGED <<flushVars, flusherVars, frames>>
    BY <1>4, Zenon DEF SenderStep, PassLimit, EnqueueNow, EnqueueWait, Park,
       Wakeup, Reply
  <2> QED
    BY <1>2, <2>1, <2>2, Zenon
<1>5. ASSUME NEW t \in Threads, ForwardStep(t) \/ ForwardFail(t) PROVE FlushCount'
  <2>1. CASE StartNext(t)
    BY <2>1, CountStartNext, Zenon
  <2>2. CASE DoneOqFlush(t)
    BY <2>2, CountDone, Zenon
  <2>3. CASE Progress(t)
    BY <2>3, CountProgress, Zenon
  <2>4. ASSUME NEW l, Goto(t, l), pc[t] \in Forwarding, l # "progress",
               l \in Forwarding \cup {Return(t)},
               UNCHANGED <<oqflushing, flusherVars, frames>>
        PROVE  FlushCount'
    <3>1. /\ pc'[t] = l /\ \A u \in Threads \ {t} : pc'[u] = pc[u]
          /\ t = Flusher => l \notin {"idle", "wait"}
      BY <2>4, ThreadFacts, Zenon DEF Goto, FlushTypes, Forwarding, Return
    <3> QED
      BY <2>4, <3>1, CountQuiet, ThreadFacts, Zenon DEF flusherVars, Forwarding
  <2>5. CASE Track(t)
    <3>1. outs # <<>>
      <4>1. oput[t] \in Range(outs)
        BY <2>5, Zenon DEF OutputOwned, Track, Holds
      <4> QED
        BY <4>1 DEF Range
    <3>2. /\ pc[t] = "track" /\ Goto(t, "create") /\ frames[t] # <<>>
          /\ frames[t] \in Seq(BOOLEAN) /\ flusherVars' = flusherVars
      BY <2>5, Zenon DEF Track, LocalInv, InNext, FlushTypes
    <3>3. oqflushing' = oqflushing
      BY <2>5, <3>1, Zenon DEF Track, FlushTypes
    <3>4. frames' = frames
      <4>1. frames' = [frames EXCEPT ![t] = <<Head(@) \/ outs = <<>> >> \o Tail(@)]
        BY <2>5, Zenon DEF Track
      <4>2. (Head(frames[t]) \/ outs = <<>>) = Head(frames[t])
        BY <3>1, <3>2, FrameBack, Zenon
      <4>3. <<Head(frames[t]) \/ outs = <<>> >> \o Tail(frames[t]) = frames[t]
        BY <3>2, <4>2, FrameBack, Zenon
      <4> QED
        BY <4>1, <4>3, Zenon DEF FlushTypes
    <3> QED
      BY <2>4, <3>2, <3>3, <3>4, Zenon DEF Forwarding
  <2>6. CASE CreateHandle(t) \/ Launch(t) \/ PullEnd(t) \/ StopWait(t) \/ ForwardFail(t)
    <3>1. /\ pc[t] \in Forwarding
          /\ \E l \in (Forwarding \cup {Return(t)}) \ {"progress"} : Goto(t, l)
      BY <2>6, Zenon DEF ForwardFail, CreateHandle, CreateFail, Launch,
         LaunchFail, PullEnd, StopWait, Continue, AfterPull, Forwarding, Return
    <3>2. UNCHANGED <<oqflushing, flusherVars, frames>>
      BY <2>6, Zenon DEF ForwardFail, CreateHandle, CreateFail, Launch,
         LaunchFail, PullEnd, StopWait, flushVars
    <3> QED
      BY <2>4, <3>1, <3>2, Zenon
  <2>7. CASE PullOne(t)
    <3>1. /\ pc[t] = "pull" /\ UNCHANGED <<oqflushing, flusherVars, frames>>
          /\ \/ pc' = pc
             \/ Goto(t, AfterPull(t, oput'[t], flushloadingnow'[t]))
      BY <2>7, Zenon DEF PullOne
    <3>2. \E l \in Forwarding \ {"progress"} : Goto(t, l)
      BY <3>1, Zenon DEF AfterPull, Forwarding, Goto, FlushTypes
    <3> QED
      BY <2>4, <3>1, <3>2, Zenon DEF Forwarding
  <2> QED
    BY <1>5, <2>1, <2>2, <2>3, <2>5, <2>6, <2>7, Zenon DEF ForwardStep
<1>6. ASSUME NEW b \in inflight, CompletionOK(b) \/ CompletionErr(b) PROVE FlushCount'
  <2>1. Goto(Net, "next") /\ UNCHANGED <<flushVars, flusherVars, frames>>
    BY <1>6, Zenon DEF CompletionOK, CompletionErr, Completion
  <2>2. pc'[Flusher] = pc[Flusher] /\ \A u \in Threads : pc'[u] = "progress" => pc[u] = "progress"
    BY <2>1, ThreadFacts, Zenon DEF Goto, FlushTypes
  <2> QED
    BY <2>1, <2>2, CountQuiet, Zenon DEF flushVars, flusherVars
<1>7. ASSUME AquireFlush \/ FlushStep PROVE FlushCount'
  <2>1. frames' = frames /\ \E l \in Locations : Goto(Flusher, l)
    BY <1>7, Zenon DEF AquireFlush, FlushStep, StartWaitq, StartLoading,
       StartOuts, DropRef, FlushReturn, Locations
  <2>2. \A u \in Threads \ {Flusher} : pc'[u] = pc[u]
    BY <2>1, Zenon DEF Goto, FlushTypes
  <2>3. ASSUME NEW l, Goto(Flusher, l) PROVE pc'[Flusher] = l
    BY <2>3, ThreadFacts, Zenon DEF Goto, FlushTypes
  <2>4. CASE AquireFlush
    BY <2>1, <2>2, <2>3, <2>4, CountFlush, Zenon DEF RefStep, AquireFlush,
       flushVars
  <2>5. CASE StartWaitq
    BY <2>1, <2>2, <2>3, <2>5, CountFlush, Zenon DEF RefStep, StartWaitq,
       StartWaiting
  <2>6. CASE StartOuts /\ outs # <<>>
    BY <2>1, <2>2, <2>3, <2>6, CountFlush, Zenon DEF RefStep, StartOuts,
       StartWaiting
  <2>7. CASE DropRef
    BY <2>1, <2>2, <2>3, <2>7, CountFlush, Zenon DEF RefStep, DropRef,
       flushVars
  <2>8. CASE FlushReturn
    <3>1. osetflushing = FALSE
      BY <2>8, Zenon DEF FlushReturn, FlushTypes
    <3> QED
      BY <2>1, <2>2, <2>3, <2>8, <3>1, CountFlush, Zenon DEF RefStep,
         FlushReturn, flushVars
  <2>9. CASE StartLoading \/ (StartOuts /\ outs = <<>>)
    <3>1. /\ pc[Flusher] \in {"startq", "outs"} /\ pc'[Flusher] \in {"create", "drop"}
          /\ UNCHANGED <<oqflushing, osetflushing, oqflush_counter, curflush>>
      BY <2>3, <2>9, Zenon DEF StartLoading, StartOuts, flushVars, flusherVars
    <3>2. \A u \in Threads : pc'[u] = "progress" => pc[u] = "progress"
      BY <2>2, <3>1, Zenon
    <3> QED
      BY <2>1, <3>1, <3>2, CountQuiet, Zenon
  <2> QED
    BY <1>7, <2>4, <2>5, <2>6, <2>7, <2>8, <2>9, Zenon DEF FlushStep
<1>8. ASSUME UNCHANGED vars PROVE FlushCount'
  BY <1>8, CountQuiet, Zenon DEF vars, flushVars, flusherVars, threadVars
<1> QED
  BY <1>2, <1>3, <1>4, <1>5, <1>6, <1>7, <1>8, Zenon DEF Next, Quiescent

-----------------------------------------------------------------------------
\* A completed RPC has an outcome; batches of no bytes.

LEMMA SizesSame ==
  ASSUME Finished, UNCHANGED <<loading, loadsize>>
  PROVE  loadsize' = 0 => \A i \in DOMAIN loading' : Size[loading'[i]] = 0
BY Zenon DEF Finished

LEMMA SizesAppend ==
  ASSUME loading \in Seq(Reqs), loadsize \in Nat, Finished, NEW t \in Threads,
         NEW r \in Reqs, AppendReq(t, r)
  PROVE  loadsize' = 0 => \A i \in DOMAIN loading' : Size[loading'[i]] = 0
<1>1. CASE QueueReq(t, r)
  <2>1. /\ loading' = Append(loading, r) /\ loadsize' = loadsize + Size[r]
        /\ Size[r] \in Nat
    BY <1>1, ConfigFacts, Zenon DEF QueueReq
  <2>2. /\ Len(loading) \in Nat /\ DOMAIN loading = 1 .. Len(loading)
        /\ DOMAIN loading' = 1 .. (Len(loading) + 1)
        /\ \A i \in 1 .. Len(loading) : loading'[i] = loading[i]
        /\ loading'[Len(loading) + 1] = r
    BY <2>1, AppendFacts, LenFacts
  <2>3. loadsize' = 0 => loadsize = 0 /\ Size[r] = 0
    BY <2>1
  <2>4. \A i \in DOMAIN loading' : i \in DOMAIN loading \/ i = Len(loading) + 1
    BY <2>2
  <2> QED
    BY <2>2, <2>3, <2>4, Zenon DEF Finished
<1>2. CASE ~QueueReq(t, r)
  <2>1. loading' = <<>>
    BY <1>2, Zenon DEF AppendReq, SendBatch
  <2> QED
    BY <2>1
<1> QED
  BY <1>1, <1>2, Zenon

LEMMA SizesFlush ==
  ASSUME Finished, NEW t \in Threads, FlushLoading(t)
  PROVE  loadsize' = 0 => \A i \in DOMAIN loading' : Size[loading'[i]] = 0
<1>1. UNCHANGED <<loading, loadsize>> \/ loading' = <<>>
  BY Zenon DEF FlushLoading, SendBatch
<1> QED
  BY <1>1, SizesSame

\* Every step keeps that.
LEMMA FinishedStep == IndInv /\ Next => Finished'
<1> SUFFICES ASSUME IndInv, Next PROVE Finished'
  BY Zenon
<1>0. TypeOK /\ LocalInv /\ Finished
  BY Zenon DEF IndInv
<1>1. /\ loading \in Seq(Reqs) /\ loadsize \in Nat /\ oqwaitq \in Seq(Reqs)
      /\ pc \in [Threads -> Locations] /\ oput \in [Threads -> Batches]
  BY <1>0, Zenon DEF TypeOK
<1>2. acked \subseteq acked' /\ lost \subseteq lost'
  BY Zenon DEF Next, Send, Relay, SenderStep, PassLimit, EnqueueNow, EnqueueWait, Park, Wakeup,
    Reply, ForwardStep, ForwardFail, CreateHandle, CreateFail, Launch, LaunchFail, StartNext,
    PullOne, PullEnd, StopWait, Track, DoneOqFlush, Progress, CompletionOK, CompletionErr,
    AquireFlush, FlushStep, StartWaitq, StartLoading, StartOuts, DropRef, FlushReturn,
    Quiescent, vars, histVars
<1>3. \/ UNCHANGED <<loading, loadsize>>
      \/ \E t \in Threads, r \in Reqs : AppendReq(t, r)
      \/ \E t \in Threads : FlushLoading(t)
  <2>1. ASSUME NEW t \in Senders, EnqueueNow(t) PROVE \E r \in Reqs : AppendReq(t, r)
    BY <1>0, <2>1, Zenon DEF EnqueueNow, LocalInv
  <2>2. ASSUME NEW t \in Threads, PullOne(t) PROVE \E r \in Reqs : AppendReq(t, r)
    BY <1>1, <2>2, RangeHeadTail, Zenon DEF PullOne
  <2>3. ASSUME NEW t \in Senders, NEW r \in Reqs, Send(t, r) \/ Relay(t, r)
        PROVE  UNCHANGED <<loading, loadsize>>
    BY <2>3, Zenon DEF Send, Relay, queueVars
  <2>4. ASSUME NEW t \in Senders, SenderStep(t), ~EnqueueNow(t)
        PROVE  UNCHANGED <<loading, loadsize>>
    BY <2>4, Zenon DEF SenderStep, PassLimit, EnqueueWait, Park, Wakeup, Reply,
       queueVars
  <2>5. ASSUME NEW t \in Threads, ForwardStep(t) \/ ForwardFail(t), ~PullOne(t)
        PROVE  UNCHANGED <<loading, loadsize>> \/ FlushLoading(t)
    BY <2>5, Zenon DEF ForwardStep, ForwardFail, CreateHandle, CreateFail,
       Launch, LaunchFail, StartNext, PullEnd, StopWait, Track, DoneOqFlush,
       Progress, queueVars
  <2>6. ASSUME NEW b \in inflight, CompletionOK(b) \/ CompletionErr(b)
        PROVE  UNCHANGED <<loading, loadsize>>
    BY <2>6, Zenon DEF CompletionOK, CompletionErr, Completion, queueVars
  <2>7. ASSUME AquireFlush \/ FlushStep \/ Quiescent
        PROVE  UNCHANGED <<loading, loadsize>> \/ FlushLoading(Flusher)
    BY <2>7, Zenon DEF AquireFlush, FlushStep, StartWaitq, StartLoading,
       StartOuts, DropRef, FlushReturn, Quiescent, vars, queueVars
  <2> QED
    BY <2>1, <2>2, <2>3, <2>4, <2>5, <2>6, <2>7, ThreadFacts, Zenon DEF Next
<1>4. loadsize' = 0 => \A i \in DOMAIN loading' : Size[loading'[i]] = 0
  BY <1>0, <1>1, <1>3, SizesSame, SizesAppend, SizesFlush, Zenon
<1>5. ASSUME NEW u \in Threads, pc'[u] = "next" PROVE Range(oput'[u]) \subseteq acked' \cup lost'
  <2>1. CASE \E b \in inflight : CompletionOK(b) \/ CompletionErr(b)
    <3>1. PICK b \in inflight : CompletionOK(b) \/ CompletionErr(b)
      BY <2>1, Zenon
    <3>2. /\ oput' = [oput EXCEPT ![Net] = b] /\ Goto(Net, "next")
          /\ Range(b) \subseteq acked' \cup lost'
      BY <3>1, Zenon DEF CompletionOK, CompletionErr, Completion
    <3>3. CASE u = Net
      BY <1>1, <3>2, <3>3, Zenon
    <3>4. CASE u # Net
      BY <1>0, <1>1, <1>2, <1>5, <3>2, <3>4, Zenon DEF Finished, Goto
    <3> QED
      BY <3>3, <3>4, Zenon
  <2>2. CASE CreateFail(u) \/ LaunchFail(u)
    BY <2>2, Zenon DEF CreateFail, LaunchFail
  <2>3. CASE pc[u] = "next" /\ oput'[u] = oput[u]
    BY <1>0, <1>2, <2>3, Zenon DEF Finished
  <2>4. ASSUME NEW t \in Threads, NEW l, l # "next", Goto(t, l), \A v \in Threads \ {t} : oput'[v] = oput[v]
        PROVE  pc[u] = "next" /\ oput'[u] = oput[u]
    BY <1>1, <1>5, <2>4, Zenon DEF Goto
  <2>5. ASSUME NEW t \in Senders, NEW r \in Reqs, Send(t, r) \/ Relay(t, r)
        PROVE  pc[u] = "next" /\ oput'[u] = oput[u]
    <3>1. \E l \in {"limit", "enqueue"} : Goto(t, l)
      BY <2>5, Zenon DEF Send, Relay
    <3> QED
      BY <2>4, <2>5, <3>1, ThreadFacts, Zenon DEF Send, Relay
  <2>6. ASSUME NEW t \in Senders, SenderStep(t) PROVE pc[u] = "next" /\ oput'[u] = oput[u]
    <3>1. \E l \in {"enqueue", "create", "park", "reply", "blocked", "idle", "outs"} : Goto(t, l)
      BY <2>6, Zenon DEF SenderStep, PassLimit, EnqueueNow, EnqueueWait, Park,
         Wakeup, Reply, Return
    <3>2. \A v \in Threads \ {t} : oput'[v] = oput[v]
      BY <1>1, <2>6, Zenon DEF SenderStep, PassLimit, EnqueueNow, EnqueueWait,
         Park, Wakeup, Reply, AppendReq, QueueReq, SendBatch
    <3> QED
      BY <2>4, <3>1, <3>2, ThreadFacts, Zenon
  <2>7. ASSUME NEW t \in Threads, ForwardFail(t), t # u PROVE pc[u] = "next" /\ oput'[u] = oput[u]
    BY <1>1, <1>5, <2>7, Zenon DEF ForwardFail, CreateFail, LaunchFail, Goto
  <2>8. ASSUME NEW t \in Threads, ForwardStep(t) PROVE pc[u] = "next" /\ oput'[u] = oput[u]
    <3>1. \A v \in Threads \ {t} : oput'[v] = oput[v]
      BY <1>1, <2>8, Zenon DEF ForwardStep, CreateHandle, Launch, StartNext,
         PullOne, PullEnd, StopWait, Track, DoneOqFlush, Progress, AppendReq,
         QueueReq, SendBatch, FlushLoading
    <3>2. (pc' = pc /\ pc[t] = "pull") \/ \E l \in Locations \ {"next"} : Goto(t, l)
      BY <2>8, Zenon DEF ForwardStep, CreateHandle, Launch, StartNext, PullOne,
         PullEnd, StopWait, Track, DoneOqFlush, Progress, AfterPull, Continue,
         Return, Locations
    <3> QED
      BY <1>1, <1>5, <2>4, <3>1, <3>2
  <2>9. ASSUME AquireFlush \/ FlushStep PROVE pc[u] = "next" /\ oput'[u] = oput[u]
    <3>1. \A v \in Threads \ {Flusher} : oput'[v] = oput[v]
      BY <1>1, <2>9, Zenon DEF AquireFlush, FlushStep, StartWaitq,
         StartLoading, StartOuts, DropRef, FlushReturn, SendBatch, FlushLoading
    <3>2. \E l \in Locations \ {"next"} : Goto(Flusher, l)
      BY <2>9, Zenon DEF AquireFlush, FlushStep, StartWaitq, StartLoading,
         StartOuts, DropRef, FlushReturn, Locations
    <3> QED
      BY <2>4, <3>1, <3>2, ThreadFacts, Zenon
  <2>10. CASE Quiescent
    BY <1>5, <2>3, <2>10, Zenon DEF Quiescent, vars, threadVars
  <2> QED
    BY <2>1, <2>2, <2>3, <2>5, <2>6, <2>7, <2>8, <2>9, <2>10, Zenon DEF Next,
       ForwardFail
<1> QED
  BY <1>4, <1>5, Zenon DEF Finished

-----------------------------------------------------------------------------
\* Where what the flush owes is.

\* A new output carries its requests; the ones before it stay.
LEMMA SentAppend ==
  ASSUME outs \in Seq(Batches), NEW b \in Batches, outs' = Append(outs, b)
  PROVE  /\ Sent(Len(outs))' = Sent(Len(outs)) \cup Range(b)
         /\ \A p \in DOMAIN outs :
              p \in DOMAIN outs' /\ outs'[p] = outs[p] /\ Sent(p)' = Sent(p)
<1>1. /\ Len(outs) \in Nat /\ DOMAIN outs = 1 .. Len(outs)
      /\ Len(outs') = Len(outs) + 1 /\ DOMAIN outs' = 1 .. (Len(outs) + 1)
      /\ \A i \in 1 .. Len(outs) : outs'[i] = outs[i]
      /\ outs'[Len(outs) + 1] = b
  BY AppendFacts, LenFacts
<1>2. ASSUME NEW p \in DOMAIN outs
      PROVE  p \in DOMAIN outs' /\ outs'[p] = outs[p] /\ Sent(p)' = Sent(p)
  <2>1. p \in DOMAIN outs' /\ \A i \in 1 .. p : i \in 1 .. Len(outs)
    BY <1>1
  <2>2. \A i \in 1 .. p : outs'[i] = outs[i]
    BY <1>1, <2>1, Zenon
  <2> QED
    BY <1>1, <2>1, <2>2, Zenon DEF Sent
<1>3. \A i \in 1 .. (Len(outs) + 1) : i \in 1 .. Len(outs) \/ i = Len(outs) + 1
  BY <1>1
<1>4. \A i \in 1 .. Len(outs) : i \in 1 .. (Len(outs) + 1)
  BY <1>1
<1>5. Len(outs) + 1 \in 1 .. (Len(outs) + 1)
  BY <1>1
<1>6. Sent(Len(outs))' = UNION {Range(outs'[i]) : i \in 1 .. (Len(outs) + 1)}
  BY <1>1, Zenon DEF Sent
<1>7. Sent(Len(outs))' = Sent(Len(outs)) \cup Range(b)
  BY <1>1, <1>3, <1>4, <1>5, <1>6 DEF Sent
<1> QED
  BY <1>2, <1>7, Zenon

\* Removing an output takes its requests away and moves those behind it.
LEMMA SentWithout ==
  ASSUME outs \in Seq(Batches), NEW k \in DOMAIN outs, outs' = Without(outs, k)
  PROVE  /\ Sent(Len(outs)) \ Range(outs[k]) \subseteq Sent(Len(outs))'
         /\ \A p \in DOMAIN outs : p < k =>
              /\ p \in DOMAIN outs' /\ outs'[p] = outs[p]
              /\ Sent(p) \subseteq Sent(p)'
         /\ \A p \in DOMAIN outs : p >= k =>
              Sent(p) \ Range(outs[k]) \subseteq Sent(p - 1)'
         /\ \A p \in DOMAIN outs : p > k =>
              p - 1 \in DOMAIN outs' /\ outs'[p - 1] = outs[p]
<1>1. /\ Len(outs) \in Nat /\ DOMAIN outs = 1 .. Len(outs) /\ k \in 1 .. Len(outs)
      /\ outs' \in Seq(Batches) /\ Len(outs') = Len(outs) - 1
      /\ DOMAIN outs' = 1 .. (Len(outs) - 1)
      /\ \A j \in 1 .. (Len(outs) - 1) :
           outs'[j] = IF j < k THEN outs[j] ELSE outs[j + 1]
  BY WithoutProperties, LenFacts, Zenon
<1>2. ASSUME NEW p \in DOMAIN outs, p < k
      PROVE  p \in DOMAIN outs' /\ outs'[p] = outs[p] /\ Sent(p) \subseteq Sent(p)'
  <2>1. p \in DOMAIN outs' /\ \A i \in 1 .. p : i \in 1 .. (Len(outs) - 1) /\ i < k
    BY <1>1, <1>2
  <2>2. \A i \in 1 .. p : outs'[i] = outs[i]
    BY <1>1, <2>1, Zenon
  <2> QED
    BY <1>1, <1>2, <2>1, <2>2, Zenon DEF Sent
<1>3. ASSUME NEW p \in DOMAIN outs, p >= k
      PROVE  Sent(p) \ Range(outs[k]) \subseteq Sent(p - 1)'
  <2>1. ASSUME NEW i \in 1 .. p, i # k
        PROVE  \E j \in 1 .. (p - 1) : outs'[j] = outs[i]
    <3>1. CASE i < k
      <4>1. i \in 1 .. (p - 1) /\ i \in 1 .. (Len(outs) - 1)
        BY <1>1, <1>3, <3>1
      <4>2. outs'[i] = outs[i]
        BY <1>1, <3>1, <4>1, Zenon
      <4> QED
        BY <4>1, <4>2, Zenon
    <3>2. CASE i > k
      <4>1. i - 1 \in 1 .. (p - 1) /\ i - 1 \in 1 .. (Len(outs) - 1) /\ ~(i - 1 < k)
            /\ i - 1 + 1 = i
        BY <1>1, <1>3, <3>2
      <4>2. outs'[i - 1] = outs[i]
        BY <1>1, <4>1, Zenon
      <4> QED
        BY <4>1, <4>2, Zenon
    <3> QED
      BY <1>1, <2>1, <3>1, <3>2
  <2>2. Sent(p - 1)' = UNION {Range(outs'[j]) : j \in 1 .. (p - 1)}
    BY Zenon DEF Sent
  <2> QED
    BY <2>1, <2>2, Zenon DEF Sent
<1>4. ASSUME NEW p \in DOMAIN outs, p > k
      PROVE  p - 1 \in DOMAIN outs' /\ outs'[p - 1] = outs[p]
  <2>1. p - 1 \in 1 .. (Len(outs) - 1) /\ ~(p - 1 < k) /\ p - 1 + 1 = p
    BY <1>1, <1>4
  <2> QED
    BY <1>1, <2>1, Zenon
<1>5. Sent(Len(outs)) \ Range(outs[k]) \subseteq Sent(Len(outs))'
  <2>1. Len(outs) \in DOMAIN outs /\ Len(outs) >= k
    BY <1>1
  <2>2. Sent(Len(outs))' = UNION {Range(outs'[j]) : j \in 1 .. (Len(outs) - 1)}
    BY <1>1, Zenon DEF Sent
  <2>3. ASSUME NEW n, n \in DOMAIN outs, n >= k
        PROVE  Sent(n) \ Range(outs[k]) \subseteq UNION {Range(outs'[j]) : j \in 1 .. (n - 1)}
    BY <1>3, <2>3, Zenon DEF Sent
  <2> QED
    BY <2>1, <2>2, <2>3, Zenon
<1> QED
  BY <1>2, <1>3, <1>4, <1>5, Zenon

\* A step that leaves the flush of the queue alone and may only add to what
\* is queued.
CoverKept ==
  /\ Owed' \subseteq Owed
  /\ Sent(Len(outs)) \subseteq Sent(Len(outs))'
  /\ Range(loading) \subseteq Sent(Len(outs))' \cup Range(loading')
  /\ \A p \in DOMAIN outs :
       p \in DOMAIN outs' /\ outs'[p] = outs[p] /\ Sent(p)' = Sent(p)
PlaceKept ==
  /\ pc'[Flusher] \in Forwarding \cup {"outs"} =>
       pc[Flusher] \in Forwarding \cup {"outs"}
  /\ pc'[Flusher] \in {"idle", "drop", "wait"} =>
       pc[Flusher] \in {"idle", "drop", "wait"}
LEMMA CoverGrow ==
  ASSUME FlushCovers, CoverKept, PlaceKept, UNCHANGED flushVars,
         oqflush_waitcounter <= Len(oqwaitq) =>
           /\ oqflush_waitcounter <= Len(oqwaitq')
           /\ \A i \in 1 .. oqflush_waitcounter : oqwaitq'[i] = oqwaitq[i],
         \A u \in Threads : Tracks(u)' =>
           /\ Tracks(u)
           /\ pc[u] = "pull" => \/ pc'[u] = "pull"
                                \/ Range(loading) \subseteq Sent(Len(outs))'
  PROVE  FlushCovers'
<1>1. UNCHANGED <<oqflushing, oqflush_waitcounter, oqflush_output>>
  BY Zenon DEF flushVars
<1>2. pc'[Flusher] \in Forwarding \cup {"outs"} => Owed' \subseteq Sent(Len(outs))'
  BY Zenon DEF FlushCovers, CoverKept, PlaceKept
<1>3. pc'[Flusher] \in {"idle", "drop", "wait"} /\ ~oqflushing' => Owed' = {}
  BY <1>1, Zenon DEF FlushCovers, CoverKept, PlaceKept
<1>4. ASSUME oqflushing', oqflush_waitcounter' > 0
      PROVE  /\ oqflush_output' = <<>> /\ oqflush_waitcounter' <= Len(oqwaitq')
             /\ Owed' \subseteq Sent(Len(outs))' \cup Range(loading')
                         \cup {oqwaitq'[i] : i \in 1 .. oqflush_waitcounter'}
  <2>1. /\ oqflush_output = <<>> /\ oqflush_waitcounter <= Len(oqwaitq)
        /\ Owed \subseteq Sent(Len(outs)) \cup Range(loading)
                         \cup {oqwaitq[i] : i \in 1 .. oqflush_waitcounter}
    BY <1>1, <1>4, Zenon DEF FlushCovers
  <2>2. {oqwaitq[i] : i \in 1 .. oqflush_waitcounter}
          = {oqwaitq'[i] : i \in 1 .. oqflush_waitcounter'}
    BY <1>1, <2>1, Zenon
  <2>3. oqflush_output' = <<>> /\ oqflush_waitcounter' <= Len(oqwaitq')
    BY <1>1, <2>1, Zenon
  <2> QED
    BY <2>1, <2>2, <2>3, Zenon DEF CoverKept
<1>5. ASSUME oqflushing', oqflush_output' # <<>>
      PROVE  \E p \in DOMAIN outs' : outs'[p] = oqflush_output' /\ Owed' \subseteq Sent(p)'
  <2>1. PICK p \in DOMAIN outs : outs[p] = oqflush_output /\ Owed \subseteq Sent(p)
    BY <1>1, <1>5, Zenon DEF FlushCovers
  <2>2. /\ p \in DOMAIN outs' /\ outs'[p] = oqflush_output' /\ Owed' \subseteq Sent(p)'
    BY <1>1, <2>1, Zenon DEF CoverKept
  <2> QED
    BY <2>2, Zenon
<1>6. ASSUME NEW u \in Threads, Tracks(u)'
      PROVE  /\ oqflushing' /\ oqflush_waitcounter' = 0 /\ oqflush_output' = <<>>
             /\ Owed' \subseteq Sent(Len(outs))'
                          \cup (IF pc'[u] = "pull" THEN Range(loading') ELSE {})
  <2>1. Tracks(u)
    BY <1>6, Zenon
  <2>2. /\ oqflushing /\ oqflush_waitcounter = 0 /\ oqflush_output = <<>>
        /\ Owed \subseteq Sent(Len(outs))
                            \cup (IF pc[u] = "pull" THEN Range(loading) ELSE {})
    BY <2>1, Zenon DEF FlushCovers
  <2>3. pc[u] = "pull" => pc'[u] = "pull" \/ Range(loading) \subseteq Sent(Len(outs))'
    BY <1>6, Zenon
  <2> QED
    BY <1>1, <2>2, <2>3, Zenon DEF CoverKept
<1>7. \A u, v \in Threads : Tracks(u)' /\ Tracks(v)' => u = v
  BY Zenon DEF FlushCovers
<1> QED
  BY <1>2, <1>3, <1>4, <1>5, <1>6, <1>7, Zenon DEF FlushCovers

\* Nothing at all is added.
LEMMA CoverSame ==
  ASSUME FlushCovers, PlaceKept, UNCHANGED <<flushVars, outs, loading, oqwaitq, fset>>,
         acked \cup lost \subseteq acked' \cup lost',
         \A u \in Threads : Tracks(u)' => Tracks(u) /\ (pc[u] = "pull" => pc'[u] = "pull")
  PROVE  FlushCovers'
<1>1. CoverKept
  BY Zenon DEF CoverKept, Owed, Sent
<1> QED
  BY <1>1, CoverGrow, Zenon

\* append_req_to_locked_outqueue and its call with flushnow keep what is
\* queued.
LEMMA CoverAppendReq ==
  ASSUME outs \in Seq(Batches), loading \in Seq(Reqs), NEW t \in Threads,
         oput \in [Threads -> Batches],
         NEW r \in Reqs, AppendReq(t, r), UNCHANGED <<acked, lost, fset>>
  PROVE  /\ CoverKept
         /\ r \in Sent(Len(outs))' \cup Range(loading')
         /\ oput'[t] # <<>> => /\ Range(loading) \subseteq Sent(Len(outs))'
                               /\ r \in Sent(Len(outs))'
<1>1. Owed' = Owed
  BY Zenon DEF Owed
<1>2. /\ Append(loading, r) \in Batches
      /\ Range(Append(loading, r)) = Range(loading) \cup {r}
  BY RangeAppend DEF Batches
<1>3. CASE QueueReq(t, r)
  <2>1. outs' = outs /\ loading' = Append(loading, r) /\ oput'[t] = <<>>
    BY <1>3, Zenon DEF QueueReq
  <2>2. Range(loading') = Range(loading) \cup {r}
    BY <1>2, <2>1, Zenon
  <2>3. CoverKept
    BY <1>1, <2>1, <2>2, Zenon DEF CoverKept, Sent
  <2> QED
    BY <2>1, <2>2, <2>3, Zenon
<1>4. CASE ~QueueReq(t, r)
  <2>1. outs' = Append(outs, Append(loading, r))
    BY <1>4, Zenon DEF AppendReq, SendBatch
  <2>2. /\ Sent(Len(outs))' = Sent(Len(outs)) \cup Range(loading) \cup {r}
        /\ \A p \in DOMAIN outs :
             p \in DOMAIN outs' /\ outs'[p] = outs[p] /\ Sent(p)' = Sent(p)
    BY <1>2, <2>1, SentAppend, Zenon
  <2>3. CoverKept
    BY <1>1, <2>2, Zenon DEF CoverKept
  <2> QED
    BY <2>2, <2>3, Zenon
<1> QED
  BY <1>3, <1>4, Zenon

LEMMA CoverFlushLoading ==
  ASSUME outs \in Seq(Batches), loading \in Seq(Reqs), NEW t \in Threads,
         oput \in [Threads -> Batches],
         FlushLoading(t), UNCHANGED <<acked, lost, fset>>
  PROVE  /\ CoverKept
         /\ oput'[t] # <<>> => Range(loading) \subseteq Sent(Len(outs))'
<1>1. Owed' = Owed
  BY Zenon DEF Owed
<1>2. CASE SendBatch(t, loading)
  <2>1. outs' = Append(outs, loading) /\ loading \in Batches
    BY <1>2, Zenon DEF SendBatch, Batches
  <2>2. /\ Sent(Len(outs))' = Sent(Len(outs)) \cup Range(loading)
        /\ \A p \in DOMAIN outs :
             p \in DOMAIN outs' /\ outs'[p] = outs[p] /\ Sent(p)' = Sent(p)
    BY <2>1, SentAppend, Zenon
  <2> QED
    BY <1>1, <2>2, Zenon DEF CoverKept
<1>3. CASE ~SendBatch(t, loading)
  <2>1. outs' = outs /\ loading' = loading /\ oput'[t] = <<>>
    BY <1>3, Zenon DEF FlushLoading
  <2> QED
    BY <1>1, <2>1, Zenon DEF CoverKept, Sent
<1> QED
  BY <1>2, <1>3, Zenon

CoverTypes ==
  /\ pc \in [Threads -> Locations] /\ outs \in Seq(Batches)
  /\ loading \in Seq(Reqs) /\ oqwaitq \in Seq(Reqs) /\ loadsize \in Nat
  /\ oput \in [Threads -> Batches] /\ flushloadingnow \in [Threads -> BOOLEAN]
  /\ oqflush_waitcounter \in Nat /\ oqflushing \in BOOLEAN

\* forw_start_next removes an output that has an outcome; a flush that
\* waits for it goes on to the one before it, or is done.
LEMMA CoverStartNext ==
  ASSUME CoverTypes, FlushCovers, OutputOwned, Finished, NEW t \in Threads,
         StartNext(t), NEW k, k = Pos(oput[t])
  PROVE  FlushCovers'
<1>1. /\ pc[t] = "next" /\ Goto(t, "pull") /\ outs' = Without(outs, k)
      /\ oqflushing' = (oqflushing /\ ~(OnFlushOutput(t) /\ k = 1))
      /\ oqflush_output' = IF OnFlushOutput(t) THEN PrevOutput(oput[t])
                                               ELSE oqflush_output
      /\ flushloadingnow' = [flushloadingnow EXCEPT ![t] = FALSE]
      /\ UNCHANGED <<loading, oqwaitq, oqflush_waitcounter, oput, acked, lost, fset>>
  BY Zenon DEF StartNext, histVars
<1>2. Owed' = Owed
  BY <1>1, Zenon DEF Owed
<1>3. oput[t] \in Range(outs) /\ Range(oput[t]) \subseteq acked \cup lost
  BY <1>1, Zenon DEF OutputOwned, Finished, Holds
<1>4. k \in DOMAIN outs /\ outs[k] = oput[t] /\ k \in 1 .. Len(outs)
  BY <1>3, PosOK DEF CoverTypes
<1>5. /\ outs[k] # <<>> /\ Owed \cap Range(outs[k]) = {}
      /\ \A p \in DOMAIN outs : outs[p] = outs[k] => p = k
  BY <1>3, <1>4, Zenon DEF OutputOwned, Owed
<1>6. /\ Sent(Len(outs)) \ Range(outs[k]) \subseteq Sent(Len(outs))'
      /\ \A p \in DOMAIN outs : p < k =>
           p \in DOMAIN outs' /\ outs'[p] = outs[p] /\ Sent(p) \subseteq Sent(p)'
      /\ \A p \in DOMAIN outs : p >= k =>
           Sent(p) \ Range(outs[k]) \subseteq Sent(p - 1)'
      /\ \A p \in DOMAIN outs : p > k =>
           p - 1 \in DOMAIN outs' /\ outs'[p - 1] = outs[p]
  BY <1>1, <1>4, SentWithout, Zenon DEF CoverTypes
<1>7. /\ pc'[t] = "pull" /\ \A u \in Threads \ {t} : pc'[u] = pc[u]
      /\ \/ t # Flusher /\ pc'[Flusher] = pc[Flusher]
         \/ pc[Flusher] = "next" /\ pc'[Flusher] = "pull"
  BY <1>1, ThreadFacts, Zenon DEF Goto, CoverTypes
<1>8. oqflush_output = <<>> => ~OnFlushOutput(t)
  BY <1>4, <1>5, Zenon DEF OnFlushOutput
<1>9. pc'[Flusher] \in Forwarding \cup {"outs"} => Owed' \subseteq Sent(Len(outs))'
  BY <1>2, <1>5, <1>6, <1>7, Zenon DEF FlushCovers, Forwarding
<1>10. ASSUME pc'[Flusher] \in {"idle", "drop", "wait"}, ~oqflushing'
       PROVE  Owed' = {}
  <2>1. pc[Flusher] \in {"idle", "drop", "wait"}
    BY <1>7, <1>10, Zenon
  <2>2. CASE ~oqflushing
    BY <1>2, <2>1, <2>2, Zenon DEF FlushCovers
  <2>3. CASE oqflushing
    <3>1. OnFlushOutput(t) /\ k = 1
      BY <1>1, <1>10, <2>3, Zenon
    <3>2. PICK p \in DOMAIN outs : outs[p] = oqflush_output /\ Owed \subseteq Sent(p)
      BY <1>8, <2>3, <3>1, Zenon DEF FlushCovers
    <3>3. p = 1
      BY <1>4, <1>5, <3>1, <3>2, Zenon DEF OnFlushOutput
    <3>4. Sent(1) = Range(outs[1])
      <4>1. 1 .. 1 = {1}
        OBVIOUS
      <4> QED
        BY <4>1, Zenon DEF Sent
    <3> QED
      BY <1>2, <1>5, <3>1, <3>2, <3>3, <3>4, Zenon
  <2> QED
    BY <2>2, <2>3, Zenon
<1>11. ASSUME oqflushing', oqflush_waitcounter' > 0
       PROVE  /\ oqflush_output' = <<>> /\ oqflush_waitcounter' <= Len(oqwaitq')
              /\ Owed' \subseteq Sent(Len(outs))' \cup Range(loading')
                          \cup {oqwaitq'[i] : i \in 1 .. oqflush_waitcounter'}
  <2>1. oqflushing
    BY <1>1, <1>11, Zenon
  <2>2. /\ oqflush_output = <<>> /\ oqflush_waitcounter <= Len(oqwaitq)
        /\ Owed \subseteq Sent(Len(outs)) \cup Range(loading)
                         \cup {oqwaitq[i] : i \in 1 .. oqflush_waitcounter}
    BY <1>1, <1>11, <2>1, Zenon DEF FlushCovers
  <2>3. oqflush_output' = <<>>
    BY <1>1, <1>8, <2>2, Zenon
  <2> QED
    BY <1>1, <1>2, <1>5, <1>6, <2>2, <2>3
<1>12. ASSUME oqflushing', oqflush_output' # <<>>
       PROVE  \E p \in DOMAIN outs' : outs'[p] = oqflush_output' /\ Owed' \subseteq Sent(p)'
  <2>1. oqflushing /\ ~(OnFlushOutput(t) /\ k = 1)
    BY <1>1, <1>12, Zenon
  <2>2. oqflush_output # <<>>
    BY <1>1, <1>8, <1>12, Zenon
  <2>3. PICK p \in DOMAIN outs : outs[p] = oqflush_output /\ Owed \subseteq Sent(p)
    BY <2>1, <2>2, Zenon DEF FlushCovers
  <2>4. p \in Nat /\ k \in Nat /\ DOMAIN outs = 1 .. Len(outs) /\ Len(outs) \in Nat
    BY <1>4 DEF CoverTypes
  <2>5. CASE OnFlushOutput(t)
    <3>1. p = k /\ k # 1
      BY <1>4, <1>5, <2>1, <2>3, <2>5, Zenon DEF OnFlushOutput
    <3>2. oqflush_output' = outs[k - 1] /\ k - 1 \in DOMAIN outs /\ k - 1 < k /\ k >= k
      BY <1>1, <1>4, <2>4, <2>5, <3>1 DEF PrevOutput
    <3>3. Owed' \subseteq Sent(k - 1)'
      BY <1>2, <1>4, <1>5, <1>6, <2>3, <3>1, <3>2, Zenon
    <3>4. k - 1 \in DOMAIN outs' /\ outs'[k - 1] = oqflush_output'
      BY <1>6, <3>2, Zenon
    <3> QED
      BY <3>3, <3>4, Zenon
  <2>6. CASE ~OnFlushOutput(t)
    <3>1. oqflush_output' = oqflush_output /\ p # k
      BY <1>1, <1>4, <2>1, <2>3, <2>6, Zenon DEF OnFlushOutput
    <3>2. CASE p < k
      BY <1>2, <1>6, <2>3, <3>1, <3>2, Zenon
    <3>3. CASE p > k
      <4>1. p >= k
        BY <2>4, <3>3
      <4>2. Owed' \subseteq Sent(p - 1)'
        BY <1>2, <1>5, <1>6, <2>3, <4>1, Zenon
      <4>3. p - 1 \in DOMAIN outs' /\ outs'[p - 1] = oqflush_output'
        BY <1>6, <2>3, <3>1, <3>3, Zenon
      <4> QED
        BY <4>2, <4>3, Zenon
    <3> QED
      BY <2>4, <3>1, <3>2, <3>3
  <2> QED
    BY <2>5, <2>6, Zenon
<1>13. \A u \in Threads : Tracks(u)' => u # t /\ Tracks(u) /\ pc'[u] = pc[u]
  BY <1>1, <1>7, Zenon DEF Tracks, CoverTypes
<1>14. ASSUME NEW u \in Threads, Tracks(u)'
       PROVE  /\ oqflushing' /\ oqflush_waitcounter' = 0 /\ oqflush_output' = <<>>
              /\ Owed' \subseteq Sent(Len(outs))'
                           \cup (IF pc'[u] = "pull" THEN Range(loading') ELSE {})
  <2>1. Tracks(u) /\ pc'[u] = pc[u]
    BY <1>13, <1>14, Zenon
  <2>2. /\ oqflushing /\ oqflush_waitcounter = 0 /\ oqflush_output = <<>>
        /\ Owed \subseteq Sent(Len(outs))
                            \cup (IF pc[u] = "pull" THEN Range(loading) ELSE {})
    BY <2>1, Zenon DEF FlushCovers
  <2>3. ~OnFlushOutput(t) /\ oqflushing' /\ oqflush_output' = <<>>
    BY <1>1, <1>8, <2>2, Zenon
  <2> QED
    BY <1>1, <1>2, <1>5, <1>6, <2>1, <2>2, <2>3, Zenon
<1>15. \A u, v \in Threads : Tracks(u)' /\ Tracks(v)' => u = v
  BY <1>13, Zenon DEF FlushCovers
<1> QED
  BY <1>9, <1>10, <1>11, <1>12, <1>14, <1>15, Zenon DEF FlushCovers

\* forw_start_next pulls a request off the wait queue: the flush has one
\* less to wait for, and the thread that pulls the last one tracks it.
LEMMA CoverPullOne ==
  ASSUME CoverTypes, FlushCovers, NEW t \in Threads, PullOne(t),
         NEW r, r = Head(oqwaitq)
  PROVE  FlushCovers'
<1>1. /\ pc[t] = "pull" /\ oqwaitq # <<>> /\ oqwaitq' = Tail(oqwaitq)
      /\ oqflush_waitcounter' = IF Counted THEN oqflush_waitcounter - 1
                                           ELSE oqflush_waitcounter
      /\ flushloadingnow' = [flushloadingnow EXCEPT ![t] =
                               @ \/ (Counted /\ oqflush_waitcounter = 1)]
      /\ AppendReq(t, r)
      /\ \/ oput'[t] = <<>> /\ pc' = pc
         \/ /\ oput'[t] # <<>>
            /\ Goto(t, AfterPull(t, oput'[t], flushloadingnow'[t]))
      /\ UNCHANGED <<oqflushing, oqflush_output, acked, lost, fset>>
  BY Zenon DEF PullOne
<1>2. /\ r \in Reqs /\ Len(oqwaitq) \in Nat /\ Len(oqwaitq) > 0 /\ r = oqwaitq[1]
      /\ DOMAIN oqwaitq = 1 .. Len(oqwaitq) /\ Len(oqwaitq') = Len(oqwaitq) - 1
      /\ \A i \in 1 .. (Len(oqwaitq) - 1) : oqwaitq'[i] = oqwaitq[i + 1]
  BY <1>1, RangeHeadTail, LenFacts DEF CoverTypes
<1>3. /\ CoverKept
      /\ r \in Sent(Len(outs))' \cup Range(loading')
      /\ oput'[t] # <<>> => /\ Range(loading) \subseteq Sent(Len(outs))'
                            /\ r \in Sent(Len(outs))'
  BY <1>1, <1>2, CoverAppendReq, Zenon DEF CoverTypes
<1>4. /\ \A u \in Threads \ {t} : pc'[u] = pc[u] /\ oput'[u] = oput[u]
      /\ \/ oput'[t] = <<>> /\ pc'[t] = "pull"
         \/ oput'[t] # <<>> /\ pc'[t] = AfterPull(t, oput'[t], flushloadingnow'[t])
  BY <1>1, Zenon DEF Goto, CoverTypes, AppendReq, QueueReq, SendBatch
<1>5. pc'[t] \in Forwarding
  BY <1>4, Zenon DEF AfterPull, Forwarding
<1>6. PlaceKept
  BY <1>1, <1>4, <1>5, ThreadFacts, Zenon DEF PlaceKept, Forwarding
<1>7. flushloadingnow'[t] => flushloadingnow[t] \/ (Counted /\ oqflush_waitcounter = 1)
  BY <1>1, Zenon DEF CoverTypes
<1>8. Tracks(t)' => flushloadingnow'[t]
  BY <1>4, Zenon DEF Tracks, AfterPull
<1>9. \A u \in Threads \ {t} : Tracks(u)' => Tracks(u) /\ ~Counted
  <2>1. \A u \in Threads \ {t} : flushloadingnow'[u] = flushloadingnow[u]
    BY <1>1, Zenon DEF CoverTypes
  <2>2. \A u \in Threads \ {t} : Tracks(u)' => Tracks(u)
    BY <1>4, <2>1, Zenon DEF Tracks
  <2> QED
    BY <2>2 DEF FlushCovers, Counted
<1>10. flushloadingnow[t] => Tracks(t) /\ ~Counted
  <2>1. flushloadingnow[t] => Tracks(t)
    BY <1>1, Zenon DEF Tracks
  <2> QED
    BY <2>1 DEF FlushCovers, Counted
<1>11. pc'[Flusher] \in Forwarding \cup {"outs"} => Owed' \subseteq Sent(Len(outs))'
  BY <1>3, <1>6, Zenon DEF FlushCovers, CoverKept, PlaceKept
<1>12. pc'[Flusher] \in {"idle", "drop", "wait"} /\ ~oqflushing' => Owed' = {}
  BY <1>1, <1>3, <1>6, Zenon DEF FlushCovers, CoverKept, PlaceKept
<1>13. ASSUME Counted
       PROVE  /\ oqflush_output = <<>> /\ oqflush_waitcounter <= Len(oqwaitq)
              /\ oqflush_waitcounter' = oqflush_waitcounter - 1
              /\ Owed' \subseteq Sent(Len(outs))' \cup Range(loading')
                          \cup {oqwaitq'[i] : i \in 1 .. oqflush_waitcounter'}
  <2>1. /\ oqflush_output = <<>> /\ oqflush_waitcounter <= Len(oqwaitq)
        /\ oqflush_waitcounter' = oqflush_waitcounter - 1
        /\ Owed \subseteq Sent(Len(outs)) \cup Range(loading)
                         \cup {oqwaitq[i] : i \in 1 .. oqflush_waitcounter}
    BY <1>1, <1>13, Zenon DEF FlushCovers, Counted
  <2>2. ASSUME NEW i \in 1 .. oqflush_waitcounter, i # 1
        PROVE  oqwaitq[i] \in {oqwaitq'[j] : j \in 1 .. (oqflush_waitcounter - 1)}
    <3>1. i - 1 \in 1 .. (oqflush_waitcounter - 1) /\ i - 1 \in 1 .. (Len(oqwaitq) - 1)
          /\ i - 1 + 1 = i
      BY <1>2, <2>1, <2>2 DEF CoverTypes
    <3>2. oqwaitq'[i - 1] = oqwaitq[i]
      BY <1>2, <3>1, Zenon
    <3> QED
      BY <3>1, <3>2, Zenon
  <2>3. {oqwaitq[i] : i \in 1 .. oqflush_waitcounter}
          \subseteq {r} \cup {oqwaitq'[j] : j \in 1 .. oqflush_waitcounter'}
    BY <1>2, <2>1, <2>2, Zenon
  <2> QED
    BY <1>3, <2>1, <2>3, Zenon DEF CoverKept
<1>14. ASSUME oqflushing', oqflush_waitcounter' > 0
       PROVE  /\ oqflush_output' = <<>> /\ oqflush_waitcounter' <= Len(oqwaitq')
              /\ Owed' \subseteq Sent(Len(outs))' \cup Range(loading')
                          \cup {oqwaitq'[i] : i \in 1 .. oqflush_waitcounter'}
  <2>1. Counted
    BY <1>1, <1>14, Zenon DEF Counted
  <2>2. oqflush_waitcounter' <= Len(oqwaitq')
    BY <1>2, <1>13, <2>1 DEF CoverTypes
  <2> QED
    BY <1>1, <1>13, <2>1, <2>2, Zenon
<1>15. ASSUME oqflushing', oqflush_output' # <<>>
       PROVE  \E p \in DOMAIN outs' : outs'[p] = oqflush_output' /\ Owed' \subseteq Sent(p)'
  <2>1. PICK p \in DOMAIN outs : outs[p] = oqflush_output /\ Owed \subseteq Sent(p)
    BY <1>1, <1>15, Zenon DEF FlushCovers
  <2>2. /\ p \in DOMAIN outs' /\ outs'[p] = oqflush_output' /\ Owed' \subseteq Sent(p)'
    BY <1>1, <1>3, <2>1, Zenon DEF CoverKept
  <2> QED
    BY <2>2, Zenon
<1>16. ASSUME NEW u \in Threads, Tracks(u)'
       PROVE  /\ oqflushing' /\ oqflush_waitcounter' = 0 /\ oqflush_output' = <<>>
              /\ Owed' \subseteq Sent(Len(outs))'
                           \cup (IF pc'[u] = "pull" THEN Range(loading') ELSE {})
  <2>1. CASE Tracks(u) /\ ~Counted
    <3>1. /\ oqflushing /\ oqflush_waitcounter = 0 /\ oqflush_output = <<>>
          /\ Owed \subseteq Sent(Len(outs))
                              \cup (IF pc[u] = "pull" THEN Range(loading) ELSE {})
      BY <2>1, Zenon DEF FlushCovers
    <3>2. oqflushing' /\ oqflush_waitcounter' = 0 /\ oqflush_output' = <<>>
      BY <1>1, <2>1, <3>1, Zenon
    <3>3. pc[u] = "pull" => pc'[u] = "pull" \/ Range(loading) \subseteq Sent(Len(outs))'
      BY <1>3, <1>4, Zenon
    <3> QED
      BY <1>3, <3>1, <3>2, <3>3, Zenon DEF CoverKept
  <2>2. CASE u = t /\ Counted /\ oqflush_waitcounter = 1
    <3>1. /\ oqflushing' /\ oqflush_waitcounter' = 0 /\ oqflush_output' = <<>>
      BY <1>1, <1>13, <2>2 DEF Counted
    <3>2. {oqwaitq[i] : i \in 1 .. oqflush_waitcounter} = {r}
      <4>1. 1 .. 1 = {1}
        OBVIOUS
      <4> QED
        BY <1>2, <2>2, <4>1
    <3>3. Owed \subseteq Sent(Len(outs)) \cup Range(loading) \cup {r}
      BY <2>2, <3>2, Zenon DEF FlushCovers, Counted
    <3>4. pc'[t] = "pull" \/ oput'[t] # <<>>
      BY <1>4, Zenon
    <3> QED
      BY <1>3, <2>2, <3>1, <3>3, <3>4, Zenon DEF CoverKept
  <2> QED
    BY <1>7, <1>8, <1>9, <1>10, <1>16, <2>1, <2>2, Zenon
<1>17. \A u, v \in Threads : Tracks(u)' /\ Tracks(v)' => u = v
  BY <1>7, <1>8, <1>9, <1>10, Zenon DEF FlushCovers
<1> QED
  BY <1>11, <1>12, <1>14, <1>15, <1>16, <1>17, Zenon DEF FlushCovers

\* The wait queue is empty: a partial batch that the flush needs is pushed.
LEMMA CoverPullEnd ==
  ASSUME CoverTypes, FlushCovers, NEW t \in Threads, PullEnd(t)
  PROVE  FlushCovers'
<1>1. /\ pc[t] = "pull" /\ oqwaitq' = oqwaitq
      /\ UNCHANGED <<flushVars, flushloadingnow, acked, lost, fset>>
      /\ Goto(t, AfterPull(t, oput'[t], flushloadingnow[t]))
      /\ \/ FlushLoading(t)
         \/ oput' = [oput EXCEPT ![t] = <<>>] /\ UNCHANGED <<loading, outs>>
  BY Zenon DEF PullEnd
<1>2. /\ CoverKept
      /\ oput'[t] # <<>> => Range(loading) \subseteq Sent(Len(outs))'
  <2>1. CASE FlushLoading(t)
    BY <1>1, <2>1, CoverFlushLoading, Zenon DEF CoverTypes
  <2>2. CASE ~FlushLoading(t)
    BY <1>1, <2>2 DEF CoverKept, Owed, Sent, CoverTypes
  <2> QED
    BY <2>1, <2>2, Zenon
<1>3. /\ \A u \in Threads \ {t} : pc'[u] = pc[u] /\ oput'[u] = oput[u]
      /\ pc'[t] = AfterPull(t, oput'[t], flushloadingnow[t])
  BY <1>1, Zenon DEF Goto, CoverTypes, FlushLoading, SendBatch
<1>4. pc'[t] \in Forwarding \ {"pull"}
  BY <1>3, Zenon DEF AfterPull, Forwarding
<1>5. PlaceKept
  BY <1>1, <1>3, <1>4, ThreadFacts, Zenon DEF PlaceKept, Forwarding
<1>6. Tracks(t)' => flushloadingnow[t] /\ oput'[t] # <<>>
  BY <1>1, <1>3, <1>4, Zenon DEF Tracks, AfterPull
<1>7. \A u \in Threads : Tracks(u)' =>
        /\ Tracks(u)
        /\ pc[u] = "pull" => pc'[u] = "pull" \/ Range(loading) \subseteq Sent(Len(outs))'
  BY <1>1, <1>2, <1>3, <1>6, Zenon DEF Tracks
<1> QED
  BY <1>1, <1>2, <1>5, <1>7, CoverGrow, Zenon

\* The flush has drained the wait queue: it waits for the last output.
LEMMA CoverTrack ==
  ASSUME CoverTypes, FlushCovers, OutputOwned, NEW t \in Threads, Track(t)
  PROVE  FlushCovers'
<1>1. /\ pc[t] = "track" /\ Goto(t, "create") /\ oqflush_output' = LastOutput
      /\ oqflushing' = (oqflushing /\ outs # <<>>)
      /\ UNCHANGED <<outs, loading, oqwaitq, oqflush_waitcounter, oput,
                     flushloadingnow, acked, lost, fset>>
  BY Zenon DEF Track, queueVars, histVars
<1>2. Owed' = Owed /\ Sent(Len(outs))' = Sent(Len(outs))
  BY <1>1, Zenon DEF Owed, Sent
<1>3. /\ oqflushing /\ oqflush_waitcounter = 0 /\ Owed \subseteq Sent(Len(outs))
      /\ \A u \in Threads : Tracks(u) => u = t
  BY <1>1, Zenon DEF FlushCovers, Tracks
<1>4. outs # <<>>
  <2>1. oput[t] \in Range(outs)
    BY <1>1, Zenon DEF OutputOwned, Holds
  <2> QED
    BY <2>1 DEF Range
<1>5. Len(outs) \in DOMAIN outs /\ oqflush_output' = outs[Len(outs)] /\ oqflushing'
  <2>1. outs \in Seq(Batches)
    BY Zenon DEF CoverTypes
  <2>2. Len(outs) \in DOMAIN outs
    BY <1>4, <2>1
  <2> QED
    BY <1>1, <1>3, <1>4, <2>2, Zenon DEF LastOutput
<1>6. /\ pc'[t] = "create" /\ \A u \in Threads \ {t} : pc'[u] = pc[u]
  BY <1>1, Zenon DEF Goto, CoverTypes
<1>7. PlaceKept
  BY <1>1, <1>6, ThreadFacts, Zenon DEF PlaceKept, Forwarding
<1>8. \A u \in Threads : ~Tracks(u)'
  BY <1>1, <1>3, <1>6, Zenon DEF Tracks
<1>9. \E p \in DOMAIN outs' : outs'[p] = oqflush_output' /\ Owed' \subseteq Sent(p)'
  <2>1. ASSUME NEW p \in DOMAIN outs PROVE Sent(p)' = Sent(p)
    BY <1>1, Zenon DEF Sent
  <2> QED
    BY <1>1, <1>2, <1>3, <1>5, <2>1, Zenon
<1>10. pc'[Flusher] \in Forwarding \cup {"outs"} => Owed' \subseteq Sent(Len(outs))'
  BY <1>2, <1>7, Zenon DEF FlushCovers, PlaceKept
<1>11. ~(oqflush_waitcounter' > 0)
  BY <1>1, <1>3
<1> QED
  BY <1>5, <1>8, <1>9, <1>10, <1>11, Zenon DEF FlushCovers

\* start_qflush: what it finds queued is what the flush owes.
LEMMA CoverStart ==
  ASSUME CoverTypes, FlushCovers, Finished, FlushCount,
         StartWaitq \/ StartLoading \/ StartOuts
  PROVE  FlushCovers'
<1>1. /\ pc[Flusher] \in {"startq", "outs"} /\ ~oqflushing /\ oqflushing = FALSE
      /\ \A u \in Threads : ~Tracks(u)
  <2>1. pc[Flusher] \in {"startq", "outs"}
    BY Zenon DEF StartWaitq, StartLoading, StartOuts
  <2>2. ~oqflushing
    BY <2>1, Zenon DEF FlushCount
  <2> QED
    BY <2>1, <2>2, Zenon DEF FlushCovers, CoverTypes
<1>2. /\ UNCHANGED <<oqwaitq, flushloadingnow, acked, lost>>
      /\ Goto(Flusher, "drop") \/ Goto(Flusher, "create")
  BY Zenon DEF StartWaitq, StartLoading, StartOuts, queueVars
<1>3. /\ \A u \in Threads \ {Flusher} : pc'[u] = pc[u] /\ oput'[u] = oput[u]
      /\ pc'[Flusher] \in {"drop", "create"}
  BY <1>2, ThreadFacts, Zenon DEF Goto, CoverTypes, StartWaitq, StartLoading,
     StartOuts, FlushLoading, SendBatch
<1>4. \A u \in Threads : ~Tracks(u)'
  BY <1>1, <1>2, <1>3, Zenon DEF Tracks
<1>5. Queued = Range(loading) \cup Range(oqwaitq) \cup Sent(Len(outs))
  BY DEF Queued, Sent, CoverTypes
<1>6. CASE StartWaitq
  <2>1. /\ oqflushing' = TRUE /\ oqflush_waitcounter' = Len(oqwaitq)
        /\ oqflush_output' = <<>> /\ fset' = Queued /\ UNCHANGED <<loading, outs>>
        /\ Goto(Flusher, "drop")
    BY <1>6, Zenon DEF StartWaitq, StartWaiting, queueVars
  <2>2. pc'[Flusher] = "drop"
    BY <2>1, ThreadFacts, Zenon DEF Goto, CoverTypes
  <2>3. Owed' \subseteq Queued
    BY <2>1, Zenon DEF Owed
  <2>4. Range(oqwaitq) = {oqwaitq[i] : i \in 1 .. Len(oqwaitq)}
    BY LenFacts DEF Range, CoverTypes
  <2>5. /\ oqflush_waitcounter' <= Len(oqwaitq')
        /\ Owed' \subseteq Sent(Len(outs))' \cup Range(loading')
                    \cup {oqwaitq'[i] : i \in 1 .. oqflush_waitcounter'}
    BY <1>2, <1>5, <2>1, <2>3, <2>4 DEF Sent, CoverTypes
  <2> QED
    BY <1>4, <2>1, <2>2, <2>5, Zenon DEF FlushCovers, Forwarding
<1>7. CASE StartLoading
  <2>1. /\ UNCHANGED flushVars /\ fset' = Queued /\ oqwaitq = <<>>
        /\ SendBatch(Flusher, loading) /\ Goto(Flusher, "create")
    BY <1>7, Zenon DEF StartLoading, FlushLoading
  <2>2. pc'[Flusher] = "create" /\ ~oqflushing'
    BY <1>1, <2>1, ThreadFacts, Zenon DEF Goto, CoverTypes, flushVars
  <2>3. outs' = Append(outs, loading) /\ loading \in Batches
    BY <2>1, Zenon DEF SendBatch, CoverTypes, Batches
  <2>4. Sent(Len(outs))' = Sent(Len(outs)) \cup Range(loading)
    BY <2>3, SentAppend, Zenon DEF CoverTypes
  <2>5. Range(oqwaitq) = {}
    BY <2>1 DEF Range
  <2>6. Owed' \subseteq Queued
    BY <2>1, Zenon DEF Owed
  <2>7. Owed' \subseteq Sent(Len(outs))'
    BY <1>5, <2>4, <2>5, <2>6, Zenon
  <2> QED
    BY <1>4, <2>2, <2>7, Zenon DEF FlushCovers
<1>8. CASE StartOuts
  <2>1. /\ fset' = (IF pc[Flusher] = "startq" THEN Queued ELSE fset)
        /\ pc[Flusher] = "startq" => oqwaitq = <<>> /\ StillRoom(loadsize, TRUE)
        /\ UNCHANGED <<outs, loading>> /\ Goto(Flusher, "drop")
        /\ \/ outs # <<>> /\ StartWaiting(0, LastOutput)
           \/ outs = <<>> /\ UNCHANGED flushVars
    BY <1>8, Zenon DEF StartOuts, queueVars
  <2>2. pc'[Flusher] = "drop"
    BY <2>1, ThreadFacts, Zenon DEF Goto, CoverTypes
  <2>3. Owed' \subseteq Sent(Len(outs))
    <3>1. CASE pc[Flusher] = "startq"
      <4>1. Range(oqwaitq) = {}
        BY <2>1, <3>1 DEF Range
      <4>2. loadsize = 0
        BY <2>1, <3>1, Zenon DEF StillRoom
      <4>3. \A r \in Range(loading) : Size[r] = 0
        BY <4>2, Zenon DEF Finished, Range
      <4>4. \A r \in Owed' : r \in Queued /\ Size[r] > 0
        BY <2>1, <3>1, Zenon DEF Owed
      <4> QED
        BY <1>5, <4>1, <4>3, <4>4
    <3>2. CASE pc[Flusher] # "startq"
      BY <1>1, <1>2, <2>1, <3>2, Zenon DEF FlushCovers, Owed
    <3> QED
      BY <3>1, <3>2, Zenon
  <2>4. CASE outs # <<>>
    <3>1. /\ oqflushing' = TRUE /\ oqflush_waitcounter' = 0 /\ Len(outs) \in DOMAIN outs
          /\ oqflush_output' = outs[Len(outs)]
      BY <2>1, <2>4 DEF StartWaiting, LastOutput, CoverTypes
    <3>2. ASSUME NEW p \in DOMAIN outs PROVE Sent(p)' = Sent(p)
      BY <2>1, Zenon DEF Sent
    <3>3. \E p \in DOMAIN outs' : outs'[p] = oqflush_output' /\ Owed' \subseteq Sent(p)'
      BY <2>1, <2>3, <3>1, <3>2, Zenon
    <3> QED
      BY <1>4, <2>2, <3>1, <3>3 DEF FlushCovers, Forwarding
  <2>5. CASE outs = <<>>
    <3>1. ~oqflushing'
      BY <1>1, <2>1, <2>5, Zenon DEF flushVars
    <3>2. Len(outs) = 0 /\ 1 .. 0 = {}
      BY <2>5
    <3>3. Owed' = {}
      BY <2>3, <3>2, Zenon DEF Sent
    <3> QED
      BY <1>4, <2>2, <3>1, <3>3, Zenon DEF FlushCovers, Forwarding
  <2> QED
    BY <2>4, <2>5, Zenon
<1> QED
  BY <1>6, <1>7, <1>8, Zenon

\* Every step keeps what the flush owes where the flush waits for it.
LEMMA CoverStep == IndInv /\ [Next]_vars => FlushCovers'
<1> SUFFICES ASSUME IndInv, [Next]_vars PROVE FlushCovers'
  BY Zenon
<1>0. TypeOK /\ LocalInv /\ FlushCovers /\ Finished /\ FlushCount /\ OutputOwned
  BY Zenon DEF IndInv
<1>1. CoverTypes
  BY <1>0, Zenon DEF TypeOK, CoverTypes
<1> USE <1>0, <1>1
<1>2. ASSUME NEW t \in Threads, NEW l, Goto(t, l),
             l \notin {"pull", "stopwait", "track"},
             t = Flusher => \/ pc[t] \in Forwarding /\ l \in Forwarding \cup {"outs"}
                            \/ pc[t] \in {"idle", "drop", "wait"}
                                 /\ l \in {"idle", "wait", "startq"},
             UNCHANGED <<flushVars, outs, loading, oqwaitq, fset, flushloadingnow>>,
             acked \cup lost \subseteq acked' \cup lost',
             \A u \in Threads \ {t} : oput'[u] = oput[u]
      PROVE  FlushCovers'
  <2>1. pc'[t] = l /\ \A u \in Threads \ {t} : pc'[u] = pc[u]
    BY <1>2, Zenon DEF Goto, CoverTypes
  <2>2. PlaceKept
    BY <1>2, <2>1, ThreadFacts, Zenon DEF PlaceKept, Forwarding
  <2>3. \A u \in Threads : Tracks(u)' => Tracks(u) /\ pc'[u] = pc[u]
    BY <1>2, <2>1, Zenon DEF Tracks
  <2> QED
    BY <1>2, <2>2, <2>3, CoverSame, Zenon
<1>3. ASSUME NEW t \in Senders, NEW r \in Reqs, Send(t, r) \/ Relay(t, r) PROVE FlushCovers'
  <2>1. \E l \in {"limit", "enqueue"} : Goto(t, l)
    BY <1>3, Zenon DEF Send, Relay
  <2>2. UNCHANGED <<flushVars, outs, loading, oqwaitq, fset, flushloadingnow, oput, acked, lost>>
    BY <1>3, Zenon DEF Send, Relay, queueVars
  <2> QED
    BY <1>2, <2>1, <2>2, ThreadFacts, Zenon
<1>4. ASSUME NEW t \in Senders, PassLimit(t) \/ Park(t) \/ Wakeup(t) \/ Reply(t) PROVE FlushCovers'
  <2>1. \E l \in {"enqueue", "blocked", "idle"} : Goto(t, l)
    BY <1>4, Zenon DEF PassLimit, Park, Wakeup, Reply
  <2>2. UNCHANGED <<flushVars, outs, loading, oqwaitq, fset, flushloadingnow, oput, acked, lost>>
    BY <1>4, Zenon DEF PassLimit, Park, Wakeup, Reply, queueVars, histVars
  <2> QED
    BY <1>2, <2>1, <2>2, ThreadFacts, Zenon
<1>5. ASSUME NEW t \in Senders, EnqueueNow(t) PROVE FlushCovers'
  <2>1. /\ t \in Threads /\ t # Flusher /\ req[t] \in Reqs /\ AppendReq(t, req[t])
        /\ UNCHANGED <<flushVars, oqwaitq, fset, flushloadingnow, acked, lost>>
        /\ \E l \in {"create", Return(t)} : Goto(t, l)
    BY <1>5, ThreadFacts, Zenon DEF EnqueueNow, LocalInv
  <2>2. CoverKept
    BY <2>1, CoverAppendReq, Zenon DEF CoverTypes
  <2>3. /\ pc'[t] \in {"create", "reply", "idle", "outs"}
        /\ \A u \in Threads \ {t} : pc'[u] = pc[u] /\ oput'[u] = oput[u]
    BY <2>1, Zenon DEF Goto, CoverTypes, Return, AppendReq, QueueReq, SendBatch
  <2>4. PlaceKept
    BY <2>1, <2>3, ThreadFacts, Zenon DEF PlaceKept
  <2>5. \A u \in Threads : Tracks(u)' => Tracks(u) /\ pc'[u] = pc[u]
    BY <2>1, <2>3, Zenon DEF Tracks
  <2> QED
    BY <2>1, <2>2, <2>4, <2>5, CoverGrow, Zenon
<1>6. ASSUME NEW t \in Senders, EnqueueWait(t) PROVE FlushCovers'
  <2>1. /\ t \in Threads /\ t # Flusher /\ req[t] \in Reqs
        /\ oqwaitq' = Append(oqwaitq, req[t])
        /\ UNCHANGED <<flushVars, outs, loading, fset, flushloadingnow, oput, acked, lost>>
        /\ \E l \in {"park", "reply"} : Goto(t, l)
    BY <1>6, ThreadFacts, Zenon DEF EnqueueWait, LocalInv
  <2>2. CoverKept
    BY <2>1, Zenon DEF CoverKept, Owed, Sent
  <2>3. /\ pc'[t] \in {"park", "reply"}
        /\ \A u \in Threads \ {t} : pc'[u] = pc[u]
    BY <2>1, Zenon DEF Goto, CoverTypes
  <2>4. PlaceKept
    BY <2>1, <2>3, ThreadFacts, Zenon DEF PlaceKept
  <2>5. \A u \in Threads : Tracks(u)' => Tracks(u) /\ pc'[u] = pc[u]
    BY <2>1, <2>3, Zenon DEF Tracks
  <2>6. oqflush_waitcounter <= Len(oqwaitq) =>
          /\ oqflush_waitcounter <= Len(oqwaitq')
          /\ \A i \in 1 .. oqflush_waitcounter : oqwaitq'[i] = oqwaitq[i]
    <3>1. /\ oqwaitq \in Seq(Reqs) /\ oqflush_waitcounter \in Nat
          /\ req[t] \in Reqs
      BY <2>1, Zenon DEF CoverTypes
    <3>2. oqflush_waitcounter <= Len(oqwaitq) =>
            /\ oqflush_waitcounter <= Len(Append(oqwaitq, req[t]))
            /\ \A i \in 1 .. oqflush_waitcounter :
                 Append(oqwaitq, req[t])[i] = oqwaitq[i]
      BY <3>1, AppendKeeps, Zenon
    <3> QED
      BY <2>1, <3>2, Zenon
  <2> QED
    BY <2>1, <2>2, <2>4, <2>5, <2>6, CoverGrow, Zenon
<1>7. ASSUME NEW t \in Threads, ForwardStep(t) \/ ForwardFail(t) PROVE FlushCovers'
  <2>1. CASE StartNext(t)
    BY <2>1, CoverStartNext, Zenon
  <2>2. CASE PullOne(t)
    BY <2>2, CoverPullOne, Zenon
  <2>3. CASE PullEnd(t)
    BY <2>3, CoverPullEnd, Zenon
  <2>4. CASE Track(t)
    BY <2>4, CoverTrack, Zenon
  <2>5. CASE StopWait(t)
    <3>1. /\ pc[t] = "stopwait"
          /\ Goto(t, AfterPull(t, oput[t], flushloadingnow[t]))
          /\ UNCHANGED <<flushVars, outs, loading, oqwaitq, fset, flushloadingnow, oput,
                         acked, lost>>
      BY <2>5, Zenon DEF StopWait, queueVars, histVars
    <3>2. /\ pc'[t] = AfterPull(t, oput[t], flushloadingnow[t])
          /\ \A u \in Threads \ {t} : pc'[u] = pc[u]
      BY <3>1, Zenon DEF Goto, CoverTypes
    <3>3. pc'[t] \in Forwarding \ {"pull"}
      BY <3>2, Zenon DEF AfterPull, Forwarding
    <3>4. PlaceKept
      BY <3>1, <3>2, <3>3, ThreadFacts, Zenon DEF PlaceKept, Forwarding
    <3>5. \A u \in Threads : Tracks(u)' => Tracks(u) /\ (pc[u] = "pull" => pc'[u] = "pull")
      BY <3>1, <3>2, <3>3, Zenon DEF Tracks, AfterPull
    <3> QED
      BY <3>1, <3>4, <3>5, CoverSame, Zenon
  <2>6. CASE CreateHandle(t) \/ Launch(t) \/ DoneOqFlush(t) \/ Progress(t) \/ ForwardFail(t)
    <3>1. /\ pc[t] \in Forwarding
          /\ \E l \in {"launch", "next", "progress", "done", Return(t)} : Goto(t, l)
      BY <2>6, Zenon DEF CreateHandle, Launch, DoneOqFlush, Progress,
         ForwardFail, CreateFail, LaunchFail, Continue, Forwarding
    <3>2. /\ UNCHANGED <<flushVars, outs, loading, oqwaitq, fset, flushloadingnow, oput>>
          /\ acked \cup lost \subseteq acked' \cup lost'
      BY <2>6, Zenon DEF CreateHandle, Launch, DoneOqFlush, Progress,
         ForwardFail, CreateFail, LaunchFail, queueVars, histVars
    <3>3. /\ Return(t) \notin {"pull", "stopwait", "track"}
          /\ t = Flusher => Return(t) = "outs"
      BY ThreadFacts, Zenon DEF Return
    <3> QED
      BY <1>2, <3>1, <3>2, <3>3, Zenon DEF Forwarding
  <2> QED
    BY <1>7, <2>1, <2>2, <2>3, <2>4, <2>5, <2>6, Zenon DEF ForwardStep
<1>8. ASSUME NEW b \in inflight, CompletionOK(b) \/ CompletionErr(b) PROVE FlushCovers'
  <2>1. /\ Goto(Net, "next")
        /\ UNCHANGED <<flushVars, outs, loading, oqwaitq, fset, flushloadingnow>>
        /\ acked \cup lost \subseteq acked' \cup lost'
        /\ oput' = [oput EXCEPT ![Net] = b]
    BY <1>8, Zenon DEF CompletionOK, CompletionErr, Completion, queueVars
  <2>2. \A u \in Threads \ {Net} : oput'[u] = oput[u]
    BY <2>1, Zenon DEF CoverTypes
  <2> QED
    BY <1>2, <2>1, <2>2, ThreadFacts, Zenon
<1>9. ASSUME AquireFlush \/ FlushStep PROVE FlushCovers'
  <2>1. CASE AquireFlush \/ DropRef \/ FlushReturn
    <3>1. /\ pc[Flusher] \in {"idle", "drop", "wait"}
          /\ \E l \in {"startq", "wait", "idle"} : Goto(Flusher, l)
          /\ UNCHANGED <<flushVars, outs, loading, oqwaitq, fset, flushloadingnow, oput,
                         acked, lost>>
      BY <2>1, Zenon DEF AquireFlush, DropRef, FlushReturn, queueVars, histVars
    <3> QED
      BY <1>2, <3>1, ThreadFacts, Zenon
  <2> QED
    BY <1>9, <2>1, CoverStart, Zenon DEF FlushStep
<1>10. ASSUME UNCHANGED vars PROVE FlushCovers'
  <2>1. UNCHANGED <<flushVars, outs, loading, oqwaitq, fset, acked, lost, pc, oput,
                    flushloadingnow>>
    BY <1>10, Zenon DEF vars, queueVars, histVars, threadVars
  <2>2. PlaceKept /\ \A u \in Threads : Tracks(u)' => Tracks(u)
    BY <2>1, Zenon DEF PlaceKept, Tracks
  <2> QED
    BY <2>1, <2>2, CoverSame, Zenon
<1> QED
  BY <1>3, <1>4, <1>5, <1>6, <1>7, <1>8, <1>9, <1>10 DEF Next, Quiescent, SenderStep
=============================================================================
