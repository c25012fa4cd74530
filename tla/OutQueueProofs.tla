--------------------------- MODULE OutQueueProofs ---------------------------
(***************************************************************************)
(* Proofs about one output queue: its steps keep the parents of waiting    *)
(* requests held back, and with OutQueueSteps and OutQueueFlush the        *)
(* inductive invariant.  The theorems follow from it.                      *)
(***************************************************************************)
EXTENDS OutQueueFlush

-----------------------------------------------------------------------------
\* Parents: who is held back while a request waits.

ParentTypes ==
  /\ pc \in [Threads -> Locations] /\ req \in [Senders -> Reqs \cup {NoReq}]
  /\ by \in [Reqs -> Senders \cup {NoThread}] /\ nrefs \in [Reqs -> Int]
  /\ need_wakeup \in [Reqs -> BOOLEAN] /\ responded \subseteq Reqs
  /\ fq \in [Threads -> Seq(Reqs)] /\ oqwaitq \in Seq(Reqs)

\* A request that nothing waits for.
Free(r) == ~Waits(r) /\ r \notin Released /\ r \notin responded /\ nrefs[r] = 0
Held == {"park", "blocked", "reply"}

\* A caller that is neither held back nor at the end of its call has a
\* request nothing waits for.
LEMMA CallerFree ==
  ASSUME NEW r \in Reqs, ParentOK(r), CallerInv, Calling(r),
         pc[by[r]] \notin Held
  PROVE  Free(r)
BY ThreadFacts DEF ParentOK, At, Free, Calling, Senders, Held

\* Such a request has no parent to agree with, unless its caller parks.
LEMMA FreeOK ==
  ASSUME NEW r \in Reqs, Free(r)', ~At(r, "park")'
  PROVE  ParentOK(r)'
BY DEF ParentOK, Free

\* A step of a thread that is not in a call with r, and leaves r alone.
LEMMA ParentOther ==
  ASSUME ParentTypes, NEW t \in Threads, NEW r \in Reqs, ParentOK(r),
         by'[r] = by[r], nrefs'[r] = nrefs[r], need_wakeup'[r] = need_wakeup[r],
         r \in responded' <=> r \in responded, Waits(r)' <=> Waits(r),
         r \in Released' <=> r \in Released,
         \A u \in Senders \ {t} : pc'[u] = pc[u] /\ req'[u] = req[u],
         by[r] = t => /\ pc[t] = "idle" \/ req[t] # r
                      /\ pc'[t] = "idle" \/ req'[t] # r
  PROVE  ParentOK(r)'
<1>1. Calling(r)' <=> Calling(r)
  BY Zenon DEF Calling
<1>2. ASSUME NEW l PROVE At(r, l)' <=> At(r, l)
  BY <1>1, Zenon DEF At, Calling
<1>3. /\ At(r, "park")' <=> At(r, "park")
      /\ At(r, "blocked")' <=> At(r, "blocked")
      /\ At(r, "reply")' <=> At(r, "reply")
  BY <1>2, Zenon
<1> QED
  BY <1>1, <1>3, Zenon DEF ParentOK

\* A step of a thread inside a call, to a place where it is not held back,
\* that leaves r alone.
Moves(t) ==
  /\ t \in Senders => pc[t] \notin Held \cup {"idle"}
  /\ t \in Senders => pc'[t] \notin {"park", "blocked"}
  /\ \A u \in Threads \ {t} : pc'[u] = pc[u]
  /\ req' = req /\ by' = by
LEMMA ParentMoves ==
  ASSUME ParentTypes, CallerInv, NEW t \in Threads, NEW r \in Reqs, ParentOK(r),
         Moves(t), nrefs'[r] = nrefs[r], need_wakeup'[r] = need_wakeup[r],
         r \in responded' <=> r \in responded, Waits(r)' <=> Waits(r),
         r \in Released' <=> r \in Released
  PROVE  ParentOK(r)'
<1>1. CASE by[r] = t /\ t \in Senders /\ req[t] = r
  <2>1. Calling(r) /\ pc[by[r]] \notin Held
    BY <1>1, Zenon DEF Moves, Calling
  <2>2. Free(r)'
    BY <2>1, CallerFree, Zenon DEF Free
  <2>3. ~At(r, "park")'
    BY <1>1, Zenon DEF Moves, At
  <2> QED
    BY <2>2, <2>3, FreeOK, Zenon
<1>2. CASE ~(by[r] = t /\ t \in Senders /\ req[t] = r)
  <2>1. by[r] = t => t \in Senders
    BY ThreadFacts, Zenon DEF ParentTypes
  <2>2. \A u \in Senders \ {t} : pc'[u] = pc[u] /\ req'[u] = req[u]
    BY ThreadFacts, Zenon DEF Moves
  <2> QED
    BY <1>2, <2>1, <2>2, ParentOther, Zenon DEF Moves
<1> QED
  BY <1>1, <1>2, Zenon

\* The caller of a request stays its caller.
LEMMA CallerMoves ==
  ASSUME CallerInv, NEW t \in Threads, Moves(t), todo' = todo,
         t \in Senders /\ pc'[t] = "reply" => t \in Handlers
  PROVE  CallerInv'
BY ThreadFacts, Zenon DEF CallerInv, Moves

\* A step of a thread inside a call that leaves all parents alone.
LEMMA ParentQuiet ==
  ASSUME ParentTypes, ParentInv, NEW t \in Threads, NEW l, Goto(t, l),
         t \in Senders => pc[t] \notin Held \cup {"idle"},
         t \in Senders => l \notin Held \/ l = Return(t),
         UNCHANGED <<oqwaitq, parentVars, req, fq, todo, by>>
  PROVE  ParentInv'
<1>1. /\ t \in Senders => l \notin {"park", "blocked"}
      /\ t \in Senders /\ l = "reply" => t \in Handlers
  BY ThreadFacts, Zenon DEF Return, Held
<1>2. pc'[t] = l /\ \A u \in Threads \ {t} : pc'[u] = pc[u]
  BY Zenon DEF Goto, ParentTypes
<1>3. Moves(t)
  BY <1>1, <1>2, Zenon DEF Moves
<1>4. CallerInv'
  BY <1>1, <1>2, <1>3, CallerMoves, Zenon DEF ParentInv
<1>5. ReleasedOnce'
  BY DEF ReleasedOnce, ParentInv
<1>6. ASSUME NEW r \in Reqs PROVE ParentOK(r)'
  <2>1. ParentOK(r) /\ CallerInv
    BY Zenon DEF ParentInv
  <2>2. /\ nrefs'[r] = nrefs[r] /\ need_wakeup'[r] = need_wakeup[r]
        /\ responded' = responded /\ (Waits(r)' <=> Waits(r))
        /\ Released' = Released
    BY Zenon DEF parentVars, Waits, Released
  <2> QED
    BY <1>3, <2>1, <2>2, ParentMoves, Zenon
<1> QED
  BY <1>4, <1>5, <1>6, Zenon DEF ParentInv

\* A sender takes a request: shuffler_send or shuffler_rpchand begins.
LEMMA ParentTake ==
  ASSUME ParentTypes, ParentInv, FreshInv, NEW t \in Senders, NEW r \in todo,
         r \in Reqs, pc[t] = "idle", NEW l, l \notin Held, Goto(t, l),
         req' = [req EXCEPT ![t] = r], by' = [by EXCEPT ![r] = t],
         todo' = todo \ {r}, UNCHANGED <<oqwaitq, parentVars, fq>>
  PROVE  ParentInv'
<1>0. t \in Threads /\ NoThread \notin Senders
  BY ThreadFacts, Zenon
<1>1. /\ pc'[t] = l /\ req'[t] = r /\ by'[r] = t
      /\ \A u \in Senders \ {t} : pc'[u] = pc[u] /\ req'[u] = req[u]
      /\ \A q \in Reqs \ {r} : by'[q] = by[q]
  BY <1>0, ThreadFacts, Zenon DEF Goto, ParentTypes
<1>2. by[r] = NoThread /\ ParentOK(r)
  BY Zenon DEF ParentInv, CallerInv
<1>3. CallerInv'
  BY <1>0, <1>1, <1>2 DEF ParentInv, CallerInv, Held
<1>4. ReleasedOnce'
  BY DEF ReleasedOnce, ParentInv
<1>5. /\ responded' = responded /\ Released' = Released
      /\ nrefs' = nrefs /\ need_wakeup' = need_wakeup
      /\ \A q \in Reqs : Waits(q)' <=> Waits(q)
  BY Zenon DEF parentVars, Waits, Released
<1>6. ParentOK(r)'
  <2>1. ~Waits(r)
    BY Zenon DEF FreshInv, Placed, Waits
  <2>2. Free(r)
    BY <1>0, <1>2, <2>1, ThreadFacts DEF ParentOK, At, Calling, Free
  <2>3. Free(r)' /\ ~At(r, "park")'
    BY <1>1, <1>5, <2>2, Zenon DEF Free, At, Held
  <2> QED
    BY <2>3, FreeOK, Zenon
<1>7. ASSUME NEW q \in Reqs \ {r} PROVE ParentOK(q)'
  <2>1. ParentOK(q)
    BY Zenon DEF ParentInv
  <2> QED
    BY <1>0, <1>1, <1>5, <2>1, ParentOther, Zenon
<1> QED
  BY <1>3, <1>4, <1>6, <1>7, Zenon DEF ParentInv

\* A step of a sender that is about its own request only.
LEMMA ParentOwn ==
  ASSUME ParentTypes, ParentInv, NEW t \in Senders, NEW r \in Reqs,
         req[t] = r, pc[t] # "idle", NEW l, Goto(t, l),
         l \in {"park", "blocked"} => t \in Clients, l = "reply" => t \in Handlers,
         ParentOK(r)', UNCHANGED <<req, fq, todo, by>>,
         \A q \in Reqs \ {r} :
           /\ nrefs'[q] = nrefs[q] /\ need_wakeup'[q] = need_wakeup[q]
           /\ q \in responded' <=> q \in responded
           /\ Waits(q)' <=> Waits(q)
  PROVE  ParentInv'
<1>1. /\ pc'[t] = l /\ t \in Threads
      /\ \A u \in Senders \ {t} : pc'[u] = pc[u] /\ req'[u] = req[u]
  BY ThreadFacts, Zenon DEF Goto, ParentTypes
<1>2. CallerInv'
  BY <1>1, Zenon DEF ParentInv, CallerInv
<1>3. ReleasedOnce' /\ Released' = Released
  BY DEF ReleasedOnce, Released, ParentInv
<1>4. ASSUME NEW q \in Reqs \ {r} PROVE ParentOK(q)'
  <2>1. ParentOK(q)
    BY Zenon DEF ParentInv
  <2> QED
    BY <1>1, <1>3, <2>1, ParentOther, Zenon
<1> QED
  BY <1>2, <1>3, <1>4, Zenon DEF ParentInv

\* req_via_mercury puts the request on the wait queue.
LEMMA ParentEnqueueWait ==
  ASSUME ParentTypes, ParentInv, NEW t \in Senders, EnqueueWait(t),
         NEW r \in Reqs, r = req[t]
  PROVE  ParentInv'
<1>1. /\ pc[t] = "enqueue" /\ t \in Threads /\ by[r] = t
      /\ ParentOK(r) /\ CallerInv
  BY ThreadFacts, Zenon DEF EnqueueWait, ParentInv, CallerInv
<1>2. Free(r)
  BY <1>1, CallerFree, Zenon DEF Calling, Held
<1>3. /\ UNCHANGED <<req, fq, todo, by, responded, need_wakeup>>
      /\ Goto(t, IF t \in Clients THEN "park" ELSE "reply")
      /\ nrefs' = [nrefs EXCEPT ![r] = 2] /\ oqwaitq' = Append(oqwaitq, r)
  BY Zenon DEF EnqueueWait, ParentRefs
<1>4. Range(oqwaitq') = Range(oqwaitq) \cup {r}
  BY <1>1, <1>3, RangeAppend DEF ParentTypes
<1>5. pc'[t] = IF t \in Clients THEN "park" ELSE "reply"
  BY <1>1, <1>3, Zenon DEF Goto, ParentTypes
<1>6. ParentOK(r)'
  <2>1. Calling(r)' /\ Waits(r)' /\ nrefs'[r] = 2 /\ by'[r] = t
    BY <1>1, <1>3, <1>4, <1>5, Zenon DEF Calling, Waits, ParentTypes
  <2>2. r \notin responded' /\ r \notin Released'
    BY <1>2, <1>3, Zenon DEF Free, Released
  <2>3. CASE t \in Clients
    <3>1. At(r, "park")' /\ ~At(r, "reply")' /\ t \notin Handlers
      BY <1>3, <1>5, <2>1, <2>3, ThreadAssumption, Zenon DEF At
    <3> QED
      BY <2>1, <2>2, <3>1 DEF ParentOK
  <2>4. CASE t \notin Clients
    <3>1. At(r, "reply")'
      BY <1>3, <1>5, <2>1, <2>4, Zenon DEF At
    <3> QED
      BY <2>1, <2>2, <2>4, <3>1, Zenon DEF ParentOK
  <2> QED
    BY <2>3, <2>4, Zenon
<1>7. \A q \in Reqs \ {r} :
        /\ nrefs'[q] = nrefs[q] /\ need_wakeup'[q] = need_wakeup[q]
        /\ q \in responded' <=> q \in responded
        /\ Waits(q)' <=> Waits(q)
  BY <1>3, <1>4, Zenon DEF Waits, ParentTypes
<1> QED
  BY <1>1, <1>3, <1>6, <1>7, ParentOwn, Zenon DEF Senders

\* The application drops its reference and blocks, or goes on.
LEMMA ParentPark ==
  ASSUME ParentTypes, ParentInv, NEW t \in Senders, Park(t),
         NEW r \in Reqs, r = req[t]
  PROVE  ParentInv'
<1>1. /\ pc[t] = "park" /\ t \in Threads /\ by[r] = t
      /\ ParentOK(r) /\ t \in Clients /\ t \notin Handlers
  BY ThreadFacts, ThreadAssumption, Zenon DEF Park, ParentInv, CallerInv
<1>2. /\ UNCHANGED <<req, fq, todo, by, responded, oqwaitq>>
      /\ nrefs' = [nrefs EXCEPT ![r] = @ - 1]
  BY Zenon DEF Park, queueVars, histVars
<1>3. At(r, "park") /\ ~At(r, "reply") /\ ~At(r, "blocked")
  BY <1>1, Zenon DEF At, Calling
<1>4. /\ nrefs'[r] = IF Waits(r) THEN 1 ELSE 0
      /\ r \notin responded /\ r \notin Released
  BY <1>1, <1>2, <1>3 DEF ParentOK, ParentTypes
<1>5. (Waits(r)' <=> Waits(r)) /\ Released' = Released
  BY <1>2, Zenon DEF Waits, Released
<1>6. CASE Waits(r)
  <2>1. /\ Goto(t, "blocked") /\ need_wakeup' = [need_wakeup EXCEPT ![r] = TRUE]
    BY <1>4, <1>6 DEF Park, LastRef
  <2>2. At(r, "blocked")' /\ ~At(r, "park")' /\ ~At(r, "reply")'
    BY <1>1, <1>2, <2>1, Zenon DEF At, Calling, Goto, ParentTypes
  <2>3. ParentOK(r)'
    BY <1>1, <1>2, <1>4, <1>5, <1>6, <2>1, <2>2 DEF ParentOK, ParentTypes
  <2> QED
    BY <1>1, <1>2, <2>1, <2>3, ParentOwn, Zenon DEF Waits, ParentTypes
<1>7. CASE ~Waits(r)
  <2>1. Goto(t, "idle") /\ need_wakeup' = need_wakeup
    BY <1>4, <1>7 DEF Park, LastRef
  <2>2. ~At(r, "park")' /\ Free(r)'
    BY <1>1, <1>2, <1>4, <1>5, <1>7, <2>1, Zenon DEF At, Calling, Goto,
       ParentTypes, Free
  <2>3. ParentOK(r)'
    BY <1>1, <2>2, FreeOK, Zenon
  <2> QED
    BY <1>1, <1>2, <2>1, <2>3, ParentOwn, Zenon DEF Waits, ParentTypes
<1> QED
  BY <1>6, <1>7, Zenon

\* The application has been woken up: its request has left the wait queue.
LEMMA ParentWakeup ==
  ASSUME ParentTypes, ParentInv, NEW t \in Senders, Wakeup(t),
         NEW r \in Reqs, r = req[t]
  PROVE  ParentInv'
<1>1. /\ pc[t] = "blocked" /\ t \in Threads /\ by[r] = t
      /\ ParentOK(r) /\ t \in Clients /\ t \notin Handlers /\ ~need_wakeup[r]
  BY ThreadFacts, ThreadAssumption, Zenon DEF Wakeup, ParentInv, CallerInv
<1>2. /\ UNCHANGED <<req, fq, todo, by, oqwaitq, nrefs, need_wakeup, responded>>
      /\ Goto(t, "idle")
  BY Zenon DEF Wakeup, queueVars, histVars, parentVars
<1>3. ~At(r, "park") /\ ~At(r, "reply")
  BY <1>1, Zenon DEF At, Calling
<1>4. Free(r)
  BY <1>1, <1>3 DEF ParentOK, Free
<1>5. ~At(r, "park")' /\ Free(r)'
  BY <1>1, <1>2, <1>4 DEF At, Calling, Goto, ParentTypes, Free, Waits, Released
<1>6. ParentOK(r)'
  BY <1>1, <1>5, FreeOK, Zenon
<1> QED
  BY <1>1, <1>2, <1>6, ParentOwn, Zenon DEF Waits

\* The end of shuffler_rpchand.
LEMMA ParentReply ==
  ASSUME ParentTypes, ParentInv, NEW t \in Senders, Reply(t),
         NEW r \in Reqs, r = req[t]
  PROVE  ParentInv'
<1>1. /\ pc[t] = "reply" /\ t \in Threads /\ by[r] = t
      /\ ParentOK(r) /\ t \in Handlers /\ t \notin Clients
  BY ThreadFacts, ThreadAssumption, Zenon DEF Reply, ParentInv, CallerInv
<1>2. /\ UNCHANGED <<req, fq, todo, by, oqwaitq, need_wakeup>>
      /\ Goto(t, "idle")
      /\ \/ nrefs[r] = 0 /\ nrefs' = nrefs
         \/ nrefs[r] > 0 /\ nrefs' = [nrefs EXCEPT ![r] = @ - 1]
      /\ responded' = IF nrefs'[r] < 1 THEN responded \cup {r} ELSE responded
  BY Zenon DEF Reply, queueVars, histVars, LastRef
<1>3. At(r, "reply") /\ Calling(r) /\ r \notin Released
  BY <1>1, Zenon DEF At, Calling, ParentOK
<1>4. nrefs'[r] = IF Waits(r) THEN 1 ELSE 0
  BY <1>1, <1>2, <1>3 DEF ParentOK, ParentTypes
<1>5. (Waits(r)' <=> Waits(r)) /\ r \notin Released'
  BY <1>2, <1>3, Zenon DEF Waits, Released
<1>6. ~Calling(r)' /\ ~At(r, "park")' /\ ~At(r, "reply")'
  BY <1>1, <1>2 DEF Calling, At, Goto, ParentTypes
<1>7. Waits(r) => r \notin responded'
  BY <1>1, <1>2, <1>4 DEF ParentOK
<1>8. ParentOK(r)'
  BY <1>1, <1>2, <1>4, <1>5, <1>6, <1>7, Units, Zenon DEF ParentOK
<1> QED
  BY <1>1, <1>2, <1>8, ParentOwn, Zenon DEF Waits, ParentTypes

\* What a released parent's list loses and gains.
LEMMA ReleasedAppend ==
  ASSUME fq \in [Threads -> Seq(Reqs)], ReleasedOnce, NEW t \in Threads,
         NEW r \in Reqs, r \notin Released,
         fq' = [fq EXCEPT ![t] = Append(@, r)]
  PROVE  Released' = Released \cup {r} /\ ReleasedOnce'
<1>1. /\ fq[t] \in Seq(Reqs) /\ fq'[t] = Append(fq[t], r)
      /\ \A u \in Threads \ {t} : fq'[u] = fq[u]
  BY Zenon
<1>2. Range(fq'[t]) = Range(fq[t]) \cup {r}
  BY <1>1, RangeAppend
<1>3. Released' = Released \cup {r}
  BY <1>1, <1>2 DEF Released
<1>4. /\ Len(fq[t]) \in Nat /\ DOMAIN fq[t] = 1 .. Len(fq[t])
      /\ DOMAIN fq'[t] = 1 .. (Len(fq[t]) + 1)
      /\ \A i \in 1 .. Len(fq[t]) : fq'[t][i] = fq[t][i]
      /\ fq'[t][Len(fq[t]) + 1] = r
  BY <1>1, AppendFacts, LenFacts
<1>5. \A u \in Threads : \A i \in DOMAIN fq[u] : fq[u][i] # r
  BY DEF Released, Range
<1>6. ASSUME NEW u \in Threads, NEW i \in DOMAIN fq'[u]
      PROVE  \/ i \in DOMAIN fq[u] /\ fq'[u][i] = fq[u][i]
             \/ u = t /\ i = Len(fq[t]) + 1 /\ fq'[u][i] = r
  BY <1>1, <1>4
<1>7. ASSUME NEW u \in Threads, NEW v \in Threads, NEW i \in DOMAIN fq'[u],
             NEW j \in DOMAIN fq'[v], fq'[u][i] = fq'[v][j]
      PROVE  u = v /\ i = j
  <2>1. \/ i \in DOMAIN fq[u] /\ fq'[u][i] = fq[u][i]
        \/ u = t /\ i = Len(fq[t]) + 1 /\ fq'[u][i] = r
    BY <1>6, Zenon
  <2>2. \/ j \in DOMAIN fq[v] /\ fq'[v][j] = fq[v][j]
        \/ v = t /\ j = Len(fq[t]) + 1 /\ fq'[v][j] = r
    BY <1>6, Zenon
  <2> QED
    BY <1>5, <1>7, <2>1, <2>2 DEF ReleasedOnce
<1>8. ReleasedOnce'
  BY <1>7, Zenon DEF ReleasedOnce
<1> QED
  BY <1>3, <1>8, Zenon

LEMMA ReleasedTail ==
  ASSUME fq \in [Threads -> Seq(Reqs)], ReleasedOnce, NEW t \in Threads,
         fq[t] # <<>>, fq' = [fq EXCEPT ![t] = Tail(@)]
  PROVE  /\ Head(fq[t]) \in Reqs /\ Head(fq[t]) \in Released
         /\ Released' = Released \ {Head(fq[t])} /\ ReleasedOnce'
<1> DEFINE w == fq[t]
           h == Head(w)
<1>1. /\ w \in Seq(Reqs) /\ fq'[t] = Tail(w)
      /\ \A u \in Threads \ {t} : fq'[u] = fq[u]
  BY Zenon
<1>2. /\ h \in Reqs /\ Range(w) = {h} \cup Range(Tail(w))
      /\ Len(w) \in Nat /\ DOMAIN w = 1 .. Len(w) /\ Len(w) > 0
      /\ DOMAIN Tail(w) = 1 .. (Len(w) - 1) /\ h = w[1]
      /\ \A i \in DOMAIN Tail(w) : Tail(w)[i] = w[i + 1]
  BY <1>1, RangeHeadTail
<1> HIDE DEF h
<1>3. h \notin Range(Tail(w))
  <2>1. \A i \in DOMAIN Tail(w) : i + 1 \in DOMAIN w /\ i + 1 # 1 /\ 1 \in DOMAIN w
    BY <1>2
  <2> QED
    BY <1>2, <2>1 DEF ReleasedOnce, Range
<1>4. \A u \in Threads \ {t} : h \notin Range(fq[u])
  <2>1. 1 \in DOMAIN w
    BY <1>2
  <2> QED
    BY <1>2, <2>1 DEF ReleasedOnce, Range
<1>5. \A u \in Threads : Range(fq'[u]) = Range(fq[u]) \ {h}
  BY <1>1, <1>2, <1>3, <1>4
<1>6. Released' = Released \ {h} /\ h \in Released
  BY <1>2, <1>5 DEF Released
<1>7. ASSUME NEW u \in Threads, NEW v \in Threads, NEW i \in DOMAIN fq'[u],
             NEW j \in DOMAIN fq'[v], fq'[u][i] = fq'[v][j]
      PROVE  u = v /\ i = j
  <2>1. ASSUME NEW x \in Threads, NEW k \in DOMAIN fq'[x]
        PROVE  \/ x # t /\ k \in DOMAIN fq[x] /\ fq'[x][k] = fq[x][k]
               \/ x = t /\ k \in Int /\ k + 1 \in DOMAIN fq[x] /\ fq'[x][k] = fq[x][k + 1]
    BY <1>1, <1>2
  <2>2. \/ u # t /\ i \in DOMAIN fq[u] /\ fq'[u][i] = fq[u][i]
        \/ u = t /\ i \in Int /\ i + 1 \in DOMAIN fq[u] /\ fq'[u][i] = fq[u][i + 1]
    BY <2>1, Zenon
  <2>3. \/ v # t /\ j \in DOMAIN fq[v] /\ fq'[v][j] = fq[v][j]
        \/ v = t /\ j \in Int /\ j + 1 \in DOMAIN fq[v] /\ fq'[v][j] = fq[v][j + 1]
    BY <2>1, Zenon
  <2>4. u = v
    BY <1>7, <2>2, <2>3 DEF ReleasedOnce
  <2>5. CASE u # t
    BY <1>7, <2>2, <2>3, <2>4, <2>5 DEF ReleasedOnce
  <2>6. CASE u = t
    <3>1. i + 1 = j + 1
      BY <1>7, <2>2, <2>3, <2>4, <2>6 DEF ReleasedOnce
    <3> QED
      BY <2>2, <2>3, <2>4, <2>6, <3>1
  <2> QED
    BY <2>4, <2>5, <2>6, Zenon
<1>8. ReleasedOnce'
  BY <1>7, Zenon DEF ReleasedOnce
<1> QED
  BY <1>2, <1>6, <1>8, Zenon DEF h

\* parent_stopwait answers the RPC or wakes up the application.
LEMMA ParentStopWait ==
  ASSUME ParentTypes, ParentInv, LocalInv, NEW t \in Threads, StopWait(t),
         NEW r, r = Head(fq[t])
  PROVE  ParentInv'
<1>1. pc[t] = "stopwait" /\ fq[t] # <<>>
  BY Zenon DEF StopWait, LocalInv
<1>2. /\ fq' = [fq EXCEPT ![t] = Tail(@)]
      /\ UNCHANGED <<req, todo, by, oqwaitq, nrefs>>
      /\ responded' = IF by[r] \in Handlers THEN responded \cup {r} ELSE responded
      /\ need_wakeup' = [need_wakeup EXCEPT ![r] = FALSE]
      /\ Goto(t, AfterPull(t, oput[t], flushloadingnow[t]))
  BY Zenon DEF StopWait, queueVars, histVars
<1>3. /\ r \in Reqs /\ r \in Released /\ Released' = Released \ {r}
      /\ ReleasedOnce'
  BY <1>1, <1>2, ReleasedTail, Zenon DEF ParentTypes, ParentInv
<1>4. AfterPull(t, oput[t], flushloadingnow[t]) \notin Held \cup {"idle"}
  BY Zenon DEF AfterPull, Held
<1>5. /\ pc'[t] \notin Held \cup {"idle"}
      /\ \A u \in Threads \ {t} : pc'[u] = pc[u]
  BY <1>2, <1>4, Zenon DEF Goto, ParentTypes
<1>6. Moves(t)
  BY <1>1, <1>2, <1>5, Zenon DEF Moves, Held
<1>7. CallerInv' /\ CallerInv
  BY <1>2, <1>5, <1>6, CallerMoves, Zenon DEF ParentInv, Held
<1>8. ParentOK(r)'
  <2>1. /\ ParentOK(r) /\ r \notin responded /\ by[r] \in Senders
        /\ by[r] \in Clients => At(r, "blocked")
        /\ by[r] \in Handlers => ~Calling(r)
        /\ ~Waits(r) /\ Clients \cap Handlers = {}
    BY <1>3, ThreadAssumption, Zenon DEF ParentInv, ParentOK
  <2>2. ~At(r, "reply") /\ ~At(r, "park")
    BY <2>1, Zenon DEF At, Senders
  <2>3. nrefs[r] = 0
    BY <2>1, <2>2 DEF ParentOK
  <2>4. by[r] = t => req[t] # r
    BY <1>1, <2>1, Zenon DEF Calling, At, Senders
  <2>5. by[r] # t => pc'[by[r]] = pc[by[r]]
    BY <1>5, <2>1, ThreadFacts, Zenon
  <2>6. Calling(r)' <=> Calling(r)
    BY <1>2, <2>4, <2>5, Zenon DEF Calling
  <2>7. ~At(r, "reply")' /\ ~At(r, "park")'
    BY <1>2, <2>2, <2>4, <2>5, <2>6, Zenon DEF At, Calling
  <2>8. ~Waits(r)' /\ r \notin Released' /\ nrefs'[r] = 0
    BY <1>2, <1>3, <2>1, <2>3, Zenon DEF Waits
  <2>9. r \in responded' => by'[r] \in Handlers /\ ~Calling(r)'
    BY <1>2, <2>1, <2>6, Zenon
  <2> QED
    BY <2>7, <2>8, <2>9 DEF ParentOK
<1>9. ASSUME NEW q \in Reqs \ {r} PROVE ParentOK(q)'
  <2>1. ParentOK(q)
    BY Zenon DEF ParentInv
  <2>2. /\ nrefs'[q] = nrefs[q] /\ need_wakeup'[q] = need_wakeup[q]
        /\ q \in responded' <=> q \in responded
        /\ Waits(q)' <=> Waits(q)
        /\ q \in Released' <=> q \in Released
    BY <1>2, <1>3, Zenon DEF Waits, ParentTypes
  <2> QED
    BY <1>6, <1>7, <2>1, <2>2, ParentMoves, Zenon
<1> QED
  BY <1>3, <1>7, <1>8, <1>9, Zenon DEF ParentInv

\* forw_start_next pulls a request off the wait queue and drops the
\* reference of its parent.
LEMMA ParentPullOne ==
  ASSUME ParentTypes, ParentInv, FreshInv, NEW t \in Threads, PullOne(t),
         NEW r, r = Head(oqwaitq)
  PROVE  ParentInv'
<1>1. /\ pc[t] = "pull" /\ oqwaitq # <<>>
      /\ UNCHANGED <<req, todo, by, need_wakeup, responded>>
      /\ oqwaitq' = Tail(oqwaitq)
      /\ nrefs' = [nrefs EXCEPT ![r] = @ - 1]
      /\ fq' = [fq EXCEPT ![t] = IF nrefs'[r] < 1 THEN Append(@, r) ELSE @]
  BY Zenon DEF PullOne, LastRef
<1>2. /\ r \in Reqs /\ Range(oqwaitq) = {r} \cup Range(oqwaitq')
      /\ Len(oqwaitq) \in Nat /\ DOMAIN oqwaitq = 1 .. Len(oqwaitq)
      /\ Len(oqwaitq) > 0 /\ r = oqwaitq[1]
      /\ DOMAIN oqwaitq' = 1 .. (Len(oqwaitq) - 1)
      /\ \A i \in DOMAIN oqwaitq' : oqwaitq'[i] = oqwaitq[i + 1]
  BY <1>1, RangeHeadTail, Zenon DEF ParentTypes
<1>3. Waits(r) /\ ~Waits(r)' /\ \A q \in Reqs \ {r} : Waits(q)' <=> Waits(q)
  <2>1. \A i \in DOMAIN oqwaitq' : i + 1 \in DOMAIN oqwaitq /\ i + 1 # 1 /\ 1 \in DOMAIN oqwaitq
    BY <1>2
  <2>2. r \notin Range(oqwaitq')
    BY <1>2, <2>1 DEF FreshInv, Range
  <2> QED
    BY <1>2, <2>2, Zenon DEF Waits
<1>4. /\ pc'[t] \notin Held \cup {"idle"}
      /\ \A u \in Threads \ {t} : pc'[u] = pc[u]
  <2>1. pc' = pc \/ Goto(t, AfterPull(t, oput'[t], flushloadingnow'[t]))
    BY Zenon DEF PullOne
  <2>2. AfterPull(t, oput'[t], flushloadingnow'[t]) \notin Held \cup {"idle"}
    BY Zenon DEF AfterPull, Held
  <2> QED
    BY <1>1, <2>1, <2>2, Zenon DEF Goto, ParentTypes, Held
<1>5. Moves(t)
  BY <1>1, <1>4, Zenon DEF Moves, Held
<1>6. CallerInv' /\ CallerInv
  BY <1>1, <1>4, <1>5, CallerMoves, Zenon DEF ParentInv, Held
<1>7. /\ ParentOK(r) /\ r \notin responded /\ r \notin Released
      /\ by[r] \in Senders
  <2>1. r \notin todo
    BY <1>2, Zenon DEF FreshInv, Placed
  <2> QED
    BY <1>2, <1>3, <1>6, <2>1, Zenon DEF ParentInv, ParentOK, CallerInv,
       ParentTypes
<1>8. /\ ReleasedOnce'
      /\ Released' = IF nrefs'[r] < 1 THEN Released \cup {r} ELSE Released
  <2>1. CASE nrefs'[r] < 1
    BY <1>1, <1>2, <1>7, <2>1, ReleasedAppend, Zenon DEF ParentTypes, ParentInv
  <2>2. CASE ~(nrefs'[r] < 1)
    <3>1. fq' = fq
      BY <1>1, <2>2, Zenon DEF ParentTypes
    <3> QED
      BY <2>2, <3>1 DEF ReleasedOnce, Released, ParentInv
  <2> QED
    BY <2>1, <2>2, Zenon
<1>9. ParentOK(r)'
  <2>1. by[r] = t => req[t] # r
    BY <1>1, <1>3, <1>7, Zenon DEF ParentOK, Calling, At, Senders
  <2>2. by[r] # t => pc'[by[r]] = pc[by[r]]
    BY <1>4, <1>7, ThreadFacts, Zenon
  <2>3. Calling(r)' <=> Calling(r)
    BY <1>1, <2>1, <2>2, Zenon DEF Calling
  <2>4. ASSUME NEW l PROVE At(r, l)' <=> At(r, l)
    BY <1>1, <2>1, <2>2, <2>3, Zenon DEF At, Calling
  <2>5. /\ At(r, "park")' <=> At(r, "park")
        /\ At(r, "blocked")' <=> At(r, "blocked")
        /\ At(r, "reply")' <=> At(r, "reply")
    BY <2>4, Zenon
  <2>6. nrefs[r] \in Int /\ nrefs'[r] = nrefs[r] - 1
    BY <1>1, <1>2, Zenon DEF ParentTypes
  <2>7. CASE At(r, "reply")
    <3>1. /\ nrefs[r] = 2 /\ ~At(r, "park") /\ ~At(r, "blocked")
      BY <1>3, <1>7, <2>7, Zenon DEF ParentOK, At
    <3>2. nrefs'[r] = 1 /\ ~(nrefs'[r] < 1)
      BY <2>6, <3>1
    <3>3. r \notin Released' /\ r \notin responded'
      BY <1>1, <1>7, <1>8, <3>2, Zenon
    <3> QED
      BY <1>3, <2>5, <2>7, <3>2, <3>3, Zenon DEF ParentOK
  <2>8. CASE At(r, "park")
    <3>1. nrefs[r] = 2 /\ ~At(r, "reply")
      BY <1>3, <1>7, <2>8, Units, Zenon DEF ParentOK, At
    <3>2. nrefs'[r] = 1 /\ ~(nrefs'[r] < 1)
      BY <2>6, <3>1
    <3>3. r \notin Released' /\ r \notin responded'
      BY <1>1, <1>7, <1>8, <3>2, Zenon
    <3> QED
      BY <1>3, <2>5, <2>8, <3>1, <3>2, <3>3, Units, Zenon DEF ParentOK
  <2>9. CASE ~At(r, "reply") /\ ~At(r, "park")
    <3>1. /\ nrefs[r] = 1
          /\ by[r] \in Clients => At(r, "blocked") /\ need_wakeup[r]
          /\ by[r] \in Handlers => ~Calling(r)
      BY <1>3, <1>7, <2>9, Units, Zenon DEF ParentOK
    <3>2. nrefs'[r] = 0
      BY <2>6, <3>1
    <3>3. r \notin responded'
      BY <1>1, <1>7, Zenon
    <3> QED
      BY <1>1, <1>3, <1>7, <2>3, <2>5, <2>9, <3>1, <3>2, <3>3, Units, Zenon
      DEF ParentOK
  <2> QED
    BY <2>7, <2>8, <2>9, Zenon
<1>10. ASSUME NEW q \in Reqs \ {r} PROVE ParentOK(q)'
  <2>1. ParentOK(q)
    BY Zenon DEF ParentInv
  <2>2. /\ nrefs'[q] = nrefs[q] /\ need_wakeup'[q] = need_wakeup[q]
        /\ responded' = responded
        /\ Waits(q)' <=> Waits(q)
        /\ q \in Released' <=> q \in Released
    BY <1>1, <1>3, <1>8, Zenon DEF ParentTypes
  <2> QED
    BY <1>5, <1>6, <2>1, <2>2, ParentMoves, Zenon
<1> QED
  BY <1>6, <1>8, <1>9, <1>10, Zenon DEF ParentInv

\* Every step keeps the parents.
LEMMA ParentStep == IndInv /\ [Next]_vars => ParentInv'
<1> SUFFICES ASSUME IndInv, [Next]_vars PROVE ParentInv'
  BY Zenon
<1>0. TypeOK /\ LocalInv /\ FreshInv /\ ParentInv
  BY Zenon DEF IndInv
<1>1. ParentTypes
  BY <1>0, Zenon DEF TypeOK, ParentTypes
<1> USE <1>0, <1>1
<1>2. ASSUME NEW t \in Senders, NEW r \in Reqs, Send(t, r) PROVE ParentInv'
  <2>1. \E l \in {"enqueue", "limit"} : Goto(t, l)
    BY <1>2, Zenon DEF Send
  <2> QED
    BY <1>2, <2>1, ParentTake, Zenon DEF Send, queueVars, Held
<1>3. ASSUME NEW t \in Senders, NEW r \in Reqs, Relay(t, r) PROVE ParentInv'
  BY <1>3, ParentTake, Zenon DEF Relay, queueVars, Held
<1>4. ASSUME NEW t \in Senders, SenderStep(t) PROVE ParentInv'
  <2>1. /\ t \in Threads
        /\ pc[t] \in {"park", "blocked", "reply", "enqueue"} => req[t] \in Reqs
    BY ThreadFacts, Zenon DEF LocalInv
  <2>2. CASE PassLimit(t)
    BY <2>1, <2>2, ParentQuiet, Zenon DEF PassLimit, queueVars, histVars, Held
  <2>3. CASE EnqueueNow(t)
    <3>1. \E l \in {"create", Return(t)} : Goto(t, l)
      BY <2>3, Zenon DEF EnqueueNow
    <3>2. pc[t] = "enqueue" /\ UNCHANGED <<oqwaitq, parentVars, req, fq, todo, by>>
      BY <2>3, Zenon DEF EnqueueNow
    <3> QED
      BY <2>1, <3>1, <3>2, ParentQuiet, Zenon DEF Held
  <2>4. CASE EnqueueWait(t)
    BY <2>1, <2>4, ParentEnqueueWait, Zenon DEF EnqueueWait
  <2>5. CASE Park(t)
    BY <2>1, <2>5, ParentPark, Zenon DEF Park
  <2>6. CASE Wakeup(t)
    BY <2>1, <2>6, ParentWakeup, Zenon DEF Wakeup
  <2>7. CASE Reply(t)
    BY <2>1, <2>7, ParentReply, Zenon DEF Reply
  <2> QED
    BY <1>4, <2>2, <2>3, <2>4, <2>5, <2>6, <2>7, Zenon DEF SenderStep
<1>5. ASSUME NEW t \in Threads, ForwardStep(t) \/ ForwardFail(t) PROVE ParentInv'
  <2>1. CASE PullOne(t)
    BY <2>1, ParentPullOne, Zenon
  <2>2. CASE StopWait(t)
    BY <2>2, ParentStopWait, Zenon
  <2>3. CASE ~PullOne(t) /\ ~StopWait(t)
    <3>1. /\ pc[t] \in Forwarding
          /\ \E l \in Forwarding \cup {Return(t)} : Goto(t, l)
          /\ UNCHANGED <<oqwaitq, parentVars, req, fq, todo, by>>
      BY <1>5, <2>3, Zenon DEF ForwardStep, ForwardFail, CreateHandle,
         CreateFail, Launch, LaunchFail, StartNext, PullEnd, Track,
         DoneOqFlush, Progress, Continue, AfterPull, Forwarding, queueVars,
         histVars
    <3> QED
      BY <3>1, ParentQuiet, Zenon DEF Forwarding, Held
  <2> QED
    BY <2>1, <2>2, <2>3, Zenon
<1>6. ASSUME NEW b \in inflight, CompletionOK(b) \/ CompletionErr(b) PROVE ParentInv'
  <2>1. /\ Goto(Net, "next") /\ UNCHANGED <<oqwaitq, parentVars, req, fq, todo, by>>
    BY <1>6, Zenon DEF CompletionOK, CompletionErr, Completion, queueVars
  <2> QED
    BY <2>1, ThreadFacts, ParentQuiet, Zenon
<1>7. ASSUME AquireFlush \/ FlushStep PROVE ParentInv'
  <2>1. /\ \E l \in Locations : Goto(Flusher, l)
        /\ UNCHANGED <<oqwaitq, parentVars, req, fq, todo, by>>
    BY <1>7, Zenon DEF AquireFlush, FlushStep, StartWaitq, StartLoading,
       StartOuts, DropRef, FlushReturn, queueVars, histVars, Locations
  <2> QED
    BY <2>1, ThreadFacts, ParentQuiet, Zenon
<1>8. ASSUME UNCHANGED vars PROVE ParentInv'
  <2>1. UNCHANGED <<pc, oqwaitq, parentVars, req, fq, todo, by>>
    BY <1>8, Zenon DEF vars, queueVars, threadVars, histVars
  <2>2. \E l \in Locations : Goto(Flusher, l)
    BY <2>1, ThreadFacts DEF Goto, ParentTypes
  <2> QED
    BY <2>1, <2>2, ThreadFacts, ParentQuiet, Zenon
<1> QED
  BY <1>2, <1>3, <1>4, <1>5, <1>6, <1>7, <1>8, Zenon DEF Next, Quiescent

-----------------------------------------------------------------------------
\* The theorems.

\* The queue as init_outset leaves it satisfies the inductive invariant.
LEMMA InitInv == Init => IndInv
<1> SUFFICES ASSUME Init PROVE IndInv
  BY Zenon
<1> USE ThreadFacts, ConfigFacts DEF Init
<1>1. TypeOK
  <2>1. /\ <<>> \in Seq(Clients) /\ <<>> \in Seq(Reqs)
        /\ <<>> \in Seq(BOOLEAN) /\ <<>> \in Seq(Batches)
    OBVIOUS
  <2>2. "idle" \in Locations
    BY Zenon DEF Locations
  <2>3. /\ oqlock \in Threads \cup {NoThread}
        /\ loading \in Seq(Reqs) /\ oqwaitq \in Seq(Reqs)
        /\ outs \in Seq(Batches) /\ oqflush_output \in Batches
        /\ shufsendq \in Seq(Clients)
        /\ arrivals \in Seq(Reqs) /\ batched \in Seq(Reqs)
    BY DEF Batches
  <2>4. /\ loadsize \in Nat /\ nsending \in Nat
        /\ oqflush_waitcounter \in Nat /\ outset_nrpcs \in Int
        /\ oqflush_counter \in Int /\ nfail \in Nat /\ nflush \in Nat
        /\ nrefs \in [Reqs -> Int]
    OBVIOUS
  <2>5. /\ oqflushing \in BOOLEAN /\ osetflushing \in BOOLEAN
        /\ curflush \in BOOLEAN /\ need_wakeup \in [Reqs -> BOOLEAN]
        /\ flushloadingnow \in [Threads -> BOOLEAN]
    BY Zenon
  <2>6. /\ pc \in [Threads -> Locations]
        /\ req \in [Senders -> Reqs \cup {NoReq}]
        /\ oput \in [Threads -> Batches]
        /\ fq \in [Threads -> Seq(Reqs)]
        /\ frames \in [Threads -> Seq(BOOLEAN)]
        /\ by \in [Reqs -> Senders \cup {NoThread}]
    BY <2>2 DEF Batches
  <2>7. /\ responded \subseteq Reqs /\ inflight \subseteq Batches
        /\ todo \subseteq Reqs /\ acked \subseteq Reqs /\ lost \subseteq Reqs
        /\ fset \subseteq Reqs
    BY Zenon
  <2> QED
    BY <2>5, <2>6, SMTT(40) DEF TypeOK
<1>2. LockInv /\ LocalInv
  BY Zenon DEF LockInv, LocalInv, InNext
<1>3. DOMAIN oqwaitq = {} /\ DOMAIN outs = {} /\ Len(outs) = 0
  OBVIOUS
<1>4. Range(batched) = {} /\ Range(loading) = {} /\ Range(oqwaitq) = {}
  BY DEF Range
<1>5. FreshInv
  BY <1>4 DEF FreshInv, Placed, Pending
<1>6. OutputOwned
  BY DEF OutputOwned, Holds
<1>7. LoadInv /\ PullRoom /\ RpcBound /\ WaitOnlyWhenFull /\ LoadBound
  BY DEF LoadInv, PullRoom, RpcBound, WaitOnlyWhenFull, LoadBound
<1>8. Fifo
  BY DEF Fifo
<1>9. ParentInv
  <2>1. DOMAIN <<>> = {} /\ Range(<<>>) = {}
    BY DEF Range
  <2>2. Released = {}
    BY <2>1 DEF Released
  <2>3. ASSUME NEW r \in Reqs PROVE ParentOK(r)
    BY <1>4, <2>2 DEF ParentOK, At, Calling, Waits
  <2>4. CallerInv
    BY SizeAssumption DEF CallerInv
  <2>5. ReleasedOnce
    BY <2>1 DEF ReleasedOnce
  <2> QED
    BY <2>3, <2>4, <2>5 DEF ParentInv
<1>10. FlushCount
  <2>1. DOMAIN <<>> = {}
    OBVIOUS
  <2>2. ~Ending /\ OneFlag
    BY <2>1 DEF Ending, Flagged, OneFlag
  <2>3. /\ ~curflush /\ ~oqflushing /\ ~osetflushing /\ oqflush_counter = 0
        /\ \A t \in Threads : pc[t] = "idle"
    BY Zenon
  <2>4. 0 = 0 + 0 /\ ~(0 > 0)
    OBVIOUS
  <2> QED
    BY <2>2, <2>3, <2>4, Zenon DEF FlushCount, OneFlag
<1>11. FlushCovers
  <2>1. Owed = {} /\ \A t \in Threads : ~Tracks(t)
    BY DEF Owed, Tracks
  <2> QED
    BY <2>1 DEF FlushCovers
<1>12. Finished
  <2>1. DOMAIN <<>> = {}
    OBVIOUS
  <2> QED
    BY <2>1 DEF Finished
<1> QED
  BY <1>1, <1>2, <1>5, <1>6, <1>7, <1>8, <1>9, <1>10, <1>11, <1>12, Zenon
  DEF IndInv

\* A step of any thread or of mercury preserves the inductive invariant.
LEMMA NextInv == IndInv /\ [Next]_vars => IndInv'
<1>1. ASSUME IndInv, Next PROVE IndInv'
  BY <1>1, TypeStep, LocalStep, LockStep, RoomStep, FifoStep, FreshStep,
     OutputStep, ParentStep, CountStep, CoverStep, FinishedStep, SMTT(40)
  DEF IndInv, Room
<1>2. ASSUME IndInv, UNCHANGED vars PROVE IndInv'
  <2>0. ParentInv' /\ FlushCount' /\ FlushCovers'
    BY <1>2, ParentStep, CountStep, CoverStep
  <2> USE <1>2 DEF vars, queueVars, flushVars, osetVars, flusherVars,
        parentVars, threadVars, hgVars, histVars, IndInv
  <2>1. TypeOK'
    BY Zenon DEF TypeOK
  <2>2. LockInv' /\ LocalInv'
    BY Zenon DEF LockInv, LocalInv
  <2>3. FreshInv'
    BY Zenon DEF FreshInv, Placed, Pending
  <2>4. OutputOwned'
    BY Zenon DEF OutputOwned, Holds
  <2>5. LoadInv' /\ PullRoom' /\ RpcBound' /\ WaitOnlyWhenFull' /\ LoadBound'
    BY Zenon DEF LoadInv, PullRoom, RpcBound, WaitOnlyWhenFull, LoadBound
  <2>6. Fifo'
    BY Zenon DEF Fifo
  <2>7. Finished'
    BY DEF Finished
  <2> QED
    BY <2>0, <2>1, <2>2, <2>3, <2>4, <2>5, <2>6, <2>7, Zenon
<1> QED
  BY <1>1, <1>2, Zenon

\* The inductive invariant holds in every reachable state, whatever the
\* numbers of threads and requests, the request sizes, the batch size, the
\* RPC limit and the failures of mercury.
THEOREM Invariance == Spec => []IndInv
BY InitInv, NextInv, PTL DEF Spec

\* Every variable of the output queue keeps its type.
THEOREM TypeCorrect == Spec => []TypeOK
<1>1. IndInv => TypeOK
  BY Zenon DEF IndInv
<1> QED
  BY <1>1, Invariance, PTL

\* At most maxoqrpc outputs are outstanding, and nsending counts them:
\* forw_start_next and start_qflush send without checking the limit that
\* req_via_mercury checks, and still respect it.
THEOREM RpcLimit == Spec => []RpcBound
<1>1. IndInv => RpcBound
  BY Zenon DEF IndInv
<1> QED
  BY <1>1, Invariance, PTL

\* While the lock is free requests wait only behind maxoqrpc outstanding
\* outputs, so a forw_start_next that will pull them is still to come.
THEOREM WaitersHaveRpc == Spec => []WaitOnlyWhenFull
<1>1. IndInv => WaitOnlyWhenFull
  BY Zenon DEF IndInv
<1> QED
  BY <1>1, Invariance, PTL

\* append_req_to_locked_outqueue keeps what is loading below buftarget, and
\* nothing is loading while no RPC may be started.
THEOREM LoadingBounded == Spec => []LoadBound
<1>1. IndInv => LoadBound
  BY Zenon DEF IndInv
<1> QED
  BY <1>1, Invariance, PTL

\* Requests leave in batches in the order in which req_via_mercury accepted
\* them: the wait queue, the loading list and flushes reorder nothing.
THEOREM OrderKept == Spec => []Fifo
<1>1. IndInv => Fifo
  BY Zenon DEF IndInv
<1> QED
  BY <1>1, Invariance, PTL

\* Every output is on the list exactly once and has one owner, a thread or
\* mercury: forw_start_next never removes an output that is gone.
THEOREM OneOwner == Spec => []OutputOwned
<1>1. IndInv => OutputOwned
  BY Zenon DEF IndInv
<1> QED
  BY <1>1, Invariance, PTL

\* The owner of a waiting request is held back: shuffler_send has not
\* returned, shuffler_rpchand has not answered the RPC.
THEOREM WaitersHeldBack == Spec => []HeldBack
<1>1. IndInv => HeldBack
  <2> SUFFICES ASSUME IndInv, NEW i \in DOMAIN oqwaitq, NEW r, r = oqwaitq[i]
               PROVE  /\ r \notin responded
                      /\ by[r] \in Clients => /\ req[by[r]] = r
                                              /\ pc[by[r]] \in {"park", "blocked"}
    BY DEF HeldBack
  <2>1. oqwaitq \in Seq(Reqs)
    BY DEF IndInv, TypeOK
  <2>2. r \in Reqs /\ Waits(r)
    BY <2>1 DEF Waits, Range
  <2> QED
    BY <2>2 DEF IndInv, ParentInv, ParentOK, At, Calling
<1> QED
  BY <1>1, Invariance, PTL

\* parent_stopwait runs once for a parent, when its last reference is gone,
\* and finds the application thread blocked: no wake-up is lost and no RPC
\* is answered twice.
THEOREM ReleasedExactlyOnce == Spec => []StopOnce
<1>1. IndInv => StopOnce
  <2> SUFFICES ASSUME IndInv, NEW t \in Threads, NEW i \in DOMAIN fq[t],
                      NEW r, r = fq[t][i]
               PROVE  /\ nrefs[r] = 0 /\ r \notin responded /\ r \notin Range(oqwaitq)
                      /\ by[r] \in Clients => /\ req[by[r]] = r /\ pc[by[r]] = "blocked"
                                              /\ need_wakeup[r]
                      /\ \A u \in Threads : \A j \in DOMAIN fq[u] :
                           fq[u][j] = r => u = t /\ j = i
    BY DEF StopOnce
  <2>1. fq \in [Threads -> Seq(Reqs)]
    BY DEF IndInv, TypeOK
  <2>2. r \in Reqs /\ r \in Released
    BY <2>1 DEF Released, Range
  <2>3. /\ ParentOK(r) /\ r \notin responded /\ by[r] \in Senders
        /\ by[r] \in Clients => At(r, "blocked") /\ need_wakeup[r]
        /\ by[r] \in Handlers => ~Calling(r)
        /\ ~Waits(r)
    BY <2>2, Zenon DEF IndInv, ParentInv, ParentOK
  <2>4. ~At(r, "reply") /\ ~At(r, "park")
    BY <2>3 DEF At, Senders
  <2>5. nrefs[r] = 0
    BY <2>3, <2>4, Units, Zenon DEF ParentOK
  <2>6. \A u \in Threads : \A j \in DOMAIN fq[u] : fq[u][j] = r => u = t /\ j = i
    BY DEF IndInv, ParentInv, ReleasedOnce
  <2> QED
    BY <2>3, <2>5, <2>6 DEF At, Calling, Waits
<1> QED
  BY <1>1, Invariance, PTL

\* The aborts of start_qflush and of forw_start_next are never reached.
THEOREM FlushNeverAborts == Spec => []FlushSane
<1>1. IndInv => FlushSane
  <2> SUFFICES ASSUME IndInv PROVE FlushSane
    OBVIOUS
  <2>1. (oqflushing => curflush) /\ (pc[Flusher] = "startq" => ~oqflushing)
    BY Zenon DEF IndInv, FlushCount
  <2>2. ASSUME NEW t \in Threads, pc[t] = "track" PROVE oqflushing /\ outs # <<>>
    <3>1. oqflushing
      BY <2>2 DEF IndInv, FlushCovers, Tracks
    <3>2. oput[t] \in Range(outs)
      BY <2>2 DEF IndInv, OutputOwned, Holds
    <3> QED
      BY <3>1, <3>2 DEF Range
  <2> QED
    BY <2>1, <2>2 DEF FlushSane
<1> QED
  BY <1>1, Invariance, PTL

\* When shuffler_flush_qs has returned, every request with data that was in
\* the queue when it looked has been answered or was dropped with a
\* complaint, whatever was submitted, completed or failed meanwhile.
THEOREM FlushComplete == Spec => []FlushDelivers
<1>1. IndInv => FlushDelivers
  <2> SUFFICES ASSUME IndInv, ~curflush PROVE Owed = {}
    BY DEF FlushDelivers, Owed
  <2>1. pc[Flusher] = "idle" /\ ~oqflushing
    BY Zenon DEF IndInv, FlushCount
  <2> QED
    BY <2>1 DEF IndInv, FlushCovers
<1> QED
  BY <1>1, Invariance, PTL
=============================================================================
