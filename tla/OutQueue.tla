------------------------------ MODULE OutQueue ------------------------------
(***************************************************************************)
(* One output queue (struct outqueue) of the 3-hop shuffler and the part   *)
(* of its output set (struct outset) that its operations touch.            *)
(*                                                                         *)
(* Requests are batched on "loading" until buftarget bytes are there; a    *)
(* batch becomes an output on "outs" and is sent as one RPC; when maxoqrpc *)
(* outputs are outstanding further requests go to the wait queue and their *)
(* owner is held back (an application thread blocks, an inbound RPC is not *)
(* answered).  A flush pushes out everything that is queued when it starts *)
(* and waits for it.  Three kinds of thread work on the queue: senders     *)
(* (application threads and RPC handlers that relay), the network thread   *)
(* that runs the RPC completions, and the thread that flushes.  Any of     *)
(* them runs forw_start_next when the RPC it launches fails.               *)
(*                                                                         *)
(* Grain: one step per critical section.  oqlock is explicit because       *)
(* forw_start_next pulls requests off the wait queue in a loop, one step   *)
(* per request, while it holds the lock.  A batch is its nonempty sequence *)
(* of requests, so it is its own identity; <<>> stands for a NULL output.  *)
(***************************************************************************)
EXTENDS Integers, Sequences, FiniteSets, Functions

CONSTANTS
  Reqs,        \* the requests, each submitted at most once
  Size,        \* Size[r]: request->datalen
  Clients,     \* application threads in shuffler_send
  Handlers,    \* network threads in shuffler_rpchand, relaying a request
  Net,         \* the network thread that services this output set
  Flusher,     \* the thread in shuffler_flush_qs (flushes are serialized)
  NoThread,    \* oqlock is free
  NoReq,       \* a sender is between requests
  maxoqrpc, buftarget, shufsend_rpclimit,
  MaxFail,     \* bound: mercury calls that fail in a behaviour
  MaxFlush     \* bound: flushes in a behaviour

Senders == Clients \cup Handlers
Threads == Senders \cup {Net, Flusher}

ASSUME ThreadAssumption ==
  /\ Clients \cap Handlers = {}
  /\ Net \notin Senders /\ Flusher \notin Senders /\ Net # Flusher
  /\ NoThread \notin Threads
ASSUME ConfigAssumption ==
  /\ maxoqrpc \in Nat \ {0}
  /\ buftarget \in Nat \ {0}
  /\ shufsend_rpclimit \in Nat
  /\ MaxFail \in Nat /\ MaxFlush \in Nat
ASSUME SizeAssumption == Size \in [Reqs -> Nat] /\ NoReq \notin Reqs

VARIABLES
  \* struct outqueue
  oqlock, loading, loadsize, outs, nsending, oqwaitq,
  oqflushing, oqflush_waitcounter, oqflush_output,
  \* struct outset
  outset_nrpcs, shufsendq, osetflushing, oqflush_counter,
  \* shuffler->curflush is not NULL
  curflush,
  \* struct req_parent of a request on the wait queue; HG_Respond done
  nrefs, need_wakeup, responded,
  \* the local variables of each thread
  pc, req, oput, flushloadingnow, fq, frames,
  \* mercury: RPCs on the wire, failures so far
  inflight, nfail,
  \* history: not yet submitted, submitter, order of arrival, order of
  \* batching, outcome, what the running flush found queued, flushes so far
  todo, by, arrivals, batched, acked, lost, fset, nflush

queueVars  == <<loading, loadsize, outs, nsending, oqwaitq>>
flushVars  == <<oqflushing, oqflush_waitcounter, oqflush_output>>
osetVars   == <<outset_nrpcs, shufsendq>>
flusherVars == <<osetflushing, oqflush_counter, curflush>>
parentVars == <<nrefs, need_wakeup, responded>>
threadVars == <<pc, req, oput, flushloadingnow, fq, frames>>
hgVars     == <<inflight, nfail>>
histVars   == <<todo, by, arrivals, batched, acked, lost, fset, nflush>>
vars == <<oqlock, queueVars, flushVars, osetVars, flusherVars, parentVars,
          threadVars, hgVars, histVars>>

Batches == Seq(Reqs)
Locations == {"idle", "limit", "enqueue", "park", "blocked", "reply",
              "create", "launch", "next", "pull", "stopwait", "track",
              "done", "progress", "startq", "outs", "drop", "wait"}

Init ==
  /\ oqlock = NoThread
  /\ loading = <<>> /\ loadsize = 0 /\ outs = <<>> /\ nsending = 0
  /\ oqwaitq = <<>>
  /\ oqflushing = FALSE /\ oqflush_waitcounter = 0 /\ oqflush_output = <<>>
  /\ outset_nrpcs = 0 /\ shufsendq = <<>>
  /\ osetflushing = FALSE /\ oqflush_counter = 0 /\ curflush = FALSE
  /\ nrefs = [r \in Reqs |-> 0]
  /\ need_wakeup = [r \in Reqs |-> FALSE]
  /\ responded = {}
  /\ pc = [t \in Threads |-> "idle"]
  /\ req = [t \in Senders |-> NoReq]
  /\ oput = [t \in Threads |-> <<>>]
  /\ flushloadingnow = [t \in Threads |-> FALSE]
  /\ fq = [t \in Threads |-> <<>>]
  /\ frames = [t \in Threads |-> <<>>]
  /\ inflight = {} /\ nfail = 0
  /\ todo = Reqs /\ by = [r \in Reqs |-> NoThread]
  /\ arrivals = <<>> /\ batched = <<>>
  /\ acked = {} /\ lost = {} /\ fset = {} /\ nflush = 0


-----------------------------------------------------------------------------
\* append_req_to_locked_outqueue.  tosend (the result) is oput'[t] # <<>>.

Goto(t, l) == pc' = [pc EXCEPT ![t] = l]

\* What follows a completed forward_reqs_now or forw_start_next: the tail of
\* the enclosing forw_start_next, or the end of the operation that called it.
Return(t) == CASE t \in Handlers -> "reply"
               [] t = Flusher -> "outs"
               [] OTHER -> "idle"
Continue(t, fr) == IF fr = <<>> THEN Return(t) ELSE "done"

StillRoom(newloadsize, flushnow) ==
  newloadsize = 0 \/ (newloadsize < buftarget /\ ~flushnow)

QueueReq(t, r) ==
  /\ loading' = Append(loading, r)
  /\ loadsize' = loadsize + Size[r]
  /\ oput' = [oput EXCEPT ![t] = <<>>]
  /\ UNCHANGED <<outs, nsending, batched>>

SendBatch(t, b) ==
  /\ outs' = Append(outs, b)
  /\ nsending' = nsending + 1
  /\ loading' = <<>> /\ loadsize' = 0
  /\ oput' = [oput EXCEPT ![t] = b]
  /\ batched' = batched \o b

AppendReq(t, r) ==
  \/ StillRoom(loadsize + Size[r], FALSE) /\ QueueReq(t, r)
  \/ ~StillRoom(loadsize + Size[r], FALSE) /\ SendBatch(t, Append(loading, r))

\* The call with req == NULL and flushnow set.
FlushLoading(t) ==
  \/ /\ StillRoom(loadsize, TRUE)
     /\ oput' = [oput EXCEPT ![t] = <<>>]
     /\ UNCHANGED <<loading, loadsize, outs, nsending, batched>>
  \/ ~StillRoom(loadsize, TRUE) /\ SendBatch(t, loading)

-----------------------------------------------------------------------------
\* Senders: shuffler_send, sender_limit, req_via_mercury.

OverLimit == shufsend_rpclimit > 0 /\ outset_nrpcs >= shufsend_rpclimit

\* shuffler_send: pass sender_limit or queue up at its gate.
Send(t, r) ==
  /\ t \in Clients /\ pc[t] = "idle" /\ r \in todo
  /\ todo' = todo \ {r} /\ by' = [by EXCEPT ![r] = t]
  /\ req' = [req EXCEPT ![t] = r]
  /\ \/ ~OverLimit /\ Goto(t, "enqueue") /\ UNCHANGED shufsendq
     \/ OverLimit /\ Goto(t, "limit") /\ shufsendq' = Append(shufsendq, t)
  /\ UNCHANGED <<oqlock, queueVars, flushVars, outset_nrpcs, flusherVars,
                 parentVars, oput, flushloadingnow, fq, frames, hgVars,
                 arrivals, batched, acked, lost, fset, nflush>>

\* sender_limit returns: the waker has taken the thread off shufsendq.
PassLimit(t) ==
  /\ pc[t] = "limit" /\ t \notin Range(shufsendq)
  /\ Goto(t, "enqueue")
  /\ UNCHANGED <<oqlock, queueVars, flushVars, osetVars, flusherVars,
                 parentVars, req, oput, flushloadingnow, fq, frames, hgVars,
                 histVars>>

\* shuffler_rpchand has a request that goes out on this queue.
Relay(t, r) ==
  /\ t \in Handlers /\ pc[t] = "idle" /\ r \in todo
  /\ todo' = todo \ {r} /\ by' = [by EXCEPT ![r] = t]
  /\ req' = [req EXCEPT ![t] = r]
  /\ Goto(t, "enqueue")
  /\ UNCHANGED <<oqlock, queueVars, flushVars, osetVars, flusherVars,
                 parentVars, oput, flushloadingnow, fq, frames, hgVars,
                 arrivals, batched, acked, lost, fset, nflush>>

\* Fault: off by one at the RPC limit.
NeedWaitLate == nsending > maxoqrpc

NeedWait == nsending >= maxoqrpc

\* Fault: no reference for the caller; the reference after the last one.
ParentRefsOne == 1
LastRefEarly(r) == nrefs'[r] <= 1

\* A new parent holds one reference for the request and one for the caller
\* (req_parent_init); whoever drops the last one ends the wait.
ParentRefs == 2
LastRef(r) == nrefs'[r] < 1

\* req_via_mercury with room: add the request, send the batch it completes.
EnqueueNow(t) ==
  /\ pc[t] = "enqueue" /\ oqlock = NoThread
  /\ ~NeedWait
  /\ arrivals' = Append(arrivals, req[t])
  /\ AppendReq(t, req[t])
  /\ Goto(t, IF oput'[t] # <<>> THEN "create" ELSE Return(t))
  /\ UNCHANGED <<oqlock, oqwaitq, flushVars, osetVars, flusherVars,
                 parentVars, req, flushloadingnow, fq, frames, hgVars,
                 todo, by, acked, lost, fset, nflush>>

\* req_via_mercury without room: the request waits, owned by a new parent.
EnqueueWait(t) ==
  /\ pc[t] = "enqueue" /\ oqlock = NoThread
  /\ NeedWait
  /\ arrivals' = Append(arrivals, req[t])
  /\ oqwaitq' = Append(oqwaitq, req[t])
  /\ nrefs' = [nrefs EXCEPT ![req[t]] = ParentRefs]
  /\ Goto(t, IF t \in Clients THEN "park" ELSE "reply")
  /\ UNCHANGED <<oqlock, loading, loadsize, outs, nsending, flushVars,
                 osetVars, flusherVars, need_wakeup, responded, req, oput,
                 flushloadingnow, fq, frames, hgVars, todo, by, batched,
                 acked, lost, fset, nflush>>

\* The application drops the caller's reference under pcvlock; it blocks
\* unless the request has left the wait queue meanwhile.
Park(t) ==
  /\ pc[t] = "park"
  /\ nrefs' = [nrefs EXCEPT ![req[t]] = @ - 1]
  /\ \/ LastRef(req[t]) /\ Goto(t, "idle") /\ UNCHANGED need_wakeup
     \/ /\ ~LastRef(req[t]) /\ Goto(t, "blocked")
        /\ need_wakeup' = [need_wakeup EXCEPT ![req[t]] = TRUE]
  /\ UNCHANGED <<oqlock, queueVars, flushVars, osetVars, flusherVars,
                 responded, req, oput, flushloadingnow, fq, frames, hgVars,
                 histVars>>

Wakeup(t) ==
  /\ pc[t] = "blocked" /\ ~need_wakeup[req[t]]
  /\ Goto(t, "idle")
  /\ UNCHANGED <<oqlock, queueVars, flushVars, osetVars, flusherVars,
                 parentVars, req, oput, flushloadingnow, fq, frames, hgVars,
                 histVars>>

\* The end of shuffler_rpchand: answer the RPC at once if none of its
\* requests waited, else drop the caller's reference and answer if it was
\* the last (parent_dref_stopwait).
Reply(t) ==
  /\ pc[t] = "reply"
  /\ \/ nrefs[req[t]] = 0 /\ UNCHANGED nrefs
     \/ nrefs[req[t]] > 0 /\ nrefs' = [nrefs EXCEPT ![req[t]] = @ - 1]
  /\ responded' = IF LastRef(req[t]) THEN responded \cup {req[t]}
                                     ELSE responded
  /\ Goto(t, "idle")
  /\ UNCHANGED <<oqlock, queueVars, flushVars, osetVars, flusherVars,
                 need_wakeup, req, oput, flushloadingnow, fq, frames, hgVars,
                 histVars>>

-----------------------------------------------------------------------------
\* forward_reqs_now and the RPC it launches.

\* HG_Create worked: the output moves from OSTEP_PREP to OSTEP_SEND (under
\* oqlock) and is counted as a started RPC.
CreateHandle(t) ==
  /\ pc[t] = "create" /\ oqlock = NoThread
  /\ outset_nrpcs' = outset_nrpcs + 1
  /\ Goto(t, "launch")
  /\ UNCHANGED <<oqlock, queueVars, flushVars, shufsendq, flusherVars,
                 parentVars, req, oput, flushloadingnow, fq, frames, hgVars,
                 histVars>>

\* HG_Create failed: the batch is dropped and its output given up.
CreateFail(t) ==
  /\ pc[t] = "create" /\ nfail < MaxFail
  /\ nfail' = nfail + 1
  /\ lost' = lost \cup Range(oput[t])
  /\ Goto(t, "next")
  /\ UNCHANGED <<oqlock, queueVars, flushVars, osetVars, flusherVars,
                 parentVars, req, oput, flushloadingnow, fq, frames, inflight,
                 todo, by, arrivals, batched, acked, fset, nflush>>

Launch(t) ==
  /\ pc[t] = "launch"
  /\ inflight' = inflight \cup {oput[t]}
  /\ Goto(t, Continue(t, frames[t]))
  /\ UNCHANGED <<oqlock, queueVars, flushVars, osetVars, flusherVars,
                 parentVars, req, oput, flushloadingnow, fq, frames, nfail,
                 histVars>>

\* HG_Forward failed: walk back the count, drop the batch, give it up.
LaunchFail(t) ==
  /\ pc[t] = "launch" /\ nfail < MaxFail
  /\ nfail' = nfail + 1
  /\ outset_nrpcs' = outset_nrpcs - 1
  /\ lost' = lost \cup Range(oput[t])
  /\ Goto(t, "next")
  /\ UNCHANGED <<oqlock, queueVars, flushVars, shufsendq, flusherVars,
                 parentVars, req, oput, flushloadingnow, fq, frames, inflight,
                 todo, by, arrivals, batched, acked, fset, nflush>>

\* forw_cb: mercury hands the completion of an RPC, in any order, to the
\* network thread.
Completion(b) ==
  /\ pc[Net] = "idle" /\ b \in inflight
  /\ inflight' = inflight \ {b}
  /\ outset_nrpcs' = outset_nrpcs - 1
  /\ oput' = [oput EXCEPT ![Net] = b]
  /\ Goto(Net, "next")
  /\ UNCHANGED <<oqlock, queueVars, flushVars, shufsendq, flusherVars,
                 parentVars, req, flushloadingnow, fq, frames, todo, by,
                 arrivals, batched, fset, nflush>>

CompletionOK(b)  == Completion(b) /\ acked' = acked \cup Range(b)
                                  /\ UNCHANGED <<lost, nfail>>
CompletionErr(b) == /\ nfail < MaxFail
                    /\ Completion(b) /\ lost' = lost \cup Range(b)
                    /\ nfail' = nfail + 1 /\ UNCHANGED acked

-----------------------------------------------------------------------------
\* forw_start_next.

Pos(b) == CHOOSE i \in DOMAIN outs : outs[i] = b
OnFlushOutput(t) == oqflushing /\ oput[t] = oqflush_output

\* The output the flush waits for once oput[t] is gone: the one before it.
PrevOutput(b) == IF Pos(b) = 1 THEN <<>> ELSE outs[Pos(b) - 1]

SendingLess == IF nsending > 0 THEN nsending - 1 ELSE nsending

\* outs without its i-th output
Without(s, i) == SubSeq(s, 1, i - 1) \o SubSeq(s, i + 1, Len(s))

\* Take the lock, advance the flush past the finished output, remove it.
\* The new frame records flush_done.
StartNext(t) ==
  /\ pc[t] = "next" /\ oqlock = NoThread
  /\ oqlock' = t
  /\ LET flush_done == OnFlushOutput(t) /\ Pos(oput[t]) = 1 IN
       /\ oqflushing' = (oqflushing /\ ~flush_done)
       /\ oqflush_output' = IF OnFlushOutput(t) THEN PrevOutput(oput[t])
                                                ELSE oqflush_output
       /\ frames' = [frames EXCEPT ![t] = <<flush_done>> \o @]
  /\ outs' = Without(outs, Pos(oput[t]))
  /\ nsending' = SendingLess
  /\ flushloadingnow' = [flushloadingnow EXCEPT ![t] = FALSE]
  /\ Goto(t, "pull")
  /\ UNCHANGED <<loading, loadsize, oqwaitq, oqflush_waitcounter, osetVars,
                 flusherVars, parentVars, req, oput, fq, hgVars, histVars>>

\* Fault: the last batch of the flush is sent untracked.
AfterPullNoTrack(t, b, f) == IF fq'[t] # <<>> THEN "stopwait"
                      ELSE IF b = <<>> THEN "done"
                      ELSE "create"

\* The end of the locked section: the parents on fq are released, then the
\* new batch, if there is one, is tracked for the flush and forwarded.
AfterPull(t, b, f) == IF fq'[t] # <<>> THEN "stopwait"
                      ELSE IF b = <<>> THEN "done"
                      ELSE IF f THEN "track" ELSE "create"

\* The request pulled is one of those the flush found on the wait queue.
Counted == oqflushing /\ oqflush_waitcounter > 0

\* One turn of the loop: pull a request, count it for the flush, detach it
\* from its parent, append it.  The loop ends when that completes a batch.
PullOne(t) ==
  /\ pc[t] = "pull" /\ oqwaitq # <<>>
  /\ LET r == Head(oqwaitq) IN
       /\ oqwaitq' = Tail(oqwaitq)
       /\ oqflush_waitcounter' = IF Counted THEN oqflush_waitcounter - 1
                                            ELSE oqflush_waitcounter
       /\ flushloadingnow' = [flushloadingnow EXCEPT ![t] =
                                @ \/ (Counted /\ oqflush_waitcounter = 1)]
       /\ nrefs' = [nrefs EXCEPT ![r] = @ - 1]
       /\ fq' = [fq EXCEPT ![t] = IF LastRef(r) THEN Append(@, r) ELSE @]
       /\ AppendReq(t, r)
  /\ \/ oput'[t] = <<>> /\ UNCHANGED <<oqlock, pc>>
     \/ /\ oput'[t] # <<>>
        /\ oqlock' = NoThread
        /\ Goto(t, AfterPull(t, oput'[t], flushloadingnow'[t]))
  /\ UNCHANGED <<oqflushing, oqflush_output, osetVars, flusherVars,
                 need_wakeup, responded, req, frames, hgVars, todo, by,
                 arrivals, acked, lost, fset, nflush>>

\* The wait queue is empty: push out a partial batch if the flush needs it.
PullEnd(t) ==
  /\ pc[t] = "pull" /\ oqwaitq = <<>>
  /\ \/ flushloadingnow[t] /\ FlushLoading(t)
     \/ /\ ~flushloadingnow[t]
        /\ oput' = [oput EXCEPT ![t] = <<>>]
        /\ UNCHANGED <<loading, loadsize, outs, nsending, batched>>
  /\ oqlock' = NoThread
  /\ UNCHANGED fq
  /\ Goto(t, AfterPull(t, oput'[t], flushloadingnow[t]))
  /\ UNCHANGED <<oqwaitq, flushVars, osetVars, flusherVars, parentVars, req,
                 flushloadingnow, frames, hgVars, todo, by, arrivals, acked,
                 lost, fset, nflush>>

\* parent_stopwait: answer the RPC or wake up the application.
StopWait(t) ==
  /\ pc[t] = "stopwait"
  /\ LET r == Head(fq[t]) IN
       /\ responded' = IF by[r] \in Handlers THEN responded \cup {r}
                                             ELSE responded
       /\ need_wakeup' = [need_wakeup EXCEPT ![r] = FALSE]
  /\ fq' = [fq EXCEPT ![t] = Tail(@)]
  /\ Goto(t, AfterPull(t, oput[t], flushloadingnow[t]))
  /\ UNCHANGED <<oqlock, queueVars, flushVars, osetVars, flusherVars, nrefs,
                 req, oput, flushloadingnow, frames, hgVars, histVars>>

\* Fault: the flush waits for the oldest output only.
FirstOutput == IF outs = <<>> THEN <<>> ELSE Head(outs)

\* The flush has drained the wait queue: it now waits for the last output.
LastOutput == IF outs = <<>> THEN <<>> ELSE outs[Len(outs)]

Track(t) ==
  /\ pc[t] = "track" /\ oqlock = NoThread
  /\ oqflush_output' = LastOutput
  /\ oqflushing' = (oqflushing /\ outs # <<>>)
  /\ frames' = [frames EXCEPT ![t] = <<Head(@) \/ outs = <<>> >> \o Tail(@)]
  /\ Goto(t, "create")
  /\ UNCHANGED <<oqlock, queueVars, oqflush_waitcounter, osetVars,
                 flusherVars, parentVars, req, oput, flushloadingnow, fq,
                 hgVars, histVars>>

\* done_oq_flush, if flush_done is set: drop the queue's reference on the
\* flush; the last one ends the wait of shuffler_flush_qs.
DoneOqFlush(t) ==
  /\ pc[t] = "done"
  /\ \/ /\ Head(frames[t])
        /\ oqflush_counter' = oqflush_counter - 1
        /\ osetflushing' = (osetflushing /\ oqflush_counter' > 0)
     \/ ~Head(frames[t]) /\ UNCHANGED <<oqflush_counter, osetflushing>>
  /\ frames' = [frames EXCEPT ![t] = <<FALSE>> \o Tail(@)]
  /\ Goto(t, "progress")
  /\ UNCHANGED <<oqlock, queueVars, flushVars, osetVars, curflush,
                 parentVars, req, oput, flushloadingnow, fq, hgVars,
                 histVars>>

\* forw_progress_shufsendq: let as many senders through the gate as the
\* limit has room for; then forw_start_next returns.
CanDo == IF shufsend_rpclimit > outset_nrpcs
         THEN shufsend_rpclimit - outset_nrpcs ELSE 0

Progress(t) ==
  /\ pc[t] = "progress"
  /\ shufsendq' = SubSeq(shufsendq, CanDo + 1, Len(shufsendq))
  /\ frames' = [frames EXCEPT ![t] = Tail(@)]
  /\ Goto(t, Continue(t, Tail(frames[t])))
  /\ UNCHANGED <<oqlock, queueVars, flushVars, outset_nrpcs, flusherVars,
                 parentVars, req, oput, flushloadingnow, fq, hgVars,
                 histVars>>

-----------------------------------------------------------------------------
\* shuffler_flush_qs and start_qflush.

Queued == Range(loading) \cup Range(oqwaitq)
            \cup UNION {Range(outs[i]) : i \in DOMAIN outs}

\* aquire_flush: the flush holds one reference on itself while it starts.
AquireFlush ==
  /\ pc[Flusher] = "idle" /\ nflush < MaxFlush
  /\ nflush' = nflush + 1
  /\ curflush' = TRUE /\ osetflushing' = TRUE /\ oqflush_counter' = 1
  /\ Goto(Flusher, "startq")
  /\ UNCHANGED <<oqlock, queueVars, flushVars, osetVars, parentVars, req,
                 oput, flushloadingnow, fq, frames, hgVars, todo, by,
                 arrivals, batched, acked, lost, fset>>

StartWaiting(waitcounter, output) ==
  /\ oqflushing' = TRUE
  /\ oqflush_waitcounter' = waitcounter
  /\ oqflush_output' = output
  /\ oqflush_counter' = oqflush_counter + 1

\* First case: requests are waiting, their number is what the flush waits for.
StartWaitq ==
  /\ pc[Flusher] = "startq" /\ oqlock = NoThread
  /\ oqwaitq # <<>>
  /\ fset' = Queued
  /\ StartWaiting(Len(oqwaitq), <<>>)
  /\ Goto(Flusher, "drop")
  /\ UNCHANGED <<oqlock, queueVars, osetVars, osetflushing, curflush,
                 parentVars, req, oput, flushloadingnow, fq, frames, hgVars,
                 todo, by, arrivals, batched, acked, lost, nflush>>

\* Second case: a partial batch is loading; send it with the lock dropped.
StartLoading ==
  /\ pc[Flusher] = "startq" /\ oqlock = NoThread
  /\ oqwaitq = <<>> /\ ~StillRoom(loadsize, TRUE)
  /\ fset' = Queued
  /\ FlushLoading(Flusher)
  /\ Goto(Flusher, "create")
  /\ UNCHANGED <<oqlock, oqwaitq, flushVars, osetVars, flusherVars,
                 parentVars, req, flushloadingnow, fq, frames, hgVars,
                 todo, by, arrivals, acked, lost, nflush>>

\* Third: wait for the outputs that are there now, if any.
StartOuts ==
  /\ pc[Flusher] \in {"startq", "outs"} /\ oqlock = NoThread
  /\ pc[Flusher] = "startq" => oqwaitq = <<>> /\ StillRoom(loadsize, TRUE)
  /\ fset' = IF pc[Flusher] = "startq" THEN Queued ELSE fset
  /\ \/ outs # <<>> /\ StartWaiting(0, LastOutput)
     \/ outs = <<>> /\ UNCHANGED <<flushVars, oqflush_counter>>
  /\ Goto(Flusher, "drop")
  /\ UNCHANGED <<oqlock, queueVars, osetVars, osetflushing, curflush,
                 parentVars, req, oput, flushloadingnow, fq, frames, hgVars,
                 todo, by, arrivals, batched, acked, lost, nflush>>

\* Drop the flush's own reference, then wait.
DropRef ==
  /\ pc[Flusher] = "drop"
  /\ oqflush_counter' = oqflush_counter - 1
  /\ osetflushing' = (osetflushing /\ oqflush_counter' # 0)
  /\ Goto(Flusher, "wait")
  /\ UNCHANGED <<oqlock, queueVars, flushVars, osetVars, curflush,
                 parentVars, req, oput, flushloadingnow, fq, frames, hgVars,
                 histVars>>

\* Fault: returns without waiting.
FlushReturnEarly ==
  /\ pc[Flusher] = "wait"
  /\ curflush' = FALSE
  /\ Goto(Flusher, "idle")
  /\ UNCHANGED <<oqlock, queueVars, flushVars, osetVars, osetflushing,
                 oqflush_counter, parentVars, req, oput, flushloadingnow, fq,
                 frames, hgVars, histVars>>

\* The wait is over: drop_curflush, and shuffler_flush_qs returns.
FlushReturn ==
  /\ pc[Flusher] = "wait" /\ ~osetflushing
  /\ curflush' = FALSE
  /\ Goto(Flusher, "idle")
  /\ UNCHANGED <<oqlock, queueVars, flushVars, osetVars, osetflushing,
                 oqflush_counter, parentVars, req, oput, flushloadingnow, fq,
                 frames, hgVars, histVars>>

-----------------------------------------------------------------------------
SenderStep(t) ==
  \/ PassLimit(t) \/ EnqueueNow(t) \/ EnqueueWait(t)
  \/ Park(t) \/ Wakeup(t) \/ Reply(t)

ForwardStep(t) ==
  \/ CreateHandle(t) \/ Launch(t) \/ StartNext(t) \/ PullOne(t) \/ PullEnd(t)
  \/ StopWait(t) \/ Track(t) \/ DoneOqFlush(t) \/ Progress(t)

ForwardFail(t) == CreateFail(t) \/ LaunchFail(t)

FlushStep == StartWaitq \/ StartLoading \/ StartOuts \/ DropRef \/ FlushReturn

\* Everything was submitted and every thread is back at rest.
Quiescent ==
  /\ todo = {} /\ inflight = {} /\ nflush = MaxFlush
  /\ \A t \in Threads : pc[t] = "idle"
  /\ UNCHANGED vars

Next ==
  \/ \E t \in Senders, r \in Reqs : Send(t, r) \/ Relay(t, r)
  \/ \E t \in Senders : SenderStep(t)
  \/ \E t \in Threads : ForwardStep(t) \/ ForwardFail(t)
  \/ \E b \in inflight : CompletionOK(b) \/ CompletionErr(b)
  \/ AquireFlush \/ FlushStep
  \/ Quiescent

\* What keeps a thread running, wherever it is.
ThreadStep(t) ==
  \/ t \in Senders /\ SenderStep(t)
  \/ ForwardStep(t)
  \/ t = Flusher /\ FlushStep

\* Threads keep running and mercury answers every RPC it accepted; nothing
\* obliges a caller to submit or to flush, or mercury to fail.
Fairness ==
  /\ \A t \in Threads : WF_vars(ThreadStep(t))
  /\ WF_vars(\E b \in inflight : CompletionOK(b))

Spec == Init /\ [][Next]_vars
FairSpec == Spec /\ Fairness

-----------------------------------------------------------------------------
\* Properties.

\* Every field of an outqueue, of a request's parent and of a thread holds a
\* value of its C type that the code can give it.
TypeOK ==
  /\ oqlock \in Threads \cup {NoThread}
  /\ loading \in Seq(Reqs) /\ loadsize \in Nat
  /\ outs \in Seq(Batches) /\ nsending \in Nat
  /\ oqwaitq \in Seq(Reqs)
  /\ oqflushing \in BOOLEAN /\ oqflush_waitcounter \in Nat
  /\ oqflush_output \in Batches
  /\ outset_nrpcs \in Int /\ shufsendq \in Seq(Clients)
  /\ osetflushing \in BOOLEAN /\ oqflush_counter \in Int
  /\ curflush \in BOOLEAN
  /\ nrefs \in [Reqs -> Int] /\ need_wakeup \in [Reqs -> BOOLEAN]
  /\ responded \subseteq Reqs
  /\ pc \in [Threads -> Locations]
  /\ req \in [Senders -> Reqs \cup {NoReq}]
  /\ oput \in [Threads -> Batches]
  /\ flushloadingnow \in [Threads -> BOOLEAN]
  /\ fq \in [Threads -> Seq(Reqs)]
  /\ frames \in [Threads -> Seq(BOOLEAN)]
  /\ inflight \subseteq Batches /\ nfail \in Nat
  /\ todo \subseteq Reqs /\ by \in [Reqs -> Senders \cup {NoThread}]
  /\ arrivals \in Seq(Reqs) /\ batched \in Seq(Reqs)
  /\ acked \subseteq Reqs /\ lost \subseteq Reqs /\ fset \subseteq Reqs
  /\ nflush \in Nat

\* The queue never has more than maxoqrpc RPCs outstanding, although only
\* req_via_mercury checks for room: the batches that forw_start_next and a
\* flush push out without looking always find some.
RpcBound == nsending = Len(outs) /\ nsending <= maxoqrpc

\* Requests wait only behind a full set of RPCs: whenever the lock is free
\* and a request waits, a completion that will pull it is still to come.
WaitOnlyWhenFull == oqlock = NoThread /\ oqwaitq # <<>> => nsending = maxoqrpc

\* What is loading stays below a batch, and when no RPC may be started
\* nothing is left loading for a flush to push out.
LoadBound == loadsize < buftarget /\ (nsending = maxoqrpc => loadsize = 0)

\* Requests are batched in the order in which they took the lock, those
\* that went through the wait queue included: nothing overtakes.
Fifo == batched \o loading \o oqwaitq = arrivals

\* An output that a thread is about to send or to finish, or that mercury
\* has, is on the list, belongs to exactly one of them, and no two outputs
\* carry the same requests: what forw_start_next removes is always there.
Holds(t) == \/ pc[t] \in {"track", "create", "launch", "next"}
            \/ pc[t] = "stopwait" /\ oput[t] # <<>>
OutputOwned ==
  /\ \A i \in DOMAIN outs :
       outs[i] # <<>> /\ Range(outs[i]) \subseteq Range(batched)
  /\ \A i, j \in DOMAIN outs : outs[i] = outs[j] => i = j
  /\ \A t \in Threads : Holds(t) => oput[t] \in Range(outs) \ inflight
  /\ \A t, u \in Threads :
       Holds(t) /\ Holds(u) /\ oput[t] = oput[u] => t = u
  /\ inflight \subseteq Range(outs)

\* The owner of a waiting request is held back: the application thread has
\* not returned from shuffler_send, the inbound RPC has not been answered.
HeldBack ==
  \A i \in DOMAIN oqwaitq :
    LET r == oqwaitq[i]
        t == by[r] IN
      /\ r \notin responded
      /\ t \in Clients => req[t] = r /\ pc[t] \in {"park", "blocked"}

\* parent_stopwait is called once, for a parent without references whose
\* application thread is blocked in wait for it ("prob. always true, check
\* to be safe"); an RPC is answered once.
StopOnce ==
  \A t \in Threads : \A i \in DOMAIN fq[t] :
    LET r == fq[t][i] IN
      /\ nrefs[r] = 0 /\ r \notin responded /\ r \notin Range(oqwaitq)
      /\ by[r] \in Clients => /\ req[by[r]] = r /\ pc[by[r]] = "blocked"
                              /\ need_wakeup[r]
      /\ \A u \in Threads : \A j \in DOMAIN fq[u] :
           fq[u][j] = r => u = t /\ j = i

\* The aborts never happen: forw_start_next finds a current flush when the
\* queue is flushing, start_qflush finds the queue not flushing, and the
\* output list is not empty when forw_start_next starts to track it.
FlushSane ==
  /\ oqflushing => curflush
  /\ pc[Flusher] = "startq" => ~oqflushing
  /\ \A t \in Threads : pc[t] = "track" => oqflushing /\ outs # <<>>

\* When shuffler_flush_qs has returned, everything that was in the queue
\* when it looked has been answered, or was dropped with a complaint.  (Empty
\* requests are not worth a batch: alone on "loading" they stay there.)
FlushDelivers ==
  ~curflush => \A r \in fset : Size[r] > 0 => r \in acked \cup lost

\* Nobody is left waiting: a flush of the queue returns (shuffler_flush_qs),
\* shuffler_send returns also when its request had to wait, and an inbound
\* RPC whose request is relayed is answered, at the latest when the request
\* leaves the wait queue.  (The calls of a behaviour are finitely many.)
Outstanding ==
  \/ curflush
  \/ \E t \in Clients : pc[t] # "idle"
  \/ \E r \in Reqs : by[r] \in Handlers /\ r \notin responded
CallsReturn == []<>~Outstanding

\* A sender that sender_limit stopped goes on once the RPCs are below the
\* limit: "when we can go, we'll be removed from the shufsendq and get a
\* signal on our cv".
LimitedSendersGo ==
  \A t \in Clients :
    pc[t] = "limit" /\ outset_nrpcs < shufsend_rpclimit
      ~> pc[t] # "limit" \/ outset_nrpcs >= shufsend_rpclimit

-----------------------------------------------------------------------------
\* The inductive invariant behind the first group of properties.

\* A thread is in the loop exactly when it has the lock; the loop runs with
\* room for the batch it may complete.
LockInv ==
  /\ \A t \in Threads : oqlock = t <=> pc[t] = "pull"
  /\ oqlock # NoThread => nsending < maxoqrpc

\* What the locations say about the local variables.
InNext == {"pull", "stopwait", "track", "done", "progress"}
LocalInv ==
  /\ \A t \in Senders : pc[t] # "idle" => req[t] \in Reqs
  /\ \A t \in Threads : pc[t] \in InNext => frames[t] # <<>>
  /\ \A t \in Threads : pc[t] = "stopwait" => fq[t] # <<>>

\* A request is in one place only.
Pending(t) == pc[t] \in {"limit", "enqueue"}
Placed == Range(batched) \cup Range(loading) \cup Range(oqwaitq)
FreshInv ==
  /\ \A i, j \in DOMAIN oqwaitq : oqwaitq[i] = oqwaitq[j] => i = j
  /\ Range(batched) \cap Range(loading) = {}
  /\ Range(batched) \cap Range(oqwaitq) = {}
  /\ Range(loading) \cap Range(oqwaitq) = {}
  /\ todo \cap Placed = {}
  /\ \A t \in Senders : Pending(t) => req[t] \notin todo \cup Placed
  /\ \A t, u \in Senders :
       Pending(t) /\ Pending(u) /\ req[t] = req[u] => t = u

LoadInv == loadsize > 0 => loading # <<>>

\* Inside the loop exactly one RPC is missing as long as requests wait.
PullRoom == oqlock # NoThread /\ oqwaitq # <<>> => nsending = maxoqrpc - 1

\* A request is on its way from the moment a sender has taken it; the sender
\* of a call in progress is the one that took it.
Calling(r) == by[r] \in Senders /\ req[by[r]] = r /\ pc[by[r]] # "idle"
At(r, l) == Calling(r) /\ pc[by[r]] = l
CallerInv ==
  /\ \A t \in Senders :
       /\ pc[t] \in {"park", "blocked"} => t \in Clients
       /\ pc[t] = "reply" => t \in Handlers
       /\ req[t] \in Reqs => by[req[t]] = t
  /\ \A r \in Reqs : by[r] = NoThread <=> r \in todo

\* A parent has a reference for its request while that one waits and one for
\* the caller until it parks or replies; an RPC handler whose request did not
\* wait has no parent.  Who waits is held back; who was released, or
\* answered, is so once.
Waits(r) == r \in Range(oqwaitq)
Released == UNION {Range(fq[t]) : t \in Threads}
ParentOK(r) ==
  /\ ~At(r, "reply") =>
       nrefs[r] = (IF Waits(r) THEN 1 ELSE 0) + (IF At(r, "park") THEN 1 ELSE 0)
  /\ At(r, "reply") => IF Waits(r) THEN nrefs[r] = 2 ELSE nrefs[r] \in {0, 1}
  /\ Waits(r) =>
       /\ r \notin responded \cup Released
       /\ by[r] \in Clients => At(r, "park") \/ (At(r, "blocked") /\ need_wakeup[r])
       /\ by[r] \in Handlers /\ Calling(r) => At(r, "reply")
  /\ r \in Released =>
       /\ r \notin responded /\ by[r] \in Senders
       /\ by[r] \in Clients => At(r, "blocked") /\ need_wakeup[r]
       /\ by[r] \in Handlers => ~Calling(r)
  /\ r \in responded => by[r] \in Handlers /\ ~Calling(r)
ReleasedOnce ==
  \A t, u \in Threads : \A i \in DOMAIN fq[t], j \in DOMAIN fq[u] :
    fq[t][i] = fq[u][j] => t = u /\ i = j
ParentInv == CallerInv /\ ReleasedOnce /\ \A r \in Reqs : ParentOK(r)

\* The flush's references: its own until it waits, and the queue's while the
\* queue is flushing or until the frame that ended it has said so.
Flagged(t) == \E i \in DOMAIN frames[t] : frames[t][i]
Ending == \E t \in Threads : Flagged(t)
FlushCount ==
  /\ curflush <=> pc[Flusher] # "idle"
  /\ oqflushing \/ Ending => pc[Flusher] \in {"drop", "wait"}
  /\ ~(oqflushing /\ Ending)
  /\ oqflush_counter = (IF pc[Flusher] \in {"idle", "wait"} THEN 0 ELSE 1)
                         + (IF oqflushing \/ Ending THEN 1 ELSE 0)
  /\ osetflushing <=> oqflush_counter > 0
  /\ \A t, u \in Threads : \A i \in DOMAIN frames[t], j \in DOMAIN frames[u] :
       frames[t][i] /\ frames[u][j] => t = u /\ i = j
  /\ \A t \in Threads : pc[t] = "progress" => ~Head(frames[t])

\* What the flush still owes is where it waits for it: on the list of outputs
\* up to oqflush_output, or among the waiting requests it has counted, or
\* with the thread that has pulled the last of them.
Owed == {r \in fset : Size[r] > 0} \ (acked \cup lost)
Sent(n) == UNION {Range(outs[i]) : i \in 1..n}
Forwarding == {"create", "launch", "next", "pull", "stopwait", "track", "done",
               "progress"}
Tracks(t) == \/ pc[t] = "pull" /\ flushloadingnow[t]
             \/ pc[t] = "stopwait" /\ oput[t] # <<>> /\ flushloadingnow[t]
             \/ pc[t] = "track"
FlushCovers ==
  /\ pc[Flusher] \in Forwarding \cup {"outs"} => Owed \subseteq Sent(Len(outs))
  /\ pc[Flusher] \in {"idle", "drop", "wait"} /\ ~oqflushing => Owed = {}
  /\ oqflushing /\ oqflush_waitcounter > 0 =>
       /\ oqflush_output = <<>> /\ oqflush_waitcounter <= Len(oqwaitq)
       /\ Owed \subseteq Sent(Len(outs)) \cup Range(loading)
                         \cup {oqwaitq[i] : i \in 1..oqflush_waitcounter}
  /\ oqflushing /\ oqflush_output # <<>> =>
       \E p \in DOMAIN outs : outs[p] = oqflush_output /\ Owed \subseteq Sent(p)
  /\ \A t \in Threads : Tracks(t) =>
       /\ oqflushing /\ oqflush_waitcounter = 0 /\ oqflush_output = <<>>
       /\ Owed \subseteq Sent(Len(outs)) \cup (IF pc[t] = "pull" THEN Range(loading)
                                                              ELSE {})
  /\ \A t, u \in Threads : Tracks(t) /\ Tracks(u) => t = u
Finished ==
  /\ \A t \in Threads : pc[t] = "next" => Range(oput[t]) \subseteq acked \cup lost
  /\ loadsize = 0 => \A i \in DOMAIN loading : Size[loading[i]] = 0

\* Together: the queue never has more RPCs out than maxoqrpc, requests wait
\* only behind a full queue, leave in the order of their arrival, and every
\* output has one owner (append_req_to_locked_outqueue, forw_start_next).
IndInv ==
  /\ TypeOK /\ LockInv /\ LocalInv /\ FreshInv /\ LoadInv /\ PullRoom
  /\ OutputOwned /\ RpcBound /\ WaitOnlyWhenFull /\ LoadBound /\ Fifo
  /\ ParentInv /\ FlushCount /\ FlushCovers /\ Finished
=============================================================================
