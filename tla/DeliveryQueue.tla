---------------------------- MODULE DeliveryQueue ----------------------------
(***************************************************************************)
(* The delivery side of the 3-hop shuffler: req_to_self puts a request     *)
(* that has reached its destination on deliverq, or on dwaitq when that is *)
(* full; the delivery thread (delivery_main) hands the requests to the     *)
(* application's callback one at a time and promotes a waiting one into    *)
(* the slot it frees; shuffler_flush_delivery waits until what is queued   *)
(* has been delivered; shuffler_shutdown stops the thread and purges.      *)
(*                                                                         *)
(* Grain: one step per critical section under deliverlock, one for each    *)
(* stretch without it (the callback, parent_dref_stopwait).  Condition     *)
(* variables are explicit: a thread that sleeps goes on only when it is    *)
(* signalled, or spuriously.                                               *)
(***************************************************************************)
EXTENDS Integers, Sequences, Functions

CONSTANTS
  Reqs,        \* the requests, each submitted at most once
  Clients,     \* application threads in shuffler_send
  Handlers,    \* network threads in shuffler_rpchand
  NoThread, NoReq,
  deliverq_max, deliverq_threshold,
  MaxFlush     \* bound: flushes in a behaviour

Senders == Clients \cup Handlers

ASSUME DeliveryThreads ==
  Clients \cap Handlers = {} /\ NoThread \notin Senders /\ NoReq \notin Reqs
ASSUME DeliveryConfig ==
  /\ deliverq_max \in Nat \ {0} /\ deliverq_threshold \in Nat
  /\ MaxFlush \in Nat

VARIABLES
  deliverq, dwaitq, dflush_counter,
  dtask,       \* where the delivery thread is
  promoted,    \* the request it has just taken off dwaitq
  nrefs, need_wakeup, responded,   \* parents; HG_Respond done
  pc, req,     \* senders
  flusher,     \* where the flushing thread is
  stop,        \* where shuffler_shutdown is
  todo, by, arrivals, delivered, cancelled, fset, nflush   \* history

queues  == <<deliverq, dwaitq>>
parents == <<nrefs, need_wakeup, responded>>
history == <<todo, by, arrivals, delivered, cancelled, fset, nflush>>
vars == <<queues, dflush_counter, dtask, promoted, parents, pc, req, flusher,
          stop, history>>

Init ==
  /\ deliverq = <<>> /\ dwaitq = <<>> /\ dflush_counter = 0
  /\ dtask = "run" /\ promoted = NoReq
  /\ nrefs = [r \in Reqs |-> 0]
  /\ need_wakeup = [r \in Reqs |-> FALSE]
  /\ responded = {}
  /\ pc = [t \in Senders |-> "idle"] /\ req = [t \in Senders |-> NoReq]
  /\ flusher = "idle" /\ stop = "no"
  /\ todo = Reqs /\ by = [r \in Reqs |-> NoThread]
  /\ arrivals = <<>> /\ delivered = <<>> /\ cancelled = {}
  /\ fset = {} /\ nflush = 0

Goto(t, l) == pc' = [pc EXCEPT ![t] = l]
LastRef(r) == nrefs'[r] < 1

\* pthread_cond_signal(&delivercv): nothing happens unless the thread sleeps.
Signalled == IF dtask = "asleep" THEN "run" ELSE dtask

-----------------------------------------------------------------------------
\* req_to_self, from shuffler_send and from shuffler_rpchand.

\* Both check disablesend first.
Submit(t, r) ==
  /\ pc[t] = "idle" /\ r \in todo /\ stop = "no"
  /\ todo' = todo \ {r} /\ by' = [by EXCEPT ![r] = t]
  /\ req' = [req EXCEPT ![t] = r]
  /\ Goto(t, "enqueue")
  /\ UNCHANGED <<queues, dflush_counter, dtask, promoted, parents, flusher,
                 stop, arrivals, delivered, cancelled, fset, nflush>>

NeedWait == Len(deliverq) >= deliverq_max

\* The request about to be queued takes the queue over the threshold.
Crosses == Len(deliverq) = deliverq_threshold

EnqueueNow(t) ==
  /\ pc[t] = "enqueue" /\ ~NeedWait
  /\ arrivals' = Append(arrivals, req[t])
  /\ deliverq' = Append(deliverq, req[t])
  /\ dtask' = IF Crosses THEN Signalled ELSE dtask
  /\ Goto(t, IF t \in Clients THEN "idle" ELSE "reply")
  /\ UNCHANGED <<dwaitq, dflush_counter, promoted, parents, req, flusher,
                 stop, todo, by, delivered, cancelled, fset, nflush>>

\* req_parent_init: one reference for the request, one for the caller.
ParentRefs == 2

EnqueueWait(t) ==
  /\ pc[t] = "enqueue" /\ NeedWait
  /\ arrivals' = Append(arrivals, req[t])
  /\ dwaitq' = Append(dwaitq, req[t])
  /\ nrefs' = [nrefs EXCEPT ![req[t]] = ParentRefs]
  /\ Goto(t, IF t \in Clients THEN "park" ELSE "reply")
  /\ UNCHANGED <<deliverq, dflush_counter, dtask, promoted, need_wakeup,
                 responded, req, flusher, stop, todo, by, delivered,
                 cancelled, fset, nflush>>

\* Fault: blocks without looking whether the request has left already.
ParkBlind(t) ==
  /\ pc[t] = "park"
  /\ nrefs' = [nrefs EXCEPT ![req[t]] = @ - 1]
  /\ Goto(t, "blocked")
  /\ need_wakeup' = [need_wakeup EXCEPT ![req[t]] = TRUE]
  /\ UNCHANGED <<queues, dflush_counter, dtask, promoted, responded, req,
                 flusher, stop, history>>

\* The application drops the caller's reference and blocks unless it was
\* the last one.
Park(t) ==
  /\ pc[t] = "park"
  /\ nrefs' = [nrefs EXCEPT ![req[t]] = @ - 1]
  /\ \/ LastRef(req[t]) /\ Goto(t, "idle") /\ UNCHANGED need_wakeup
     \/ /\ ~LastRef(req[t]) /\ Goto(t, "blocked")
        /\ need_wakeup' = [need_wakeup EXCEPT ![req[t]] = TRUE]
  /\ UNCHANGED <<queues, dflush_counter, dtask, promoted, responded, req,
                 flusher, stop, history>>

Wakeup(t) ==
  /\ pc[t] = "blocked" /\ ~need_wakeup[req[t]]
  /\ Goto(t, "idle")
  /\ UNCHANGED <<queues, dflush_counter, dtask, promoted, parents, req,
                 flusher, stop, history>>

\* The end of shuffler_rpchand.
Reply(t) ==
  /\ pc[t] = "reply"
  /\ \/ nrefs[req[t]] = 0 /\ UNCHANGED nrefs
     \/ nrefs[req[t]] > 0 /\ nrefs' = [nrefs EXCEPT ![req[t]] = @ - 1]
  /\ responded' = IF LastRef(req[t]) THEN responded \cup {req[t]}
                                     ELSE responded
  /\ Goto(t, "idle")
  /\ UNCHANGED <<queues, dflush_counter, dtask, promoted, need_wakeup, req,
                 flusher, stop, history>>

-----------------------------------------------------------------------------
\* delivery_main.

\* The top of the loop.
LoopTop ==
  /\ dtask = "run"
  /\ dtask' = IF stop = "dshutdown" THEN "exit"
              ELSE IF deliverq = <<>> THEN "asleep" ELSE "callback"
  /\ UNCHANGED <<queues, dflush_counter, promoted, parents, pc, req, flusher,
                 stop, history>>

DropCounter ==
  dflush_counter' = IF dflush_counter > 0 THEN dflush_counter - 1 ELSE 0

\* The slot just freed in dq goes to the request that waits longest.
Promote(dq) ==
  \/ dwaitq = <<>> /\ deliverq' = dq /\ UNCHANGED <<dwaitq, promoted>>
  \/ /\ dwaitq # <<>>
     /\ deliverq' = Append(dq, Head(dwaitq))
     /\ dwaitq' = Tail(dwaitq) /\ promoted' = Head(dwaitq)

\* The callback has returned: count it for the flush, waking the flusher at
\* zero, dispose of the request, promote one.
Delivered ==
  /\ dtask = "callback"
  /\ delivered' = Append(delivered, Head(deliverq))
  /\ DropCounter
  /\ flusher' = IF dflush_counter > 0 /\ dflush_counter' = 0
                   /\ flusher = "asleep"
                THEN "check" ELSE flusher
  /\ Promote(Tail(deliverq))
  /\ dtask' = IF dwaitq = <<>> THEN "run" ELSE "stopwait"
  /\ UNCHANGED <<parents, pc, req, stop, todo, by, arrivals, cancelled, fset,
                 nflush>>

\* parent_dref_stopwait for the promoted request, with deliverlock dropped.
StopWait ==
  /\ dtask = "stopwait"
  /\ nrefs' = [nrefs EXCEPT ![promoted] = @ - 1]
  /\ \/ ~LastRef(promoted) /\ UNCHANGED <<responded, need_wakeup>>
     \/ /\ LastRef(promoted)
        /\ responded' = IF by[promoted] \in Handlers
                        THEN responded \cup {promoted} ELSE responded
        /\ need_wakeup' = [need_wakeup EXCEPT ![promoted] = FALSE]
  /\ dtask' = "run"
  /\ UNCHANGED <<queues, dflush_counter, promoted, pc, req, flusher, stop,
                 history>>

\* pthread_cond_wait may return without a signal.
SpuriousWakeup ==
  /\ dtask = "asleep" /\ dtask' = "run"
  /\ UNCHANGED <<queues, dflush_counter, promoted, parents, pc, req, flusher,
                 stop, history>>

-----------------------------------------------------------------------------
\* shuffler_flush_delivery.

\* The condition of the wait loop; each turn wakes the delivery thread.
FlushWait ==
  \/ /\ dflush_counter' > 0
     /\ flusher' = "asleep" /\ dtask' = Signalled
  \/ dflush_counter' = 0 /\ flusher' = "drop" /\ UNCHANGED dtask

\* Fault: the request that is in the callback is counted twice.
FlushCountTwice ==
  Len(deliverq) + Len(dwaitq) + (IF dtask = "callback" THEN 1 ELSE 0)

FlushCount == Len(deliverq) + Len(dwaitq)

\* aquire_flush without competition, then the first look at the queues.
FlushStart ==
  /\ flusher = "idle" /\ nflush < MaxFlush /\ stop = "no"
  /\ nflush' = nflush + 1
  /\ fset' = Range(arrivals)
  /\ dflush_counter' = FlushCount
  /\ FlushWait
  /\ UNCHANGED <<queues, promoted, parents, pc, req, stop, todo, by, arrivals,
                 delivered, cancelled>>

FlushCheck ==
  /\ flusher = "check"
  /\ UNCHANGED dflush_counter
  /\ FlushWait
  /\ UNCHANGED <<queues, promoted, parents, pc, req, stop, history>>

FlushSpurious ==
  /\ flusher = "asleep" /\ flusher' = "check"
  /\ UNCHANGED <<queues, dflush_counter, dtask, promoted, parents, pc, req,
                 stop, history>>

\* Fault: a flush that wakes up does not look at the condition again.
FlushReturnWoken ==
  /\ flusher \in {"check", "drop"} /\ flusher' = "idle"
  /\ fset' = {}
  /\ UNCHANGED <<queues, dflush_counter, dtask, promoted, parents, pc, req,
                 stop, todo, by, arrivals, delivered, cancelled, nflush>>

\* drop_curflush
FlushReturn ==
  /\ flusher = "drop" /\ flusher' = "idle"
  /\ fset' = {}
  /\ UNCHANGED <<queues, dflush_counter, dtask, promoted, parents, pc, req,
                 stop, todo, by, arrivals, delivered, cancelled, nflush>>

-----------------------------------------------------------------------------
\* shuffler_shutdown, called by the application when it neither sends nor
\* flushes.

DisableSend ==
  /\ stop = "no" /\ flusher = "idle" /\ \A t \in Clients : pc[t] = "idle"
  /\ stop' = "disabled"
  /\ UNCHANGED <<queues, dflush_counter, dtask, promoted, parents, pc, req,
                 flusher, history>>

\* stop_threads joins the network threads, then tells the delivery thread.
StopDelivery ==
  /\ stop = "disabled" /\ \A t \in Handlers : pc[t] = "idle"
  /\ stop' = "dshutdown" /\ dtask' = Signalled
  /\ UNCHANGED <<queues, dflush_counter, promoted, parents, pc, req, flusher,
                 history>>

\* purge_reqs: the first loop drops the references of what waits, without
\* answering (abort = 1).
PurgeWaiting ==
  /\ stop = "dshutdown" /\ dtask = "exit" /\ dwaitq # <<>>
  /\ dwaitq' = Tail(dwaitq)
  /\ nrefs' = [nrefs EXCEPT ![Head(dwaitq)] = @ - 1]
  /\ cancelled' = IF LastRef(Head(dwaitq)) THEN cancelled \cup {Head(dwaitq)}
                                           ELSE cancelled
  /\ UNCHANGED <<deliverq, dflush_counter, dtask, promoted, need_wakeup,
                 responded, pc, req, flusher, stop, todo, by, arrivals,
                 delivered, fset, nflush>>

\* The second loop runs while deliverq has requests, but it takes them from
\* dwaitq: with dwaitq empty the behaviour is undefined.
PurgeQueued ==
  /\ stop = "dshutdown" /\ dtask = "exit" /\ dwaitq = <<>>
  /\ stop' = IF deliverq = <<>> THEN "done" ELSE "undefined"
  /\ UNCHANGED <<queues, dflush_counter, dtask, promoted, parents, pc, req,
                 flusher, history>>

-----------------------------------------------------------------------------
SenderStep(t) ==
  EnqueueNow(t) \/ EnqueueWait(t) \/ Park(t) \/ Wakeup(t) \/ Reply(t)
DeliveryStep == LoopTop \/ Delivered \/ StopWait
FlushStep == FlushCheck \/ FlushReturn
Purge == PurgeWaiting \/ PurgeQueued

Stopped == stop \in {"done", "undefined"} /\ UNCHANGED vars

Next ==
  \/ \E t \in Senders, r \in Reqs : Submit(t, r)
  \/ \E t \in Senders : SenderStep(t)
  \/ DeliveryStep \/ SpuriousWakeup
  \/ FlushStart \/ FlushStep \/ FlushSpurious
  \/ DisableSend \/ StopDelivery \/ Purge
  \/ Stopped

\* Threads keep running and the callback returns; nobody has to submit,
\* flush or shut down, and there may be no spurious wakeup.
Fairness ==
  /\ \A t \in Senders : WF_vars(SenderStep(t))
  /\ WF_vars(DeliveryStep) /\ WF_vars(FlushStep)
  /\ WF_vars(StopDelivery) /\ WF_vars(Purge)

Spec == Init /\ [][Next]_vars
FairSpec == Spec /\ Fairness

-----------------------------------------------------------------------------
\* Properties.

\* The delivery queues hold requests, the counters are in range and every
\* thread is at one of its program points.
TypeOK ==
  /\ deliverq \in Seq(Reqs) /\ dwaitq \in Seq(Reqs)
  /\ dflush_counter \in Nat
  /\ dtask \in {"run", "asleep", "callback", "stopwait", "exit"}
  /\ promoted \in Reqs \cup {NoReq}
  /\ nrefs \in [Reqs -> Int] /\ need_wakeup \in [Reqs -> BOOLEAN]
  /\ responded \subseteq Reqs
  /\ pc \in [Senders -> {"idle", "enqueue", "park", "blocked", "reply"}]
  /\ req \in [Senders -> Reqs \cup {NoReq}]
  /\ flusher \in {"idle", "asleep", "check", "drop"}
  /\ stop \in {"no", "disabled", "dshutdown", "done", "undefined"}
  /\ todo \subseteq Reqs /\ by \in [Reqs -> Senders \cup {NoThread}]
  /\ arrivals \in Seq(Reqs) /\ delivered \in Seq(Reqs)
  /\ cancelled \subseteq Reqs /\ fset \subseteq Reqs /\ nflush \in Nat

Purging == dtask = "exit"

\* deliverq never exceeds its limit and requests wait only behind a full
\* queue, although the delivery thread fills the slot it frees unchecked.
QueueBound ==
  /\ Len(deliverq) <= deliverq_max
  /\ dwaitq # <<>> /\ ~Purging => Len(deliverq) = deliverq_max

\* The queues hold what arrived and was not delivered, in the order of
\* arrival, whether or not it had to wait.
InOrder == ~Purging => delivered \o (deliverq \o dwaitq) = arrivals

\* What the program points say: the callback works on a queued request, a
\* request enters the queues once, and shuffler_shutdown finds every sender
\* and flush gone when it stops the delivery thread.
PointInv ==
  /\ dtask = "callback" => deliverq # <<>>
  /\ dtask = "stopwait" => promoted \in Reqs
  /\ todo \cap Range(arrivals) = {}
  /\ \A t \in Senders : pc[t] # "idle" => req[t] \in Reqs \ todo
  /\ \A t \in Senders : pc[t] = "enqueue" => req[t] \notin Range(arrivals)
  /\ \A t, u \in Senders :
       pc[t] = "enqueue" /\ pc[u] = "enqueue" /\ req[t] = req[u] => t = u
  /\ flusher # "idle" => stop = "no"
  /\ stop # "no" => \A t \in Clients : pc[t] = "idle"
  /\ stop \notin {"no", "disabled"} => \A t \in Handlers : pc[t] = "idle"
  /\ Purging => stop \notin {"no", "disabled"}

\* While a flush waits, the counter says how many of the requests it is to
\* wait for are still ahead of it: they are the next ones to be delivered,
\* and what arrives behind them never extends the wait.
FlushCounts ==
  /\ flusher \in {"asleep", "check"} /\ dflush_counter > 0 =>
       /\ Len(delivered) + dflush_counter <= Len(arrivals)
       /\ fset = {arrivals[i] : i \in 1..Len(delivered) + dflush_counter}
  /\ flusher = "drop" \/ (flusher # "idle" /\ dflush_counter = 0) =>
       fset \subseteq Range(delivered)
  /\ flusher = "idle" => fset = {}

\* The delivery side's inductive invariant: the queues hold exactly what
\* arrived and was not delivered, within their limits, and the counter of a
\* flush is exact.
DeliveryInv == TypeOK /\ QueueBound /\ InOrder /\ PointInv /\ FlushCounts

\* req_to_self, delivery_main and shuffler_flush_delivery together implement
\* a mailbox: requests reach the application's callback in the order they
\* arrived, each once, and a flush returns when all that arrived before it
\* started has been delivered.
Promise == INSTANCE Mailbox WITH
  Item <- Reqs, accepted <- arrivals, handed <- delivered,
  flushing <- flusher # "idle", owed <- fset
Implements == Promise!Spec

\* The calls end: again and again there is a moment when no flush runs, no
\* shuffler_send to the own rank is inside the queue, also when it had to
\* wait, and every inbound RPC whose request has come is answered or
\* cancelled by the shutdown.
Outstanding ==
  \/ flusher # "idle"
  \/ \E t \in Clients : pc[t] # "idle"
  \/ \E r \in Reqs : by[r] \in Handlers /\ r \notin responded \cup cancelled
CallsReturn == []<>~Outstanding
=============================================================================
