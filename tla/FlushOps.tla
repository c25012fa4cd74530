------------------------------ MODULE FlushOps ------------------------------
(***************************************************************************)
(* How flush operations of the 3-hop shuffler share the one current flush  *)
(* (aquire_flush, drop_curflush, fpending), wait for the output queues of  *)
(* a set (shuffler_flush_qs, done_oq_flush) or for the delivery thread     *)
(* (shuffler_flush_delivery), and are cancelled by shuffler_shutdown       *)
(* (shuffler_flush_discard, stop_threads).                                 *)
(*                                                                         *)
(* What goes on in a queue is OutQueue's and DeliveryQueue's business:     *)
(* here a queue that start_qflush looks at has something to flush or not,  *)
(* and the thread that services it finishes some time later.               *)
(*                                                                         *)
(* Grain: one step per critical section under flushlock.  flushlock is     *)
(* explicit because one path returns with it held.  The flusher's test of  *)
(* its status and its pthread_cond_wait are two steps where they are not   *)
(* protected by the lock of whoever changes the status.                    *)
(***************************************************************************)
EXTENDS Integers, Sequences, FiniteSets, Functions

CONSTANTS
  Flushers,    \* threads that flush
  Osets,       \* output sets (local_orq, local_rlq, remoteq)
  LocalSets,   \* the sets served by the local network thread
  Queues,      \* the output queues of every set
  Deliver,     \* the kind of a flush of the delivery queue (FLUSH_DELIVER)
  None,        \* NULL
  MaxQueued,   \* bound: requests a delivery flush finds
  MaxFlush,    \* bound: flush operations
  Kinds,       \* the kinds of flush that are used, of Osets and Deliver
  ShutsDown    \* whether shuffler_shutdown is called

ASSUME FlushOpsAssumption ==
  /\ None \notin Flushers \cup Osets /\ Deliver \notin Osets
  /\ LocalSets \subseteq Osets
  /\ Kinds \subseteq Osets \cup {Deliver}
  /\ MaxQueued \in Nat /\ MaxFlush \in Nat /\ ShutsDown \in BOOLEAN

VARIABLES
  flushlock,         \* None, or the flusher that kept it
  curflush, flushoset, fpending,
  osetflushing, oqflush_counter, oqflushing,
  dflush_counter,
  \* each flusher: location, flush_op status, kind, queues to look at
  pc, status, kind, rem,
  net,               \* network threads: where in done_oq_flush, of which set
  worker,            \* worker threads: "running", "stopping", "stopped"
  shut,              \* shuffler_shutdown: "no", "disabled", "discarded",
                     \* "purged"
  nops,              \* history: operations begun
  overtaken          \* history: a flush that had been released was overtaken

NetThreads == {"remote", "local"}
Workers == NetThreads \cup {"delivery"}
WorkerOf(k) == CASE k = Deliver -> "delivery"
                 [] k \in LocalSets -> "local"
                 [] OTHER -> "remote"

flushVars == <<curflush, flushoset, fpending>>
osetVars  == <<osetflushing, oqflush_counter, oqflushing>>
histVars  == <<nops, overtaken>>
vars == <<flushlock, flushVars, osetVars, dflush_counter, pc, status, kind,
          rem, net, worker, shut, histVars>>

Init ==
  /\ flushlock = None /\ curflush = None /\ flushoset = None
  /\ fpending = <<>>
  /\ osetflushing = [o \in Osets |-> FALSE]
  /\ oqflush_counter = [o \in Osets |-> 0]
  /\ oqflushing = [o \in Osets |-> {}]
  /\ dflush_counter = 0
  /\ pc = [f \in Flushers |-> "idle"]
  /\ status = [f \in Flushers |-> "ready"]
  /\ kind = [f \in Flushers |-> None]
  /\ rem = [f \in Flushers |-> {}]
  /\ net = [w \in NetThreads |-> [at |-> "idle", oset |-> None]]
  /\ worker = [w \in Workers |-> "running"] /\ shut = "no"
  /\ nops = 0 /\ overtaken = FALSE

Goto(f, l) == pc' = [pc EXCEPT ![f] = l]

-----------------------------------------------------------------------------
\* aquire_flush and drop_curflush.

SetupRefs == 1

\* The flush becomes the current one; a set is marked and counted.
Setup(f, k) ==
  /\ curflush' = f
  /\ flushoset' = IF k = Deliver THEN None ELSE k
  /\ IF k = Deliver THEN UNCHANGED <<osetflushing, oqflush_counter>>
     ELSE /\ osetflushing' = [osetflushing EXCEPT ![k] = TRUE]
          /\ oqflush_counter' = [oqflush_counter EXCEPT ![k] = SetupRefs]
  /\ Goto(f, "check")

Busy == curflush # None

\* drop_curflush has signalled it and it has not run yet
Released == {f \in Flushers : pc[f] = "pending" /\ status[f] = "ready"}

\* The first critical section.  shuffler_flush_qs looks at disablesend
\* before it, shuffler_flush_delivery does not.
Aquire(f, k) ==
  /\ pc[f] = "idle" /\ nops < MaxFlush /\ flushlock = None
  /\ shut = "no" \/ (k = Deliver /\ shut = "disabled")
  /\ nops' = nops + 1
  /\ overtaken' = (overtaken \/ (~Busy /\ Released # {}))
  /\ kind' = [kind EXCEPT ![f] = k]
  /\ status' = [status EXCEPT ![f] = IF Busy THEN "pending" ELSE "ready"]
  /\ \/ /\ Busy
        /\ fpending' = Append(fpending, f)
        /\ Goto(f, "pending")
        /\ UNCHANGED <<curflush, flushoset, osetflushing, oqflush_counter>>
     \/ ~Busy /\ Setup(f, k) /\ UNCHANGED fpending
  /\ UNCHANGED <<flushlock, oqflushing, dflush_counter, rem, net, worker,
                 shut>>

\* Woken up in the turn of the pending flush.
Resume(f) ==
  /\ pc[f] = "pending" /\ status[f] = "ready" /\ flushlock = None
  /\ Setup(f, kind[f])
  /\ UNCHANGED <<flushlock, fpending, oqflushing, dflush_counter, status,
                 kind, rem, net, worker, shut, histVars>>

\* Woken up because the flush is cancelled: HG_CANCELED is returned without
\* releasing flushlock.
ResumeCancelled(f) ==
  /\ pc[f] = "pending" /\ status[f] = "cancel" /\ flushlock = None
  /\ flushlock' = f
  /\ Goto(f, "idle")
  /\ UNCHANGED <<flushVars, osetVars, dflush_counter, status, kind, rem, net,
                 worker, shut, histVars>>

NextPending ==
  \/ fpending = <<>> /\ UNCHANGED <<fpending, status>>
  \/ /\ fpending # <<>>
     /\ fpending' = Tail(fpending)
     /\ status' = [status EXCEPT ![Head(fpending)] = "ready"]

\* drop_curflush; without a current flush it aborts (see NoAbort).
DropCurflush ==
  /\ flushlock = None /\ curflush # None
  /\ curflush' = None /\ flushoset' = None
  /\ osetflushing' = IF flushoset = None THEN osetflushing
                     ELSE [osetflushing EXCEPT ![flushoset] = FALSE]
  /\ NextPending

\* The end of aquire_flush: give up if the worker threads are gone.
CheckRunning(f) ==
  /\ pc[f] = "check" /\ worker[WorkerOf(kind[f])] = "running"
  /\ Goto(f, IF kind[f] = Deliver THEN "dstart" ELSE "start")
  /\ rem' = [rem EXCEPT ![f] = IF kind[f] = Deliver THEN {} ELSE Queues]
  /\ UNCHANGED <<flushlock, flushVars, osetVars, dflush_counter, status, kind,
                 net, worker, shut, histVars>>

GiveUp(f) ==
  /\ pc[f] = "check" /\ worker[WorkerOf(kind[f])] # "running"
  /\ DropCurflush
  /\ Goto(f, "idle")
  /\ UNCHANGED <<flushlock, oqflush_counter, oqflushing, dflush_counter, kind,
                 rem, net, worker, shut, histVars>>

-----------------------------------------------------------------------------
\* shuffler_flush_qs.

\* start_qflush on one queue, which has something to flush or not.
StartQ(f, q) ==
  /\ pc[f] = "start" /\ q \in rem[f] /\ q \notin oqflushing[kind[f]]
  /\ rem' = [rem EXCEPT ![f] = @ \ {q}]
  /\ \/ /\ oqflushing' = [oqflushing EXCEPT ![kind[f]] = @ \cup {q}]
        /\ oqflush_counter' = [oqflush_counter EXCEPT ![kind[f]] = @ + 1]
     \/ UNCHANGED <<oqflushing, oqflush_counter>>
  /\ UNCHANGED <<flushlock, flushVars, osetflushing, dflush_counter, pc,
                 status, kind, net, worker, shut, histVars>>

\* Fault: osetflushing stays set when nothing is left to wait for.
StillFlushingKept(o) == osetflushing[o]

\* Fault: osetflushing is cleared whatever is left.
StillFlushingNot(o) == FALSE

StillFlushing(o) == osetflushing[o] /\ oqflush_counter'[o] # 0

\* Under flushlock: drop the flush's own reference; then the wait loop.
DropRef(f) ==
  /\ pc[f] = "start" /\ rem[f] = {} /\ flushlock = None
  /\ oqflush_counter' = [oqflush_counter EXCEPT ![kind[f]] = @ - 1]
  /\ osetflushing' = [osetflushing EXCEPT ![kind[f]] =
                        StillFlushing(kind[f])]
  /\ Goto(f, "wait")
  /\ UNCHANGED <<flushlock, flushVars, oqflushing, dflush_counter, status,
                 kind, rem, net, worker, shut, histVars>>

\* Fault: osetflushing stays set after a cancelled wait.
AfterWaitKept(o) == osetflushing[o]

AfterWait(o) == FALSE

\* The test of the wait loop, with flushlock held until it sleeps.
WaitTest(f) ==
  /\ pc[f] = "wait" /\ flushlock = None
  /\ \/ /\ osetflushing[kind[f]] /\ status[f] = "ready"
        /\ Goto(f, "asleep") /\ UNCHANGED osetflushing
     \/ /\ ~(osetflushing[kind[f]] /\ status[f] = "ready")
        /\ osetflushing' = [osetflushing EXCEPT ![kind[f]] = AfterWait(kind[f])]
        /\ Goto(f, IF status[f] = "cancel" THEN "clean" ELSE "drop")
  /\ UNCHANGED <<flushlock, flushVars, oqflush_counter, oqflushing,
                 dflush_counter, status, kind, rem, net, worker, shut,
                 histVars>>

\* clean_qflush
CleanQflush(f) ==
  /\ pc[f] = "clean"
  /\ oqflushing' = [oqflushing EXCEPT ![kind[f]] = {}]
  /\ oqflush_counter' = [oqflush_counter EXCEPT ![kind[f]] = 0]
  /\ Goto(f, "drop")
  /\ UNCHANGED <<flushlock, flushVars, osetflushing, dflush_counter, status,
                 kind, rem, net, worker, shut, histVars>>

\* The end of both kinds of flush.
Drop(f) ==
  /\ pc[f] = "drop"
  /\ DropCurflush
  /\ Goto(f, "idle")
  /\ UNCHANGED <<flushlock, oqflush_counter, oqflushing, dflush_counter, kind,
                 rem, net, worker, shut, histVars>>

\* pthread_cond_signal on the current flush's condition variable.
WakeCurrent ==
  pc' = IF curflush # None /\ pc[curflush] \in {"asleep", "dasleep"}
        THEN [pc EXCEPT ![curflush] =
                IF @ = "asleep" THEN "wait" ELSE "dtest"]
        ELSE pc

\* A queue has flushed what it had to; its network thread calls
\* done_oq_flush: first the reference,
QueueDone(o, q) ==
  /\ worker[WorkerOf(o)] # "stopped" /\ net[WorkerOf(o)].at = "idle"
  /\ q \in oqflushing[o]
  /\ oqflushing' = [oqflushing EXCEPT ![o] = @ \ {q}]
  /\ net' = [net EXCEPT ![WorkerOf(o)] = [at |-> "deref", oset |-> o]]
  /\ UNCHANGED <<flushlock, flushVars, osetflushing, oqflush_counter,
                 dflush_counter, pc, status, kind, rem, worker, shut, histVars>>

LastQueueRef(o) == oqflush_counter'[o] = 0

QueueDeref(w) ==
  LET o == net[w].oset IN
  /\ net[w].at = "deref"
  /\ oqflush_counter' = [oqflush_counter EXCEPT ![o] = @ - 1]
  /\ net' = [net EXCEPT ![w] = IF LastQueueRef(o)
                                 THEN [at |-> "signal", oset |-> o]
                                 ELSE [at |-> "idle", oset |-> None]]
  /\ UNCHANGED <<flushlock, flushVars, osetflushing, oqflushing,
                 dflush_counter, pc, status, kind, rem, worker, shut, histVars>>

\* then, if it was the last, the signal.
QueueSignal(w) ==
  LET o == net[w].oset IN
  /\ net[w].at = "signal" /\ flushlock = None
  /\ net' = [net EXCEPT ![w] = [at |-> "idle", oset |-> None]]
  /\ \/ /\ osetflushing[o]
        /\ osetflushing' = [osetflushing EXCEPT ![o] = FALSE]
        /\ WakeCurrent
     \/ ~osetflushing[o] /\ UNCHANGED <<osetflushing, pc>>
  /\ UNCHANGED <<flushlock, flushVars, oqflush_counter, oqflushing,
                 dflush_counter, status, kind, rem, worker, shut, histVars>>

-----------------------------------------------------------------------------
\* shuffler_flush_delivery.  deliverlock is held from the test to the sleep.

DeliverLocked == \E f \in Flushers : pc[f] = "dsleep"

FlushDeliverStart(f, n) ==
  /\ pc[f] = "dstart" /\ ~DeliverLocked
  /\ dflush_counter' = n
  /\ Goto(f, "dtest")
  /\ UNCHANGED <<flushlock, flushVars, osetVars, status, kind, rem, net,
                 worker, shut, histVars>>

DeliverTest(f) ==
  /\ pc[f] = "dtest" /\ ~DeliverLocked
  /\ \/ /\ dflush_counter > 0 /\ status[f] = "ready"
        /\ Goto(f, "dsleep") /\ UNCHANGED dflush_counter
     \/ /\ ~(dflush_counter > 0 /\ status[f] = "ready")
        /\ dflush_counter' = 0
        /\ Goto(f, "drop")
  /\ UNCHANGED <<flushlock, flushVars, osetVars, status, kind, rem, net,
                 worker, shut, histVars>>

DeliverSleep(f) ==
  /\ pc[f] = "dsleep" /\ Goto(f, "dasleep")
  /\ UNCHANGED <<flushlock, flushVars, osetVars, dflush_counter, status, kind,
                 rem, net, worker, shut, histVars>>

CountsDelivery == dflush_counter > 0

\* delivery_main has delivered a request.
DeliverOne ==
  /\ worker["delivery"] # "stopped" /\ CountsDelivery /\ ~DeliverLocked
  /\ dflush_counter' = dflush_counter - 1
  /\ \/ dflush_counter' = 0 /\ WakeCurrent
     \/ dflush_counter' # 0 /\ UNCHANGED pc
  /\ UNCHANGED <<flushlock, flushVars, osetVars, status, kind, rem, net,
                 worker, shut, histVars>>

-----------------------------------------------------------------------------
\* shuffler_shutdown.

DisableSend ==
  /\ ShutsDown /\ shut = "no"
  /\ shut' = "disabled"
  /\ UNCHANGED <<flushlock, flushVars, osetVars, dflush_counter, pc, status,
                 kind, rem, net, worker, histVars>>

Cancelled == Range(fpending) \cup ({curflush} \ {None})

\* Fault: the current flush is cancelled without a signal.
DiscardSignalNone == UNCHANGED pc

DiscardSignal == WakeCurrent

\* shuffler_flush_discard: cancel the pending flushes and the current one.
Discard ==
  /\ shut = "disabled" /\ flushlock = None
  /\ fpending' = <<>>
  /\ status' = [f \in Flushers |-> IF f \in Cancelled THEN "cancel"
                                                      ELSE status[f]]
  /\ DiscardSignal
  /\ shut' = "discarded"
  /\ UNCHANGED <<flushlock, curflush, flushoset, osetVars, dflush_counter,
                 kind, rem, net, worker, histVars>>

\* stop_threads: remote network, local network and delivery thread in turn
\* are told to stop and joined;
Before(w) == CASE w = "remote" -> {}
               [] w = "local" -> {"remote"}
               [] OTHER -> NetThreads

BeginStop(w) ==
  /\ shut = "discarded" /\ worker[w] = "running"
  /\ \A v \in Before(w) : worker[v] = "stopped"
  /\ worker' = [worker EXCEPT ![w] = "stopping"]
  /\ UNCHANGED <<flushlock, flushVars, osetVars, dflush_counter, pc, status,
                 kind, rem, net, shut, histVars>>

\* network_main and delivery_main leave their loops;
WorkerExit(w) ==
  /\ worker[w] = "stopping"
  /\ w \in NetThreads => net[w].at = "idle"
  /\ w = "delivery" => ~DeliverLocked
  /\ worker' = [worker EXCEPT ![w] = "stopped"]
  /\ UNCHANGED <<flushlock, flushVars, osetVars, dflush_counter, pc, status,
                 kind, rem, net, shut, histVars>>

\* then purge_reqs stops the queues' flushes and wakes up nobody.
PurgeReqs ==
  /\ shut = "discarded" /\ \A w \in Workers : worker[w] = "stopped"
  /\ shut' = "purged"
  /\ oqflush_counter' = [o \in Osets |->
                          oqflush_counter[o] - Cardinality(oqflushing[o])]
  /\ oqflushing' = [o \in Osets |-> {}]
  /\ osetflushing' = [o \in Osets |-> FALSE]
  /\ UNCHANGED <<flushlock, flushVars, dflush_counter, pc, status, kind, rem,
                 net, worker, histVars>>

-----------------------------------------------------------------------------
\* A flush that becomes current while a released one has still to run makes
\* two current flushes; the model ends there.
FlusherStep(f) ==
  /\ ~overtaken
  /\ \/ Resume(f) \/ ResumeCancelled(f) \/ CheckRunning(f) \/ GiveUp(f)
     \/ \E q \in Queues : StartQ(f, q)
     \/ DropRef(f) \/ WaitTest(f) \/ CleanQflush(f) \/ Drop(f)
     \/ \E n \in 0 .. MaxQueued : FlushDeliverStart(f, n)
     \/ DeliverTest(f) \/ DeliverSleep(f)

NetStep(w) ==
  /\ ~overtaken
  /\ \/ \E o \in Osets, q \in Queues : WorkerOf(o) = w /\ QueueDone(o, q)
     \/ QueueDeref(w) \/ QueueSignal(w)

Delivery == ~overtaken /\ DeliverOne

Exit(w) == ~overtaken /\ WorkerExit(w)

Shutdown ==
  /\ ~overtaken
  /\ Discard \/ (\E w \in Workers : BeginStop(w)) \/ PurgeReqs

Quiescent ==
  /\ \A f \in Flushers : pc[f] = "idle"
  /\ UNCHANGED vars

Next ==
  \/ ~overtaken /\ \E f \in Flushers, k \in Kinds : Aquire(f, k)
  \/ \E f \in Flushers : FlusherStep(f)
  \/ \E w \in NetThreads : NetStep(w)
  \/ Delivery
  \/ \E w \in Workers : Exit(w)
  \/ ~overtaken /\ DisableSend
  \/ Shutdown
  \/ Quiescent

\* Threads keep running; nobody has to flush or to shut down.
Fairness ==
  /\ \A f \in Flushers : WF_vars(FlusherStep(f))
  /\ \A w \in NetThreads : WF_vars(NetStep(w))
  /\ \A w \in Workers : WF_vars(Exit(w))
  /\ WF_vars(Delivery) /\ WF_vars(Shutdown)

Spec == Init /\ [][Next]_vars
FairSpec == Spec /\ Fairness

-----------------------------------------------------------------------------
\* Properties.

\* "flush operations are serialized" as long as no thread becomes the current
\* flush between the drop_curflush that releases a pending one and the moment
\* this one runs.  The properties are about the behaviours before that.

\* None of the aborts and the assert of the flush code is reached:
\* drop_curflush has a current flush to drop, start_qflush finds no queue
\* flushing, clean_qflush no set flushing, and done_oq_flush a flusher to
\* signal.
NoAbort ==
  ~overtaken =>
    /\ \A f \in Flushers :
         /\ pc[f] = "drop" => curflush = f
         /\ pc[f] = "start" => rem[f] \cap oqflushing[kind[f]] = {}
         /\ pc[f] = "clean" => ~osetflushing[kind[f]]
    /\ \A o \in Osets : osetflushing[o] => curflush # None

\* A flush of a set that shuffler_flush_qs is about to report as a success
\* left none of the set's queues flushing, until purge_reqs has run.
SuccessMeansFlushed ==
  \A f \in Flushers :
    /\ shut # "purged" /\ ~overtaken
    /\ pc[f] = "drop" /\ status[f] = "ready" /\ kind[f] # Deliver
    => oqflushing[kind[f]] = {}

\* While the shuffler stays up, a flush operation returns
\* (shuffler_flush_qs, shuffler_flush_delivery, aquire_flush).
FlushReturns ==
  \A f \in Flushers :
    pc[f] # "idle" /\ shut = "no" ~> pc[f] = "idle" \/ shut # "no" \/ overtaken

\* A flush of output queues that shuffler_flush_discard has cancelled
\* returns, unless another flush was cancelled while it was pending: that
\* one leaves aquire_flush with flushlock held.
KeptLock(f) ==
  \E g \in Flushers \ {f} : \/ pc[g] = "pending" /\ status[g] = "cancel"
                            \/ pc[g] = "idle" /\ flushlock = g
QueueCancelReturns ==
  \A f \in Flushers :
    pc[f] # "idle" /\ status[f] = "cancel" /\ kind[f] # Deliver /\ ~KeptLock(f)
      ~> pc[f] = "idle" \/ overtaken
-----------------------------------------------------------------------------
\* What holds throughout (FlushInv), for the proofs.

Points == {"idle", "pending", "check", "start", "wait", "asleep", "clean",
           "drop", "dstart", "dtest", "dsleep", "dasleep"}

LinksOK ==
  /\ flushlock \in Flushers \cup {None} /\ curflush \in Flushers \cup {None}
  /\ flushoset \in Osets \cup {None} /\ fpending \in Seq(Flushers)
  /\ pc \in [Flushers -> Points]
  /\ status \in [Flushers -> {"pending", "ready", "cancel"}]
  /\ kind \in [Flushers -> Osets \cup {Deliver, None}]
  /\ shut \in {"no", "disabled", "discarded", "purged"}

CountsOK ==
  /\ osetflushing \in [Osets -> BOOLEAN] /\ oqflush_counter \in [Osets -> Int]
  /\ oqflushing \in [Osets -> SUBSET Queues]
  /\ \A o \in Osets : IsFiniteSet(oqflushing[o])
  /\ rem \in [Flushers -> SUBSET Queues] /\ dflush_counter \in Nat
  /\ net \in [NetThreads -> [at : {"idle", "deref", "signal"},
                             oset : Osets \cup {None}]]
  /\ \A w \in NetThreads : IF net[w].at = "idle" THEN net[w].oset = None
                            ELSE net[w].oset \in Osets /\ WorkerOf(net[w].oset) = w

TypeOK == LinksOK /\ CountsOK

\* curflush is the one flusher that is past aquire_flush's queue.
OneCurrent ==
  /\ \A f \in Flushers : curflush = f <=> pc[f] \notin {"idle", "pending"}
  /\ curflush # None => Released = {}
  /\ \A f, g \in Released : f = g

\* fpending holds, once each, those that wait for their turn.
Once(s) == \A i, j \in DOMAIN s : s[i] = s[j] => i = j
Queued ==
  /\ Once(fpending)
  /\ \A f \in Flushers : f \in Range(fpending) <=> status[f] = "pending"
  /\ \A f \in Flushers : status[f] = "pending" => pc[f] = "pending"
  /\ \A f \in Flushers : status[f] = "cancel" => shut \in {"discarded", "purged"}
  /\ shut \in {"discarded", "purged"} => fpending = <<>>

\* The marks on the output sets are those of the current flush.
Marked ==
  /\ \A f \in Flushers :
       /\ pc[f] # "idle" => kind[f] \in Osets \cup {Deliver}
       /\ pc[f] \in {"start", "wait", "asleep", "clean"} => kind[f] \in Osets
       /\ pc[f] \in {"dstart", "dtest", "dsleep", "dasleep"} => kind[f] = Deliver
       /\ pc[f] = "clean" => status[f] = "cancel" /\ ~osetflushing[kind[f]]
       /\ pc[f] \in {"dsleep", "dasleep"} /\ status[f] = "ready" => dflush_counter > 0
  /\ flushoset = IF curflush = None THEN None
                 ELSE IF kind[curflush] = Deliver THEN None ELSE kind[curflush]
  /\ \A o \in Osets : osetflushing[o] => flushoset = o

\* Nothing of an earlier flush of the set is under way.
Quiet(o) == oqflushing[o] = {} /\ \A w \in NetThreads : net[w].oset # o

QuietSets ==
  shut \in {"no", "disabled"} \/ Released # {} =>
    \A o \in Osets \ {flushoset} : Quiet(o)

At(o, l) == net[WorkerOf(o)].at = l /\ net[WorkerOf(o)].oset = o
Deref(o) == IF At(o, "deref") THEN 1 ELSE 0

\* While queues are looked at: a reference for the flush, one for each queue
\* still flushing and one for a queue that has finished but not yet dropped
\* its own.
Starting(f) ==
  LET o == kind[f] IN
  /\ rem[f] \cap oqflushing[o] = {}
  /\ shut # "purged" =>
       /\ oqflush_counter[o] = 1 + Cardinality(oqflushing[o]) + Deref(o)
       /\ ~At(o, "signal") /\ osetflushing[o]

\* While the flush waits: it has something to wait for, or the signal is on
\* its way, or nothing is left of it.
Waiting(f) ==
  LET o == kind[f] IN
  shut # "purged" =>
    /\ oqflush_counter[o] = Cardinality(oqflushing[o]) + Deref(o)
    /\ At(o, "signal") => oqflush_counter[o] = 0 /\ osetflushing[o]
    /\ osetflushing[o] => oqflush_counter[o] > 0 \/ At(o, "signal")
    /\ ~osetflushing[o] => Quiet(o)
    /\ pc[f] = "asleep" => osetflushing[o] /\ status[f] = "ready"

\* The references of the current flush.
Counted ==
  \A f \in Flushers :
    /\ pc[f] = "check" /\ kind[f] # Deliver =>
         Quiet(kind[f]) /\ oqflush_counter[kind[f]] = 1
           /\ (shut # "purged" => osetflushing[kind[f]])
    /\ pc[f] = "start" => Starting(f)
    /\ pc[f] \in {"wait", "asleep"} => Waiting(f)
    /\ pc[f] = "drop" /\ status[f] = "ready" /\ kind[f] # Deliver /\ shut # "purged" =>
         Quiet(kind[f])

\* Flushes are serialized and their references counted, so none of the
\* aborts of the flush code is reached and a flush of output queues that
\* sleeps has a queue, or a signal, to wake it up.
FlushInv ==
  /\ TypeOK /\ NoAbort
  /\ ~overtaken => OneCurrent /\ Queued /\ Marked /\ QuietSets /\ Counted
=============================================================================
