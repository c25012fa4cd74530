------------------------------- MODULE NNWork -------------------------------
(***************************************************************************)
(* The receiving side of the all-to-all shuffler of one rank: the looper   *)
(* that drives mercury (bg_work), the handler of an inbound RPC and the    *)
(* worker thread it may be handed to (write_rpc_handler_wrapper, rpc_work),*)
(* the wait for the worker (bgwait), and how the main thread pauses,       *)
(* resumes and destroys both (sleep, wakeup, destroy).                     *)
(*                                                                         *)
(* An RPC is executed by write_rpc_handler, which decodes its writes,      *)
(* stores each of them and responds; what it stores is Epoch's business,   *)
(* here it takes time.                                                     *)
(*                                                                         *)
(* Grain: one step per critical section.  The mutexes mtx[wk_cv] and       *)
(* mtx[bg_cv] are explicit, because rpc_work reads shutting_down while it  *)
(* holds the first and destroy takes the second before the first.          *)
(***************************************************************************)
EXTENDS Integers, Sequences, FiniteSets, Functions

CONSTANTS
  Rpcs,      \* RPCs that peers send
  MaxPauses, \* epochs that pause the threads
  LockFree,  \* is_shuttingdown takes no lock (x86_64), or mtx[bg_cv]
  None

ASSUME NNWorkAssumption ==
  LockFree \in BOOLEAN /\ None \notin Rpcs /\ MaxPauses \in Nat

VARIABLES
  shutting_down,      \* -1: pause, 0: run, 1: destroy
  num_bg, num_wk,
  wk_items, items_submitted, items_completed,
  bgm, wkm,           \* who holds mtx[bg_cv] and mtx[wk_cv]
  looper, hot,        \* bg_work: where, and the RPC it has in hand
  worker, todo, num_items, next,  \* rpc_work: where, and its locals
  main, pauses,       \* the main thread: where, and how often it has paused
  incoming,           \* RPCs that have reached this rank
  responses,          \* history: how often an RPC was answered
  snap,               \* history: RPCs handed to the worker before bgwait
  testin              \* the environment asks for test mode: bgwait polls

bgVars     == <<shutting_down, num_bg, num_wk, bgm>>
itemVars   == <<wk_items, items_submitted, items_completed, wkm>>
looperVars == <<looper, hot>>
workerVars == <<worker, todo, num_items, next>>
callVars   == <<pauses, snap, testin>>
netVars    == <<incoming, responses>>
vars == <<bgVars, itemVars, looperVars, workerVars, netVars, main, callVars>>

Answered == {r \in Rpcs : responses[r] > 0}

Init ==
  /\ shutting_down = 0
  /\ num_bg = 1 /\ num_wk \in {0, 1}
  /\ wk_items = <<>> /\ items_submitted = 0 /\ items_completed = 0
  /\ bgm = None /\ wkm = None
  /\ looper = "loop" /\ hot = None
  /\ worker = IF num_wk = 1 THEN "count" ELSE "gone"
  /\ todo = <<>> /\ num_items = 0 /\ next = 1
  /\ main = "idle" /\ pauses = 0
  /\ incoming = {} /\ responses = [r \in Rpcs |-> 0]
  /\ snap = {} /\ testin \in BOOLEAN

\* pthread_cond_broadcast: whoever waits goes back to its test
NotifyWk ==
  /\ worker' = IF worker = "asleep" THEN "lock" ELSE worker
  /\ main' = IF main = "bgwait asleep" THEN "bgwait" ELSE main

FreeFor(m, who) == m = None \/ m = who
\* is_shuttingdown, by someone who may hold mtx[wk_cv]
MayRead == LockFree \/ bgm = None

-----------------------------------------------------------------------------
(* write_rpc_handler_wrapper and bg_work                                   *)

\* the looper lends a hand when the worker is behind
RunsInlineBehind == num_wk = 0 \/ wk_items # <<>>

RunsInline == num_wk = 0

\* HG_Trigger runs the wrapper, which reads num_wk without a lock
Trigger(r) ==
  /\ looper = "loop" /\ r \in incoming
  /\ incoming' = incoming \ {r}
  /\ hot' = r
  /\ looper' = IF RunsInline THEN "handling" ELSE "push"
  /\ UNCHANGED <<bgVars, itemVars, workerVars, responses, main, callVars>>

\* only a second item is signalled
SignalsSecond == Len(wk_items) = 1

Signals == Len(wk_items) = 0

Push ==
  /\ looper = "push" /\ wkm = None
  /\ wk_items' = Append(wk_items, hot)
  /\ items_submitted' = items_submitted + 1
  /\ IF Signals THEN NotifyWk ELSE UNCHANGED <<worker, main>>
  /\ looper' = "loop" /\ hot' = None
  /\ UNCHANGED <<bgVars, items_completed, wkm, todo, num_items, next, netVars,
                 callVars>>

\* write_rpc_handler returns on the looper
LooperHandled ==
  /\ looper = "handling"
  /\ responses' = [responses EXCEPT ![hot] = @ + 1]
  /\ looper' = "loop" /\ hot' = None
  /\ UNCHANGED <<bgVars, itemVars, workerVars, incoming, main, callVars>>

\* HG_Progress, the pause or the end of the loop
LooperCheck ==
  /\ looper = "loop" /\ MayRead
  /\ looper' = CASE shutting_down = 0 -> "loop"
                 [] shutting_down < 0 -> "pause"
                 [] OTHER -> "exit"
  /\ UNCHANGED <<bgVars, itemVars, hot, workerVars, netVars, main, callVars>>

LooperPause ==
  /\ looper = "pause" /\ bgm = None
  /\ looper' = IF shutting_down < 0 THEN "asleep" ELSE "loop"
  /\ UNCHANGED <<bgVars, itemVars, hot, workerVars, netVars, main, callVars>>

\* destroy, woken, tests again
NotifyMain == main' = IF main = "destroy asleep" THEN "destroy wait" ELSE main

LooperExit ==
  /\ looper = "exit" /\ bgm = None
  /\ num_bg' = num_bg - 1
  /\ NotifyMain
  /\ looper' = "gone"
  /\ UNCHANGED <<shutting_down, num_wk, bgm, itemVars, hot, workerVars,
                 netVars, callVars>>

-----------------------------------------------------------------------------
(* rpc_work                                                                *)

NumReset == 0

WorkerCount ==
  /\ worker = "count" /\ wkm = None
  /\ items_completed' = items_completed + num_items
  /\ todo' = <<>>
  /\ num_items' = NumReset
  /\ worker' = "check"
  /\ main' = IF items_completed' = items_submitted /\ main = "bgwait asleep"
             THEN "bgwait" ELSE main
  /\ UNCHANGED <<bgVars, wk_items, items_submitted, wkm, looperVars, next,
                 netVars, callVars>>

WorkerLeaves == shutting_down > 0

WorkerCheck ==
  /\ worker = "check" /\ MayRead
  /\ worker' = CASE WorkerLeaves -> "exit"
                 [] shutting_down < 0 -> "pause"
                 [] OTHER -> "lock"
  /\ UNCHANGED <<bgVars, itemVars, looperVars, todo, num_items, next, netVars,
                 main, callVars>>

WorkerLock ==
  /\ worker = "lock" /\ wkm = None
  /\ wkm' = "worker"
  /\ worker' = "test"
  /\ UNCHANGED <<bgVars, wk_items, items_submitted, items_completed,
                 looperVars, todo,
                 num_items, next, netVars, main, callVars>>

WorkerWait ==
  /\ worker = "test" /\ wk_items = <<>> /\ MayRead /\ shutting_down = 0
  /\ wkm' = None
  /\ worker' = "asleep"
  /\ UNCHANGED <<bgVars, wk_items, items_submitted, items_completed,
                 looperVars, todo,
                 num_items, next, netVars, main, callVars>>

\* todo.swap(wk_items)
WorkerSwap ==
  /\ worker = "test"
  /\ wk_items # <<>> \/ (MayRead /\ shutting_down # 0)
  /\ wkm' = None
  /\ todo' = wk_items /\ wk_items' = todo
  /\ num_items' = Len(wk_items)
  /\ next' = 1
  /\ worker' = IF wk_items = <<>> THEN "count" ELSE "handling"
  /\ UNCHANGED <<bgVars, items_submitted, items_completed, looperVars,
                 netVars, main, callVars>>

NextItem == next + 1

\* write_rpc_handler returns on the worker
WorkerHandled ==
  /\ worker = "handling"
  /\ responses' = [responses EXCEPT ![todo[next]] = @ + 1]
  /\ next' = NextItem
  /\ worker' = IF next = Len(todo) THEN "count" ELSE "handling"
  /\ UNCHANGED <<bgVars, itemVars, looperVars, todo, num_items, incoming,
                 main, callVars>>

WorkerPause ==
  /\ worker = "pause" /\ bgm = None
  /\ worker' = IF shutting_down < 0 THEN "paused" ELSE "count"
  /\ UNCHANGED <<bgVars, itemVars, looperVars, todo, num_items, next, netVars,
                 main, callVars>>

\* nobody is told
WorkerExitMute == num_wk' = num_wk - 1 /\ UNCHANGED <<num_bg, main>>

WorkerGoes == num_wk' = num_wk - 1 /\ UNCHANGED num_bg /\ NotifyMain

WorkerExit ==
  /\ worker = "exit" /\ bgm = None
  /\ WorkerGoes
  /\ worker' = "gone"
  /\ UNCHANGED <<shutting_down, bgm, itemVars, looperVars, todo, num_items,
                 next,
                 netVars, callVars>>

-----------------------------------------------------------------------------
(* The main thread.  closedir waits before it pauses, opendir and          *)
(* MPI_Finalize resume before they wait, and MPI_Finalize destroys when no *)
(* peer has anything left to send or to be answered (Epoch).               *)

Bgwait ==
  /\ main = "idle" /\ shutting_down = 0
  /\ main' = "bgwait"
  /\ snap' = Range(wk_items) \cup Answered
             \cup IF worker = "handling" THEN Range(todo) ELSE {}
  /\ UNCHANGED <<bgVars, itemVars, looperVars, workerVars, netVars, pauses,
                 testin>>

\* what the worker has taken is not waited for
PendingQueued == wk_items # <<>>

Pending == items_completed < items_submitted

BgwaitTest ==
  /\ main = "bgwait" /\ wkm = None
  /\ main' = CASE ~Pending -> "idle"
               [] Pending /\ testin -> "bgwait"
               [] OTHER -> "bgwait asleep"
  /\ UNCHANGED <<bgVars, itemVars, looperVars, workerVars, netVars, callVars>>

Sleep ==
  /\ main = "idle" /\ shutting_down = 0 /\ bgm = None
  /\ pauses < MaxPauses /\ pauses' = pauses + 1
  /\ shutting_down' = -1
  /\ UNCHANGED <<num_bg, num_wk, bgm, itemVars, looperVars, workerVars,
                 netVars, main, snap, testin>>

Wakeup ==
  /\ main = "idle" /\ shutting_down < 0 /\ bgm = None
  /\ shutting_down' = 0
  /\ looper' = IF looper = "asleep" THEN "pause" ELSE looper
  /\ worker' = IF worker = "paused" THEN "pause" ELSE worker
  /\ UNCHANGED <<num_bg, num_wk, bgm, itemVars, hot, todo, num_items, next,
                 netVars, main, callVars>>

DestroyLockBg ==
  /\ main = "idle" /\ shutting_down = 0 /\ Answered = Rpcs
  /\ bgm = None /\ bgm' = "main"
  /\ main' = "destroy"
  /\ UNCHANGED <<shutting_down, num_bg, num_wk, itemVars, looperVars,
                 workerVars,
                 netVars, callVars>>

\* mtx[wk_cv] is locked and unlocked in here
DestroySignal ==
  /\ main = "destroy" /\ wkm = None
  /\ shutting_down' = 1
  /\ main' = "destroy wait"
  /\ worker' = CASE worker = "asleep" -> "lock"
                 [] worker = "paused" -> "pause"
                 [] OTHER -> worker
  /\ looper' = IF looper = "asleep" THEN "pause" ELSE looper
  /\ UNCHANGED <<num_bg, num_wk, bgm, itemVars, hot, todo, num_items, next,
                 netVars, callVars>>

DestroyWait ==
  /\ main = "destroy wait" /\ FreeFor(bgm, "main")
  /\ bgm' = None
  /\ main' = IF num_bg + num_wk # 0 THEN "destroy asleep" ELSE "done"
  /\ UNCHANGED <<shutting_down, num_bg, num_wk, itemVars, looperVars,
                 workerVars,
                 netVars, callVars>>

\* a peer sends an RPC
Arrive(r) ==
  /\ main \notin {"destroy", "destroy wait", "destroy asleep", "done"}
  /\ r \notin incoming \cup {hot} \cup Range(wk_items \o todo) \cup Answered
  /\ incoming' = incoming \cup {r}
  /\ UNCHANGED <<bgVars, itemVars, looperVars, workerVars, responses, main,
                 callVars>>

-----------------------------------------------------------------------------
Looper ==
  \/ \E r \in Rpcs : Trigger(r)
  \/ Push \/ LooperHandled \/ LooperCheck \/ LooperPause \/ LooperExit

Worker ==
  \/ WorkerCount \/ WorkerCheck \/ WorkerLock \/ WorkerWait \/ WorkerSwap
  \/ WorkerHandled \/ WorkerPause \/ WorkerExit

Returning == BgwaitTest \/ Wakeup \/ DestroySignal \/ DestroyWait

Next ==
  \/ Looper \/ Worker
  \/ Bgwait \/ Sleep \/ DestroyLockBg \/ Returning
  \/ \E r \in Rpcs : Arrive(r)

Spec == Init /\ [][Next]_vars

\* Threads run.  The application gets around to its next opendir, which
\* resumes what closedir has paused.
FairSpec == Spec /\ WF_vars(Looper) /\ WF_vars(Worker) /\ WF_vars(Returning)

-----------------------------------------------------------------------------

\* "here we assume we will only get called by a single thread" (the static
\* buffer of write_rpc_handler): the looper and the worker never execute an
\* RPC at the same time, not even around the worker's start and end.
SingleHandler == ~(looper = "handling" /\ worker = "handling")

\* "wait for background rpc work execution": when bgwait returns, every RPC
\* that had been handed to the worker before the call has been answered.
BgwaitMeansDone == main = "idle" => snap \subseteq Answered

\* Every RPC that reaches this rank is answered, across pauses.
RpcsAnswered == \A r \in Rpcs : r \in incoming ~> r \in Answered

\* destroy returns: both threads see it, wherever they wait.
DestroyReturns == main = "destroy" ~> main = "done"

-----------------------------------------------------------------------------
\* The inductive invariant behind the two safety properties.

PointsOK ==
  /\ shutting_down \in Int /\ num_bg \in Int /\ num_wk \in {0, 1}
  /\ bgm \in {None, "main"} /\ wkm \in {None, "worker"}
  /\ looper \in {"loop", "handling", "push", "pause", "asleep", "exit", "gone"}
  /\ worker \in {"count", "check", "lock", "test", "asleep", "handling",
                 "pause", "paused", "exit", "gone"}
  /\ main \in {"idle", "bgwait", "bgwait asleep", "destroy", "destroy wait",
               "destroy asleep", "done"}

ItemsOK ==
  /\ wk_items \in Seq(Rpcs) /\ todo \in Seq(Rpcs) /\ hot \in Rpcs \cup {None}
  /\ items_submitted \in Nat /\ items_completed \in Nat
  /\ num_items \in Nat /\ next \in Nat
  /\ incoming \subseteq Rpcs /\ responses \in [Rpcs -> Nat]
  /\ pauses \in Nat /\ snap \subseteq Rpcs /\ testin \in BOOLEAN

TypeOK == PointsOK /\ ItemsOK

\* num_wk says whether the worker is there; it never comes back, so the
\* wrapper's unlocked read of 0 stays right while the looper handles an RPC.
WorkerCounted ==
  /\ num_wk = IF worker = "gone" THEN 0 ELSE 1
  /\ looper = "handling" => worker = "gone"
  /\ looper \in {"handling", "push"} => hot \in Rpcs

\* The two counters differ by what is queued and what the worker has taken;
\* of that, what it is past is answered.
ItemsCounted ==
  /\ items_submitted = items_completed + Len(wk_items) + num_items
  /\ num_items = Len(todo)
  /\ worker \notin {"handling", "count"} => todo = <<>>
  /\ worker = "handling" => next \in 1..Len(todo)
  /\ \A i \in DOMAIN todo : worker = "count" \/ i < next => todo[i] \in Answered

\* What bgwait waits for is answered, queued or taken by the worker.
SnapWaited ==
  /\ snap \subseteq Answered \cup Range(wk_items) \cup Range(todo)
  /\ main = "idle" => snap \subseteq Answered

\* An RPC is in one place at a time and is answered once, whoever handles it.
Distinct(s) == \A i, j \in DOMAIN s : s[i] = s[j] => i = j
InHand == (IF hot = None THEN {} ELSE {hot}) \cup Range(wk_items)
AnsweredOnce ==
  /\ incoming \cap (InHand \cup Range(todo) \cup Answered) = {}
  /\ InHand \cap (Range(todo) \cup Answered) = {}
  /\ hot \notin Range(wk_items)
  /\ Distinct(wk_items) /\ Distinct(todo)
  /\ \A i \in DOMAIN todo : worker = "handling" /\ i >= next => todo[i] \notin Answered
  /\ \A r \in Rpcs : responses[r] <= 1

\* Together: one thread handles an RPC at a time, the counters that bgwait
\* compares (items_submitted, items_completed) say what is still to be
\* answered, and when bgwait has returned nothing of it is.
WorkInv ==
  /\ TypeOK /\ WorkerCounted /\ ItemsCounted /\ SnapWaited /\ AnsweredOnce
  /\ SingleHandler

=============================================================================
