------------------------------- MODULE NNSend -------------------------------
(***************************************************************************)
(* The sending side of the all-to-all shuffler of one rank: a queue per    *)
(* peer that collects writes and is sent when it is full (enqueue) or when *)
(* the epoch ends (flushq), the callback slots that bound the RPCs in      *)
(* flight (write_send_async, write_async_handler), the wait for all of     *)
(* them (waitcb), and the sending one by one of force_sync (write_send).   *)
(*                                                                         *)
(* Every write has the same size (fname_len, data_len and extra_data_len   *)
(* are fixed), so max_rpcq_sz is a number of writes.  mercury takes a copy *)
(* of a message in HG_Forward and answers some time later; a failure of    *)
(* mercury, or of a peer's write, ends the program.                        *)
(*                                                                         *)
(* Grain: one step per critical section.  A thread that waits on a         *)
(* condition variable is at a location of its own and goes on only when it *)
(* is notified.  The application calls closedir, and so flushq, while no   *)
(* file is open (the paranoid check of closedir).                          *)
(***************************************************************************)
EXTENDS Integers, Sequences, FiniteSets, Functions

CONSTANTS
  Thread,       \* application threads
  Peer,         \* receiving ranks
  rpcq_order,   \* the order in which flushq visits the queues
  max_rpcq_sz,  \* writes that fit into a queue
  cb_allowed,   \* soft limit of RPCs in flight
  MaxWrites,    \* bound: writes that are made
  MaxEpoch,     \* bound: epochs
  NoOne

ASSUME NNSendAssumption ==
  /\ NoOne \notin Thread \cup Peer
  /\ rpcq_order \in Seq(Peer) /\ Range(rpcq_order) = Peer
  /\ max_rpcq_sz \in Nat \ {0} /\ cb_allowed \in Nat \ {0}
  /\ MaxWrites \in Nat /\ MaxEpoch \in Nat

VARIABLES
  force_sync,
  rpcqs,        \* a queue: its writes, lepo, busy
  cb_flags,     \* slots in use
  cb_left,
  flight,       \* RPCs that are not answered
  pc, peer, mine, slot, rest,   \* a thread: where, for whom, the write it is
                \* called with, and the queues it has still to flush
  epoch,
  made,         \* writes that enqueue was called with
  arrived, handed,        \* history: writes enqueued and sent, by peer
  flushed       \* history: the last call to return was a flush

Slots == 0..cb_allowed-1

queueVars  == <<rpcqs, arrived, handed>>
slotVars   == <<cb_flags, cb_left>>
threadVars == <<pc, peer, mine, slot, rest>>
vars == <<force_sync, queueVars, slotVars, threadVars, flight, epoch, made, flushed>>

Init ==
  /\ force_sync \in BOOLEAN
  /\ rpcqs = [p \in Peer |-> [buf |-> <<>>, lepo |-> 0, busy |-> FALSE]]
  /\ cb_flags = {} /\ cb_left = cb_allowed
  /\ flight = {}
  /\ pc = [t \in Thread |-> "idle"]
  /\ peer = [t \in Thread |-> NoOne]
  /\ mine = [t \in Thread |-> NoOne]
  /\ slot = [t \in Thread |-> -1]
  /\ rest = [t \in Thread |-> <<>>]
  /\ epoch = 0 /\ made = 0
  /\ arrived = [p \in Peer |-> <<>>] /\ handed = [p \in Peer |-> <<>>]
  /\ flushed = TRUE

AllIdle == \A t \in Thread : pc[t] = "idle"
InFlush(t) == pc[t] \in {"flush", "waitcb", "callback wait"} \/ rest[t] # <<>>

\* t goes on at l, and the threads at a wait that was notified at their test
Go(t, l) == pc' = [pc EXCEPT ![t] = l]
GoAndNotify(t, l, waits, test) ==
  pc' = [u \in Thread |-> IF u = t THEN l
                          ELSE IF pc[u] = waits THEN test ELSE pc[u]]

-----------------------------------------------------------------------------
(* enqueue                                                                 *)

\* fclose has found the owner of a write
Enqueue(t, p) ==
  /\ pc[t] = "idle" /\ ~\E u \in Thread : InFlush(u)
  /\ made < MaxWrites
  /\ Go(t, "enqueue")
  /\ peer' = [peer EXCEPT ![t] = p]
  /\ mine' = [mine EXCEPT ![t] = [id |-> made + 1, epoch |-> epoch]]
  /\ made' = made + 1
  /\ flushed' = FALSE
  /\ UNCHANGED <<force_sync, queueVars, slotVars, flight, slot, rest, epoch>>

\* the epoch of the last write is not noted
AppendedStale(rq, w) == [rq EXCEPT !.buf = Append(@, w)]

Appended(rq, w) == [rq EXCEPT !.buf = Append(@, w), !.lepo = w.epoch]

Full(rq) == Len(rq.buf) + 1 > max_rpcq_sz

\* other writers are not kept out
LockedNot(rq) == rq

Locked(rq) == [rq EXCEPT !.busy = TRUE]

QueueWait(t) ==
  /\ pc[t] = "enqueue" /\ rpcqs[peer[t]].busy
  /\ Go(t, "queue wait")
  /\ UNCHANGED <<force_sync, queueVars, slotVars, flight, peer, slot, rest,
                 mine, epoch, made, flushed>>

QueueAppend(t) ==
  LET rq == rpcqs[peer[t]]
  IN  /\ pc[t] = "enqueue" /\ ~rq.busy /\ ~Full(rq)
      /\ rpcqs' = [rpcqs EXCEPT ![peer[t]] = Appended(rq, mine[t])]
      /\ arrived' = [arrived EXCEPT ![peer[t]] = Append(@, mine[t])]
      /\ Go(t, "idle")
      /\ peer' = [peer EXCEPT ![t] = NoOne] /\ mine' = [mine EXCEPT ![t] = NoOne]
      /\ UNCHANGED <<force_sync, handed, slotVars, flight, slot, rest, epoch,
                     made, flushed>>

QueueFull(t) ==
  LET rq == rpcqs[peer[t]]
  IN  /\ pc[t] = "enqueue" /\ ~rq.busy /\ Full(rq)
      /\ rpcqs' = [rpcqs EXCEPT ![peer[t]] = Locked(rq)]
      /\ Go(t, "send")
      /\ UNCHANGED <<force_sync, arrived, handed, slotVars, flight, peer, slot,
                     rest, mine, epoch, made, flushed>>

-----------------------------------------------------------------------------
(* write_send_async and write_send                                         *)

SlotWait(t) ==
  /\ pc[t] = "send" /\ ~force_sync /\ cb_left = 0
  /\ Go(t, "slot wait")
  /\ UNCHANGED <<force_sync, queueVars, slotVars, flight, peer, slot, rest,
                 mine, epoch, made, flushed>>

\* the first slot, in use or not
FreeSlotFirst(s) == s = 0

\* the first slot that is not in use
FreeSlot(s) == s \notin cb_flags /\ \A u \in 0..s-1 : u \in cb_flags

TakeSlot(t) ==
  /\ pc[t] = "send" /\ ~force_sync /\ cb_left > 0
  /\ \E s \in Slots :
       /\ FreeSlot(s)
       /\ slot' = [slot EXCEPT ![t] = s]
       /\ cb_flags' = cb_flags \cup {s}
  /\ cb_left' = cb_left - 1
  /\ Go(t, "forward")
  /\ UNCHANGED <<force_sync, queueVars, flight, peer, rest, mine, epoch, made,
                 flushed>>

Message(t) ==
  [by |-> t, slot |-> slot[t], to |-> peer[t], epo |-> rpcqs[peer[t]].lepo,
   msg |-> rpcqs[peer[t]].buf]

\* HG_Forward
Forward(t) ==
  /\ \/ pc[t] = "forward" /\ Go(t, "sent")
     \/ pc[t] = "send" /\ force_sync /\ Go(t, "reply")
  /\ flight' = flight \cup {Message(t)}
  /\ handed' = [handed EXCEPT ![peer[t]] = @ \o rpcqs[peer[t]].buf]
  /\ slot' = [slot EXCEPT ![t] = -1]
  /\ UNCHANGED <<force_sync, rpcqs, arrived, slotVars, peer, rest, mine,
                 epoch, made, flushed>>

ReplyWait(t) ==
  /\ pc[t] = "reply" /\ \E f \in flight : f.by = t
  /\ Go(t, "reply wait")
  /\ UNCHANGED <<force_sync, queueVars, slotVars, flight, peer, slot, rest,
                 mine, epoch, made, flushed>>

Replied(t) ==
  /\ pc[t] = "reply" /\ ~\E f \in flight : f.by = t
  /\ Go(t, "sent")
  /\ UNCHANGED <<force_sync, queueVars, slotVars, flight, peer, slot, rest,
                 mine, epoch, made, flushed>>

Notifies == cb_left = 0 \/ cb_left = cb_allowed - 1

\* write_async_handler, on the looper
AsyncHandler(f) ==
  /\ ~force_sync
  /\ flight' = flight \ {f}
  /\ cb_flags' = cb_flags \ {f.slot}
  /\ cb_left' = cb_left + 1
  /\ pc' = IF Notifies
           THEN [u \in Thread |-> CASE pc[u] = "slot wait" -> "send"
                                    [] pc[u] = "callback wait" -> "waitcb"
                                    [] OTHER -> pc[u]]
           ELSE pc
  /\ UNCHANGED <<force_sync, queueVars, peer, slot, rest, mine, epoch, made,
                 flushed>>

\* write_handler, on the looper
Handler(f) ==
  /\ force_sync
  /\ flight' = flight \ {f}
  /\ pc' = [u \in Thread |-> IF pc[u] = "reply wait" THEN "reply" ELSE pc[u]]
  /\ UNCHANGED <<force_sync, queueVars, slotVars, peer, slot, rest, mine,
                 epoch, made, flushed>>

-----------------------------------------------------------------------------
(* After the RPC: the queue is opened again.                               *)

Opened(rq) == [rq EXCEPT !.busy = FALSE, !.buf = <<>>]

\* back in enqueue: the write that found the queue full is appended
SentEnqueue(t) ==
  /\ pc[t] = "sent" /\ ~InFlush(t)
  /\ rpcqs' = [rpcqs EXCEPT ![peer[t]] = Appended(Opened(@), mine[t])]
  /\ arrived' = [arrived EXCEPT ![peer[t]] = Append(@, mine[t])]
  /\ GoAndNotify(t, "idle", "queue wait", "enqueue")
  /\ peer' = [peer EXCEPT ![t] = NoOne] /\ mine' = [mine EXCEPT ![t] = NoOne]
  /\ UNCHANGED <<force_sync, handed, slotVars, flight, slot, rest, epoch,
                 made, flushed>>

\* back in flushq
SentFlush(t) ==
  /\ pc[t] = "sent" /\ InFlush(t)
  /\ rpcqs' = [rpcqs EXCEPT ![peer[t]] = Opened(@)]
  /\ GoAndNotify(t, "flush", "queue wait", "enqueue")
  /\ peer' = [peer EXCEPT ![t] = NoOne]
  /\ rest' = [rest EXCEPT ![t] = Tail(@)]
  /\ UNCHANGED <<force_sync, arrived, handed, slotVars, flight, slot, mine,
                 epoch, made, flushed>>

-----------------------------------------------------------------------------
(* shuffle_epoch_end: flushq and waitcb                                    *)

FlushBegin(t) ==
  /\ AllIdle
  /\ Go(t, "flush")
  /\ rest' = [rest EXCEPT ![t] = rpcq_order]
  /\ UNCHANGED <<force_sync, queueVars, slotVars, flight, peer, slot, mine,
                 epoch, made, flushed>>

\* the loop does not go on to the next queue
SkippedNot(order) == order

Skipped(order) == Tail(order)

FlushSkip(t) ==
  /\ pc[t] = "flush" /\ rest[t] # <<>>
  /\ rpcqs[Head(rest[t])].buf = <<>>
  /\ rest' = [rest EXCEPT ![t] = Skipped(@)]
  /\ UNCHANGED <<force_sync, queueVars, slotVars, flight, pc, peer, slot,
                 mine, epoch, made,
                 flushed>>

FlushSend(t) ==
  /\ pc[t] = "flush" /\ rest[t] # <<>>
  /\ rpcqs[Head(rest[t])].buf # <<>>
  /\ rpcqs' = [rpcqs EXCEPT ![Head(rest[t])] = Locked(@)]
  /\ peer' = [peer EXCEPT ![t] = Head(rest[t])]
  /\ Go(t, "send")
  /\ UNCHANGED <<force_sync, arrived, handed, slotVars, flight, slot, rest,
                 mine, epoch, made,
                 flushed>>

FlushEnd(t) ==
  /\ pc[t] = "flush" /\ rest[t] = <<>>
  /\ Go(t, IF force_sync THEN "idle" ELSE "waitcb")
  /\ flushed' = force_sync
  /\ UNCHANGED <<force_sync, queueVars, slotVars, flight, peer, slot, rest,
                 mine, epoch, made>>

\* a slot is enough
AllBackSome == cb_left # 0

AllBack == cb_left = cb_allowed

CallbackWait(t) ==
  /\ pc[t] = "waitcb" /\ ~AllBack
  /\ Go(t, "callback wait")
  /\ UNCHANGED <<force_sync, queueVars, slotVars, flight, peer, slot, rest,
                 mine, epoch, made, flushed>>

WaitcbEnd(t) ==
  /\ pc[t] = "waitcb" /\ AllBack
  /\ Go(t, "idle")
  /\ flushed' = TRUE
  /\ UNCHANGED <<force_sync, queueVars, slotVars, flight, peer, slot, rest,
                 mine, epoch, made>>

\* the next opendir
NextEpoch ==
  /\ AllIdle /\ flushed /\ epoch < MaxEpoch
  /\ epoch' = epoch + 1
  /\ UNCHANGED <<force_sync, queueVars, slotVars, threadVars, flight, made,
                 flushed>>

-----------------------------------------------------------------------------
Sending(t) ==
  \/ QueueWait(t) \/ QueueAppend(t) \/ QueueFull(t)
  \/ SlotWait(t) \/ TakeSlot(t) \/ Forward(t) \/ ReplyWait(t) \/ Replied(t)
  \/ SentEnqueue(t) \/ SentFlush(t)
  \/ FlushSkip(t) \/ FlushSend(t) \/ FlushEnd(t)
  \/ CallbackWait(t) \/ WaitcbEnd(t)

Looper == \E f \in flight : AsyncHandler(f) \/ Handler(f)

Next ==
  \/ \E t \in Thread : Sending(t) \/ FlushBegin(t) \/ \E p \in Peer : Enqueue(t, p)
  \/ Looper
  \/ NextEpoch

Spec == Init /\ [][Next]_vars

\* Threads run, and peers answer.
FairSpec ==
  /\ Spec
  /\ \A t \in Thread : WF_vars(Sending(t))
  /\ WF_vars(Looper)

-----------------------------------------------------------------------------

Write == [id : 1..MaxWrites, epoch : 0..MaxEpoch]

\* t has locked the queue of its peer; its RPC has left; its write is in no
\* queue yet
Sends(t)  == pc[t] \in {"send", "slot wait", "forward", "reply", "reply wait", "sent"}
Passed(t) == pc[t] \in {"reply", "reply wait", "sent"}
InHand(t) == pc[t] \in {"enqueue", "queue wait"} \/ (Sends(t) /\ rest[t] = <<>>)

\* Queues hold writes, RPCs carry them, and every thread is at one of its
\* program points.
TypeOK ==
  /\ force_sync \in BOOLEAN
  /\ rpcqs \in [Peer -> [buf : Seq(Write), lepo : 0..MaxEpoch, busy : BOOLEAN]]
  /\ cb_flags \subseteq Slots /\ cb_left \in Int
  /\ flight \subseteq [by : Thread, slot : Slots \cup {-1}, to : Peer,
                       epo : 0..MaxEpoch, msg : Seq(Write)]
  /\ pc \in [Thread -> {"idle", "enqueue", "queue wait", "send", "slot wait",
                        "forward", "reply", "reply wait", "sent", "flush",
                        "waitcb", "callback wait"}]
  /\ peer \in [Thread -> Peer \cup {NoOne}]
  /\ mine \in [Thread -> Write \cup {NoOne}]
  /\ slot \in [Thread -> Slots \cup {-1}]
  /\ rest \in [Thread -> Seq(Peer)]
  /\ epoch \in 0..MaxEpoch /\ made \in 0..MaxWrites
  /\ arrived \in [Peer -> Seq(Write)] /\ handed \in [Peer -> Seq(Write)]
  /\ flushed \in BOOLEAN

\* A queue whose RPC is being sent without the lock belongs to one thread
\* (busy), and a flush has the shuffler for itself.
QueueOwned ==
  /\ \A t \in Thread : Sends(t) => peer[t] \in Peer /\ rpcqs[peer[t]].busy
  /\ \A t, u \in Thread : Sends(t) /\ Sends(u) /\ peer[t] = peer[u] => t = u
  /\ \A t \in Thread : Sends(t) /\ rest[t] # <<>> => peer[t] = Head(rest[t])
  /\ \A t \in Thread : rest[t] # <<>> => Sends(t) \/ pc[t] = "flush"
  /\ \A t, u \in Thread : InFlush(t) /\ u # t => pc[u] = "idle"

\* Every write is made once, in the current epoch.
Fresh ==
  /\ \A p \in Peer : \A i \in DOMAIN arrived[p] : arrived[p][i].id <= made
  /\ \A t \in Thread : InHand(t) =>
       /\ peer[t] \in Peer /\ mine[t] \in Write
       /\ mine[t].id <= made /\ mine[t].epoch = epoch
       /\ \A p \in Peer : \A i \in DOMAIN arrived[p] : arrived[p][i].id # mine[t].id
       /\ \A u \in Thread : InHand(u) /\ mine[t].id = mine[u].id => t = u

\* What was sent and what is queued are the writes enqueued, in order.  A
\* buffer that has been sent is emptied only later, when the lock is back.
Left(p) ==
  IF \E t \in Thread : Passed(t) /\ peer[t] = p THEN <<>> ELSE rpcqs[p].buf
InOrder == \A p \in Peer : handed[p] \o Left(p) = arrived[p]

\* A queue never holds writes of two epochs, because the flush that ends an
\* epoch leaves the queues it has visited empty.
QueueEpoch ==
  /\ \A p \in Peer : \A i \in DOMAIN rpcqs[p].buf :
       rpcqs[p].buf[i].epoch = epoch /\ rpcqs[p].lepo = epoch
  /\ \A t \in Thread : InFlush(t) =>
       \A p \in Peer \ Range(rest[t]) : rpcqs[p].buf = <<>>
  /\ flushed =>
       /\ \A p \in Peer : rpcqs[p].buf = <<>>
       /\ \A t \in Thread : ~Sends(t) /\ ~InHand(t)

\* A callback slot belongs to one RPC, from the thread that takes it to the
\* handler that returns it, and cb_left counts the others: a reused slot would
\* give two replies to one RPC (write_send_async, write_async_handler).  With
\* force_sync the thread that sent an RPC waits for it.
SlotTaken(t) == IF pc[t] = "forward" THEN slot[t] \in cb_flags ELSE slot[t] = -1
ReplyDue(f) ==
  IF force_sync THEN f.slot = -1 /\ pc[f.by] \in {"reply", "reply wait"}
                ELSE f.slot \in cb_flags
OneOwner(s) ==
  /\ \A t, u \in Thread : slot[t] = s /\ slot[u] = s => t = u
  /\ \A f, g \in flight : f.slot = s /\ g.slot = s => f = g
  /\ \A t \in Thread, f \in flight : ~(slot[t] = s /\ f.slot = s)
  /\ (\E t \in Thread : slot[t] = s) \/ \E f \in flight : f.slot = s
InMode(t) ==
  /\ pc[t] \in {"slot wait", "forward", "waitcb", "callback wait"} => ~force_sync
  /\ pc[t] \in {"reply", "reply wait"} => force_sync
SlotOwned ==
  /\ cb_left = cb_allowed - Cardinality(cb_flags)
  /\ \A t \in Thread : SlotTaken(t) /\ InMode(t)
  /\ \A f \in flight : ReplyDue(f)
  /\ \A s \in cb_flags : OneOwner(s)

\* enqueue and flushq make a mailbox of every peer's queue: writes leave in
\* the order they came in, each of them once, whatever other threads do while
\* the queue's RPC is sent without the lock, and when shuffle_epoch_end
\* returns nothing is left behind.
Flushing == \E t \in Thread : InFlush(t)
Promise(p) == INSTANCE Mailbox WITH
  Item <- [id : 1..MaxWrites, epoch : 0..MaxEpoch],
  accepted <- arrived[p], handed <- handed[p], flushing <- Flushing,
  owed <- IF Flushing THEN Range(arrived[p]) ELSE {}
Implements ==
  /\ \A p \in Peer : Promise(p)!Init
  /\ [][\A p \in Peer : [Promise(p)!Next]_<<arrived[p], handed[p], Flushing>>]_vars

\* A message carries one epoch number, that of the last write put into it
\* (lepo); every write in it was made in that epoch.
OneEpoch == \A f \in flight : \A w \in Range(f.msg) : w.epoch = f.epo

\* When shuffle_epoch_end returns, every write made before has been answered
\* by its peer: nothing is left in a queue or in flight.
FlushComplete ==
  flushed => flight = {} /\ \A p \in Peer : handed[p] = arrived[p]

\* The sending side's inductive invariant: queues and slots are owned, every
\* write is in one place and in order, RPCs carry writes of one epoch, and
\* what a flush has passed is empty.
SendInv ==
  /\ TypeOK /\ QueueOwned /\ Fresh /\ InOrder /\ QueueEpoch /\ SlotOwned
  /\ OneEpoch /\ FlushComplete

\* Every call returns: fclose is not left waiting on a queue, a slot or a
\* reply, and closedir not on callbacks.
CallsReturn == \A t \in Thread : pc[t] # "idle" ~> pc[t] = "idle"

=============================================================================
