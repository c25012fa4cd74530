------------------------------- MODULE Epoch -------------------------------
(***************************************************************************)
(* Epochs over all ranks: what opendir, fclose, closedir and MPI_Finalize  *)
(* of the preload library do at every rank, in which order they flush the  *)
(* shuffler and meet at barriers, and in which epoch preload_write stores  *)
(* a write at the rank that owns it.                                       *)
(*                                                                         *)
(* The shufflers appear through what their own modules promise.  A write   *)
(* stays in the queue of a rank until the next hop has answered; a flush   *)
(* returns when every write it found in the queue has left it (OutQueue,   *)
(* DeliveryQueue, NNSend, NNWork).  XN takes up to three hops, on the      *)
(* route nexus gives: "orq" (local_orq) to the node's representative,      *)
(* "rmq" (remoteq) to the other node's, "rlq" (local_rlq) to the owner.    *)
(* NN takes one, "rpcq".  "in" is the owner's input queue: deliverq of XN, *)
(* wk_items of NN.                                                         *)
(*                                                                         *)
(* An intercepted call is the sequence of the steps it still has to take,  *)
(* prog[r]; each step is one action.  The application calls the same       *)
(* functions in the same order at every rank.                              *)
(***************************************************************************)
EXTENDS Integers, Sequences, FiniteSets, Functions

CONSTANTS
  Rank,      \* ranks of MPI_COMM_WORLD, all of them receivers
  Node,      \* the node a rank is on
  Rep,       \* Rep[a, b]: the rank of node a that talks to node b
  Epochs,    \* bound: epochs the application runs
  Envs       \* the settings that preload_init may find, and who writes to whom

ASSUME EpochAssumption ==
  /\ Node \in [Rank -> Range(Node)]
  /\ Rep \in [Range(Node) \X Range(Node) -> Rank]
  /\ \A a, b \in Range(Node) : Node[Rep[a, b]] = a
  /\ Epochs \in Nat
  /\ Envs \subseteq [shuffler : {"XN", "NN"}, barrier : BOOLEAN,
                     post_barrier : BOOLEAN, pre_barrier : BOOLEAN,
                     bgpause : BOOLEAN, checks : BOOLEAN, force_rpc : BOOLEAN,
                     pairs : SUBSET (Rank \X Rank)]

VARIABLES
  env,         \* the settings, the same at every rank, and the application's
               \* <<source, owner>> pairs
  phase,       \* the application at a rank: "idle", "epoch", "done"
  prog,        \* steps left of the call it is in
  num_epochs,
  flushed,     \* the last epoch deltafs_plfsdir_epoch_flush has seen, or -1
  entered,     \* barriers entered: of everyone and of the rank's node
  paused,      \* shutting_down < 0 (NN)
  down,        \* the shuffler is destroyed
  q,           \* writes in a queue of a rank
  taken,       \* <<rank, queue, write>>: handled by the next hop, unanswered
  pend,        \* what the flush that a rank is in still waits for
  writing,     \* preload_write running for the delivery thread of a rank
  wrote,       \* history: writes made
  landed,      \* history: where and when writes were stored
  aborted      \* ABORT was called

Queues == {"orq", "rmq", "rlq", "rpcq", "in"}
Write  == [src : Rank, dst : Rank, epoch : 0..Epochs-1]

shuffleVars == <<q, taken, writing, wrote, landed, aborted>>
rankVars    == <<phase, prog, num_epochs, flushed, entered, paused, down, pend>>
vars == <<env, rankVars, shuffleVars>>

-----------------------------------------------------------------------------
(* The calls, as the steps they take.                                      *)

Flush(x) == <<"flush", x>>
When(b, steps) == IF b THEN steps ELSE <<>>

xn_epoch_end   == <<Flush("orq"), <<"local">>, Flush("rmq")>>
xn_epoch_start == <<Flush("rlq"), <<"local">>, Flush("in")>>

\* flushq and waitcb; waitcb waits for the replies, as a sync send does
nn_epoch_end   == <<Flush("rpcq")>>
nn_bgwait      == <<Flush("in")>>

shuffle_epoch_end ==
  IF env.shuffler = "XN" THEN xn_epoch_end ELSE nn_epoch_end

shuffle_epoch_start ==
  IF env.shuffler = "XN" THEN xn_epoch_start ELSE nn_bgwait

shuffle_resume == When(env.shuffler = "NN", <<<<"resume">>>>)
shuffle_pause  == When(env.shuffler = "NN", <<<<"pause">>>>)

\* the barrier after the epoch flush comes first
OpendirPostFirst(r) ==
  When(env.bgpause, shuffle_resume)
  \o When(num_epochs[r] # 0,
          When(env.barrier, <<<<"barrier">>>>) \o shuffle_epoch_start
          \o When(env.post_barrier, <<<<"barrier">>>>)
          \o <<<<"epoch_flush">>>>)
  \o <<<<"next_epoch">>>>

\* background activities are not resumed
OpendirAsleep(r) ==
  When(num_epochs[r] # 0,
       When(env.barrier, <<<<"barrier">>>>) \o shuffle_epoch_start
       \o <<<<"epoch_flush">>>> \o When(env.post_barrier, <<<<"barrier">>>>))
  \o <<<<"next_epoch">>>>

\* the barrier before the epoch flush is left out
OpendirNoBarrier(r) ==
  When(env.bgpause, shuffle_resume)
  \o When(num_epochs[r] # 0,
          shuffle_epoch_start \o <<<<"epoch_flush">>>>
          \o When(env.post_barrier, <<<<"barrier">>>>))
  \o <<<<"next_epoch">>>>

opendir(r) ==
  When(env.bgpause, shuffle_resume)
  \o When(num_epochs[r] # 0,
          When(env.barrier, <<<<"barrier">>>>) \o shuffle_epoch_start
          \o <<<<"epoch_flush">>>> \o When(env.post_barrier, <<<<"barrier">>>>))
  \o <<<<"next_epoch">>>>

closedir ==
  shuffle_epoch_end
  \o When(env.pre_barrier \/ env.bgpause, <<<<"barrier">>>> \o shuffle_epoch_start)
  \o When(env.bgpause, shuffle_pause)

\* shuffle_epoch_start is left out
FinalizeNoFlush ==
  When(env.bgpause, shuffle_resume)
  \o <<<<"barrier">>, <<"barrier">>, <<"destroy">>, <<"epoch_flush">>>>

MPI_Finalize ==
  When(env.bgpause, shuffle_resume)
  \o <<<<"barrier">>>> \o shuffle_epoch_start
  \o <<<<"barrier">>, <<"destroy">>, <<"epoch_flush">>>>

-----------------------------------------------------------------------------
(* Init: MPI_Init has returned at every rank.                              *)

Init ==
  /\ env \in Envs
  /\ phase = [r \in Rank |-> "idle"]
  /\ prog = [r \in Rank |-> <<>>]
  /\ num_epochs = [r \in Rank |-> 0]
  /\ flushed = [r \in Rank |-> -1]
  /\ entered = [r \in Rank |-> [all |-> 0, node |-> 0]]
  /\ paused = [r \in Rank |-> env.bgpause /\ env.shuffler = "NN"]
  /\ down = [r \in Rank |-> FALSE]
  /\ q = [r \in Rank, x \in Queues |-> {}]
  /\ taken = {}
  /\ pend = [r \in Rank |-> {}]
  /\ writing = [r \in Rank |-> {}]
  /\ wrote = {}
  /\ landed = {}
  /\ aborted = FALSE

-----------------------------------------------------------------------------
(* The application, at rank r.                                             *)

Idle(r) == prog[r] = <<>> /\ ~aborted

Call(r, from, to, steps) ==
  /\ Idle(r) /\ phase[r] = from
  /\ phase' = [phase EXCEPT ![r] = to]
  /\ prog' = [prog EXCEPT ![r] = steps]
  /\ UNCHANGED <<env, num_epochs, flushed, entered, paused, down, pend,
                 shuffleVars>>

Opendir(r)  == num_epochs[r] < Epochs /\ Call(r, "idle", "epoch", opendir(r))
Closedir(r) == Call(r, "epoch", "idle", closedir)
Finalize(r) == num_epochs[r] = Epochs /\ Call(r, "idle", "done", MPI_Finalize)

\* the queue of rank r that takes w on to its owner, and the rank that
\* queue sends to (nexus_next_hop)
Hop(r, w, own) ==
  CASE r = w.dst -> "in"
    [] Node[r] = Node[w.dst] -> IF own THEN "orq" ELSE "rlq"
    [] OTHER -> IF r = Rep[Node[r], Node[w.dst]] THEN "rmq" ELSE "orq"

NextRank(r, x, w) ==
  CASE x = "rmq" -> Rep[Node[w.dst], Node[r]]
    [] x # "rpcq" /\ Node[r] # Node[w.dst] -> Rep[Node[r], Node[w.dst]]
    [] OTHER -> w.dst

\* preload_write: what it stores, and when it finds a bad epoch number
Store(w, epoch) ==
  IF env.checks /\ epoch # num_epochs[w.dst] - 1
  THEN aborted' = TRUE /\ UNCHANGED landed
  ELSE /\ landed' = landed \cup
            {[w |-> w, epoch |-> epoch, after |-> flushed[w.dst]]}
       /\ UNCHANGED aborted

\* fclose: shuffle_write, to the owner itself or into the first queue
Fclose(r, d) ==
  LET w == [src |-> r, dst |-> d, epoch |-> num_epochs[r] - 1]
      x == IF env.shuffler = "XN" THEN Hop(r, w, TRUE) ELSE "rpcq"
  IN  /\ Idle(r) /\ phase[r] = "epoch"
      /\ <<r, d>> \in env.pairs /\ w \notin wrote
      /\ wrote' = wrote \cup {w}
      /\ IF r = d /\ ~env.force_rpc
         THEN Store(w, w.epoch) /\ UNCHANGED q
         ELSE q' = [q EXCEPT ![r, x] = @ \cup {w}] /\ UNCHANGED <<landed, aborted>>
      /\ UNCHANGED <<env, rankVars, taken, writing>>

-----------------------------------------------------------------------------
(* The steps of the calls.                                                 *)

\* rank r takes the first step of prog[r], of kind k, and goes on with rest
Step(r, k) == prog[r] # <<>> /\ Head(prog[r])[1] = k /\ ~aborted
GoOn(r)      == prog' = [prog EXCEPT ![r] = Tail(@)]
Become(r, s) == prog' = [prog EXCEPT ![r] = <<s>> \o Tail(@)]

Everyone(r) == Rank
OnNode(r)   == {s \in Rank : Node[s] = Node[r]}

\* preload_barrier and nexus_local_barrier: arrive, and leave some time after
\* the last one has arrived
EnterBarrier(r) ==
  /\ \/ /\ Step(r, "barrier")
        /\ entered' = [entered EXCEPT ![r].all = @ + 1]
        /\ Become(r, <<"leave">>)
     \/ /\ Step(r, "local")
        /\ entered' = [entered EXCEPT ![r].node = @ + 1]
        /\ Become(r, <<"leave local">>)
  /\ UNCHANGED <<env, phase, num_epochs, flushed, paused, down, pend, shuffleVars>>

LeaveBarrier(r) ==
  /\ \/ /\ Step(r, "leave")
        /\ \A s \in Everyone(r) : entered[s].all >= entered[r].all
     \/ /\ Step(r, "leave local")
        /\ \A s \in OnNode(r) : entered[s].node >= entered[r].node
  /\ GoOn(r)
  /\ UNCHANGED <<env, phase, num_epochs, flushed, entered, paused, down, pend,
                 shuffleVars>>

\* a flush notes what it finds, if anything, and returns when that is gone
FlushBegin(r) ==
  /\ Step(r, "flush")
  /\ LET x == Head(prog[r])[2]
     IN  /\ pend' = [pend EXCEPT ![r] = q[r, x]]
         /\ IF q[r, x] = {} THEN GoOn(r) ELSE Become(r, <<"drain", x>>)
  /\ UNCHANGED <<env, phase, num_epochs, flushed, entered, paused, down, shuffleVars>>

FlushEnd(r) ==
  /\ Step(r, "drain")
  /\ pend[r] \cap q[r, Head(prog[r])[2]] = {}
  /\ pend' = [pend EXCEPT ![r] = {}]
  /\ GoOn(r)
  /\ UNCHANGED <<env, phase, num_epochs, flushed, entered, paused, down, shuffleVars>>

\* deltafs_plfsdir_epoch_flush(num_epochs - 1); deltafs_plfsdir_finish
EpochFlush(r) ==
  /\ Step(r, "epoch_flush")
  /\ flushed' = [flushed EXCEPT ![r] = num_epochs[r] - 1]
  /\ GoOn(r)
  /\ UNCHANGED <<env, phase, num_epochs, entered, paused, down, pend, shuffleVars>>

NextEpoch(r) ==
  /\ Step(r, "next_epoch")
  /\ num_epochs' = [num_epochs EXCEPT ![r] = @ + 1]
  /\ GoOn(r)
  /\ UNCHANGED <<env, phase, flushed, entered, paused, down, pend, shuffleVars>>

PauseOrResume(r) ==
  /\ Step(r, "pause") \/ Step(r, "resume")
  /\ paused' = [paused EXCEPT ![r] = Head(prog[r])[1] = "pause"]
  /\ GoOn(r)
  /\ UNCHANGED <<env, phase, num_epochs, flushed, entered, down, pend, shuffleVars>>

Destroy(r) ==
  /\ Step(r, "destroy")
  /\ down' = [down EXCEPT ![r] = TRUE]
  /\ GoOn(r)
  /\ UNCHANGED <<env, phase, num_epochs, flushed, entered, paused, pend, shuffleVars>>

-----------------------------------------------------------------------------
(* The shufflers' threads.                                                 *)

\* the next hop handles a write that queue x of rank r has sent it: it is
\* put on the queue that takes it further
Arrive(r, x, w) ==
  LET s == NextRank(r, x, w)
      y == IF env.shuffler = "XN" THEN Hop(s, w, FALSE) ELSE "in"
  IN  /\ ~aborted /\ x # "in" /\ w \in q[r, x] /\ <<r, x, w>> \notin taken
      /\ ~down[r] /\ ~down[s]
      /\ taken' = taken \cup {<<r, x, w>>}
      /\ q' = [q EXCEPT ![s, y] = @ \cup {w}]
      /\ UNCHANGED <<env, rankVars, writing, wrote, landed, aborted>>

\* the answer reaches the sender.  NN answers after the write is stored
Reply(r, x, w) ==
  /\ ~aborted /\ <<r, x, w>> \in taken /\ ~down[r]
  /\ env.shuffler = "NN" => w \notin q[w.dst, "in"]
  /\ taken' = taken \ {<<r, x, w>>}
  /\ q' = [q EXCEPT ![r, x] = @ \ {w}]
  /\ UNCHANGED <<env, rankVars, writing, wrote, landed, aborted>>

\* off by one
EpochOfNext(r, w) ==
  IF env.shuffler = "XN" THEN num_epochs[r] ELSE w.epoch

\* preload_write is given no epoch by the delivery thread of XN (-1) and
\* takes the rank's own, before it has the lock; NN passes the message's
EpochOf(r, w) ==
  IF env.shuffler = "XN" THEN num_epochs[r] - 1 ELSE w.epoch

Deliver(r, w) ==
  /\ ~aborted /\ w \in q[r, "in"] /\ writing[r] = {} /\ ~down[r]
  /\ writing' = [writing EXCEPT ![r] = {[w |-> w, epoch |-> EpochOf(r, w)]}]
  /\ UNCHANGED <<env, rankVars, q, taken, wrote, landed, aborted>>

Delivered(r) ==
  /\ ~aborted
  /\ \E d \in writing[r] :
       /\ Store(d.w, d.epoch)
       /\ q' = [q EXCEPT ![r, "in"] = @ \ {d.w}]
  /\ writing' = [writing EXCEPT ![r] = {}]
  /\ UNCHANGED <<env, rankVars, taken, wrote>>

-----------------------------------------------------------------------------
Main(r) ==
  \/ Opendir(r) \/ Closedir(r) \/ Finalize(r)
  \/ EnterBarrier(r) \/ LeaveBarrier(r)
  \/ FlushBegin(r) \/ FlushEnd(r)
  \/ EpochFlush(r) \/ NextEpoch(r) \/ PauseOrResume(r) \/ Destroy(r)

Threads(r) ==
  \/ \E x \in Queues, w \in wrote : Arrive(r, x, w) \/ Reply(r, x, w)
  \/ \E w \in wrote : Deliver(r, w)
  \/ Delivered(r)

Ended == (aborted \/ \A r \in Rank : phase[r] = "done" /\ Idle(r)) /\ UNCHANGED vars

Next ==
  \/ \E r \in Rank : Main(r) \/ Threads(r)
  \/ \E r, d \in Rank : Fclose(r, d)
  \/ Ended

Spec == Init /\ [][Next]_vars

-----------------------------------------------------------------------------

Synchronized == env.barrier \/ env.pre_barrier \/ env.bgpause

Stored(w) == \E l \in landed : l.w = w

\* "this ensures we have received all peer writes and no more writes will
\* happen for the previous epoch" (opendir): when a rank flushes an epoch of
\* its directory, every write that any rank made for it in that epoch, or in
\* an earlier one, has been stored, whichever hops it took.
EpochComplete ==
  Synchronized =>
    \A w \in wrote : w.epoch <= flushed[w.dst] => Stored(w)

\* "this ensures all writes made for the next epoch will go to a new write
\* buffer" (opendir, paranoid_post_barrier): a write is stored only after its
\* owner has flushed the epoch before the write's.
NewBuffer ==
  env.post_barrier => \A l \in landed : l.after >= l.w.epoch - 1

\* XN stores a write in the epoch its owner is in when the write arrives.
\* That is never a later epoch than the one it was written in, and is the one
\* before it at worst.
LandsNear ==
  Synchronized =>
    \A l \in landed : l.epoch \in {l.w.epoch - 1, l.w.epoch}

\* MPI_Finalize destroys the shuffler of a rank only when nothing it should
\* still forward, or that is still to come to it, is left anywhere.
NothingStranded ==
  \A r \in Rank : down[r] =>
    /\ \A x \in Queues : \A w \in q[r, x] : <<r, x, w>> \in taken
    /\ \A w \in wrote : w.dst = r => Stored(w)

\* Once every rank has begun its first epoch, preload_write never finds a
\* write of another epoch than its rank is in ('ABORT("bad epoch num")').
NoBadEpoch == aborted => \E r \in Rank : num_epochs[r] = 0

\* Every rank gets through every epoch and MPI_Finalize: until they all have,
\* some rank can go on, or some thread that is not paused can.  (A paused
\* thread may finish what it is at, but nothing may depend on it.)  No step
\* is ever undone, so this is why no flush and no barrier waits for ever for
\* a rank that is paused or gone.
NobodyStuck ==
  \/ aborted
  \/ \A r \in Rank : phase[r] = "done" /\ prog[r] = <<>>
  \/ \E r \in Rank :
       \/ ENABLED Main(r)
       \/ ~paused[r] /\ ENABLED (Delivered(r) \/ \E w \in wrote : Deliver(r, w))
       \/ \E x \in Queues, w \in wrote :
            \/ ~paused[r] /\ ENABLED Reply(r, x, w)
            \/ ~paused[NextRank(r, x, w)] /\ ENABLED Arrive(r, x, w)

=============================================================================
