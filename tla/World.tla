-------------------------------- MODULE World --------------------------------
(***************************************************************************)
(* A whole run over all ranks, from MPI_Init to MPI_Finalize: the          *)
(* collective operations each rank calls and on which communicator, the    *)
(* statistics it keeps per epoch, and how rank 0 merges them in the end.   *)
(*                                                                         *)
(* A rank is the sequence of the steps it still has to take, prog[r]; the  *)
(* library's calls are operators that give their steps, decided by the     *)
(* settings, by the rank, and by what happened so far.  Consecutive        *)
(* reductions on one communicator under one condition are one step.        *)
(*                                                                         *)
(* The shuffle appears through what Epoch shows of it: a write is under    *)
(* way until its owner has stored it, and after the barrier of opendir or  *)
(* MPI_Finalize a flush returns when those of the epochs before are in.    *)
(***************************************************************************)
EXTENDS Integers, Sequences, FiniteSets, FiniteSetsExt, SequencesExt, Functions

CONSTANTS
  Rank,      \* 0..n-1, the ranks of MPI_COMM_WORLD
  Epochs,    \* bound: epochs the application runs
  Envs       \* the settings, the writes made in every epoch, and what fails

VARIABLES
  env,         \* the one of this behaviour; it never changes
  prog,        \* steps left of the call a rank is in
  phase,       \* "start", "idle", "epoch", "done"
  calls,       \* collectives a rank has called on a communicator, in order
  made,        \* the directory exists
  num_epochs,
  mctx,        \* nw: writes made at the rank; ns: nlw + nfw, stored at it
  monfd,       \* the records in the rank's file
  hgpro,       \* its looper has called nn_progress_rusage
  off,         \* nn_shuffler_destroy is done
  flying,      \* writes under way
  ok, votes,   \* mon merge: own state, and what it gave to MPI_Allreduce
  merged,      \* what rank 0 has written to the merged file
  aborted,
  wrote, early \* history: writes made; stored before their owner's opendir

statVars == <<num_epochs, mctx, monfd, flying, wrote, early>>
mergeVars == <<ok, votes, merged>>
vars == <<env, prog, phase, calls, made, hgpro, off, statVars, mergeVars, aborted>>

Everyone == env.receivers = Rank
Receiver(r) == r \in env.receivers

-----------------------------------------------------------------------------
(* The calls, as the steps they take at rank r.                            *)

When(b, steps) == IF b THEN steps ELSE <<>>

Barrier == <<<<"sync", "world", "barrier">>>>
Reduce(comm, what) == <<<<"reduce", comm, what>>>>

\* pctx.recv_comm: MPI_COMM_WORLD unless shuffle_is_everyone_receiver
RecvComm == IF Everyone THEN "world" ELSE "recv"

shuffle_is_on == env.shuffler # "none"

MPI_Init(r) ==
  When(env.mounted,
    When(shuffle_is_on,
         Barrier \o When(~Everyone, <<<<"sync", "world", "split">>>>))
    \o When(~env.bypass_write,
            When(r = 0, <<<<"mkdir">>>>)
            \o Barrier
            \o When(Receiver(r), <<<<"open">>>>)))

opendir(r) ==
  When(num_epochs[r] # 0,
       When(env.barrier, Barrier) \o <<<<"flush", env.barrier>>, <<"dump_mon">>>>
       \o When(env.post_barrier, Barrier))
  \o <<<<"next_epoch">>>>

closedir(r) == When(env.pre_barrier, Barrier \o <<<<"flush", TRUE>>>>)

\* Fault: sender-only ranks take part in the receivers' statistics.
RusageAll(r) ==
  LET tags(comm) == Reduce(comm, "rusage")
                    \o When(hgpro[r], Reduce(comm, "hg_rusage"))
  IN  tags("world") \o When(~Everyone, tags("recv"))
      \o When(Receiver(r), Reduce(RecvComm, "hg_intvl, iq_dep, totals"))

\* the statistics of shuffle_finalize for NN.  A rank has a tag for the
\* usage of HG_Progress when it has called it once with hg_rusage set.
Rusage(r) ==
  LET tags(comm) == Reduce(comm, "rusage")
                    \o When(hgpro[r], Reduce(comm, "hg_rusage"))
  IN  tags("world") \o When(~Everyone /\ Receiver(r), tags("recv"))
      \o When(Receiver(r), Reduce(RecvComm, "hg_intvl, iq_dep, totals"))

shuffle_finalize ==
  IF env.shuffler = "XN" THEN Reduce("world", "rpcs") ELSE <<<<"destroy">>>>

conclude_sampling(r) ==
  When(env.sampling /\ Receiver(r),
       Reduce(RecvComm, "samples")
       \o When(~env.nodist, Reduce(RecvComm, "names")))

\* the last part of MPI_Finalize, mounted or not
FinalStats(r) ==
  Reduce("world", "extra stats")
  \o When(env.mounted /\ ~Everyone /\ Receiver(r), <<<<"sync", "recv", "free">>>>)
  \o <<<<"sync", "world", "finalize">>>>

MPI_Finalize(r) ==
  When(env.mounted,
    When(shuffle_is_on, Barrier \o <<<<"flush", TRUE>>>> \o Barrier \o shuffle_finalize)
    \o When(num_epochs[r] # 0, <<<<"dump_mon">>>>)
    \o conclude_sampling(r)
    \o When(env.mon /\ ~env.nodist, <<<<"merge_begin">>>>))
  \o FinalStats(r)

-----------------------------------------------------------------------------
NoCalls == [world |-> <<>>, recv |-> <<>>]

Init ==
  /\ env \in Envs
  /\ prog = [r \in Rank |-> <<>>]
  /\ phase = [r \in Rank |-> "start"]
  /\ calls = [r \in Rank |-> NoCalls]
  /\ made = FALSE
  /\ num_epochs = [r \in Rank |-> 0]
  /\ mctx = [r \in Rank |-> [nw |-> 0, ns |-> 0]]
  /\ monfd = [r \in Rank |-> <<>>]
  /\ hgpro = [r \in Rank |-> FALSE]
  /\ off = {}
  /\ flying = {}
  /\ ok = [r \in Rank |-> TRUE] /\ votes = [r \in Rank |-> <<>>]
  /\ merged = <<>>
  /\ aborted = FALSE
  /\ wrote = {} /\ early = {}

Call(r, from, to, steps) ==
  /\ prog[r] = <<>> /\ phase[r] = from /\ ~aborted
  /\ phase' = [phase EXCEPT ![r] = to]
  /\ prog' = [prog EXCEPT ![r] = steps]
  /\ UNCHANGED <<env, calls, made, hgpro, off, statVars, mergeVars, aborted>>

\* the application, which does the same at every rank
CallInit(r) == Call(r, "start", "idle", MPI_Init(r))
Opendir(r)  == /\ env.mounted /\ num_epochs[r] < Epochs
               /\ Call(r, "idle", "epoch", opendir(r))
Closedir(r) == Call(r, "epoch", "idle", closedir(r))
Finalize(r) == /\ env.mounted => num_epochs[r] = Epochs
               /\ Call(r, "idle", "done", MPI_Finalize(r))

Step(r, k) == prog[r] # <<>> /\ Head(prog[r])[1] = k /\ ~aborted
GoOn(r)        == prog' = [prog EXCEPT ![r] = Tail(@)]
Insert(r, new) == prog' = [prog EXCEPT ![r] = new \o Tail(@)]

-----------------------------------------------------------------------------
(* MPI.                                                                    *)

Members(comm) == IF comm = "world" THEN Rank ELSE env.receivers

Enter(r) ==
  LET s == Head(prog[r])
  IN  /\ Step(r, "sync") \/ Step(r, "reduce")
      /\ calls' = [calls EXCEPT ![r][s[2]] = Append(@, s[3])]
      /\ IF s[1] = "reduce" /\ r # 0 THEN GoOn(r)
         ELSE Insert(r, <<<<"leave", s[2], Len(calls[r][s[2]]) + 1>>>>)
      /\ UNCHANGED <<env, phase, made, hgpro, off, statVars, mergeVars, aborted>>

\* everyone leaves MPI_Barrier, MPI_Allreduce, MPI_Comm_split and so on, and
\* rank 0 leaves MPI_Reduce, when all members have called it
Leave(r) ==
  LET s == Head(prog[r])
  IN  /\ Step(r, "leave")
      /\ \A m \in Members(s[2]) : Len(calls[m][s[2]]) >= s[3]
      /\ GoOn(r)
      /\ UNCHANGED <<env, phase, calls, made, hgpro, off, statVars, mergeVars, aborted>>

-----------------------------------------------------------------------------
(* Directory, epochs and writes.                                           *)

\* deltafs_mkdir at rank 0; deltafs_plfsdir_open, which fails without it
MkOrOpen(r) ==
  /\ \/ Step(r, "mkdir") /\ made' = TRUE /\ UNCHANGED aborted
     \/ Step(r, "open") /\ aborted' = ~made /\ UNCHANGED made
  /\ GoOn(r)
  /\ UNCHANGED <<env, phase, calls, hgpro, off, statVars, mergeVars>>

\* shuffle_epoch_start, shuffle_epoch_pre_start.  Without the barrier before
\* it there may be writes of the epoch that are not on their way yet, or not
\* as far as this rank.
EpochFlush(r) ==
  /\ Step(r, "flush")
  /\ Head(prog[r])[2] => \A w \in flying : w.dst = r => w.epoch > num_epochs[r]
  /\ GoOn(r)
  /\ UNCHANGED <<env, phase, calls, made, hgpro, off, statVars, mergeVars, aborted>>

\* dump_mon.  The result of write is not looked at: a record that could not
\* be written is missing.
dump_mon(r) ==
  /\ Step(r, "dump_mon")
  /\ monfd' = IF env.mon /\ <<r, num_epochs[r]>> \notin env.fails
              THEN [monfd EXCEPT ![r] = Append(@, mctx[r])] ELSE monfd
  /\ GoOn(r)
  /\ UNCHANGED <<env, phase, calls, made, hgpro, off, num_epochs, mctx, flying,
                 wrote, early, mergeVars, aborted>>


\* num_epochs++ and mon_reinit
NextEpoch(r) ==
  /\ Step(r, "next_epoch")
  /\ num_epochs' = [num_epochs EXCEPT ![r] = @ + 1]
  /\ mctx' = IF env.mon THEN [mctx EXCEPT ![r] = [nw |-> 0, ns |-> 0]] ELSE mctx
  /\ GoOn(r)
  /\ UNCHANGED <<env, phase, calls, made, hgpro, off, monfd, flying, wrote,
                 early, mergeVars, aborted>>

\* shuffle_write: counted here; stored at once or sent to its owner
Fclose(r, d) ==
  LET w == [src |-> r, dst |-> d, epoch |-> num_epochs[r]]
  IN  /\ phase[r] = "epoch" /\ prog[r] = <<>> /\ ~aborted
      /\ <<r, d>> \in env.pairs /\ w \notin wrote
      /\ wrote' = wrote \cup {w}
      /\ mctx' = [mctx EXCEPT ![r].nw = @ + 1,
                              ![r].ns = IF r = d THEN @ + 1 ELSE @]
      /\ flying' = IF r = d THEN flying ELSE flying \cup {w}
      /\ UNCHANGED <<env, prog, phase, calls, made, hgpro, off, num_epochs,
                     monfd, early, mergeVars, aborted>>

\* shuffle_handle and preload_write at the owner.  NN messages carry their
\* epoch, which is checked.
Arrive(w) ==
  LET soon == num_epochs[w.dst] # w.epoch
  IN  /\ w \in flying /\ ~aborted
      /\ flying' = flying \ {w}
      /\ mctx' = [mctx EXCEPT ![w.dst].ns = @ + 1]
      /\ early' = IF soon THEN early \cup {w} ELSE early
      /\ aborted' = (soon /\ env.checks /\ env.shuffler = "NN")
      /\ UNCHANGED <<env, prog, phase, calls, made, hgpro, off, num_epochs,
                     monfd, wrote, mergeVars>>

\* the looper's first HG_Progress with hg_rusage set
Progress(r) ==
  /\ env.mounted /\ env.shuffler = "NN" /\ env.hg_rusage /\ ~hgpro[r]
  /\ phase[r] # "start" /\ r \notin off /\ ~aborted
  /\ hgpro' = [hgpro EXCEPT ![r] = TRUE]
  /\ UNCHANGED <<env, prog, phase, calls, made, off, statVars, mergeVars, aborted>>

Destroy(r) ==
  /\ Step(r, "destroy")
  /\ off' = off \cup {r}
  /\ Insert(r, Rusage(r))
  /\ UNCHANGED <<env, phase, calls, made, hgpro, statVars, mergeVars, aborted>>

-----------------------------------------------------------------------------
(* MPI_Finalize: "close, merge, and dist mon files".                       *)

\* rank 0 may fail to create its files
MergeBegin(r) ==
  /\ Step(r, "merge_begin")
  /\ ok' = [ok EXCEPT ![r] = ~(r = 0 /\ env.noopen)]
  /\ Insert(r, <<<<"merge", 1>>>>)
  /\ UNCHANGED <<env, phase, calls, made, hgpro, off, statVars, votes, merged, aborted>>

\* the head of the loop: read the record of epoch e, or be out of luck
Merge(r) ==
  LET e == Head(prog[r])[2]
  IN  /\ Step(r, "merge")
      /\ IF e > num_epochs[r]
         THEN GoOn(r) /\ UNCHANGED <<ok, votes>>
         ELSE /\ ok' = [ok EXCEPT ![r] = @ /\ e \in DOMAIN monfd[r]]
              /\ votes' = [votes EXCEPT ![r] = Append(@, ok'[r])]
              /\ Insert(r, <<<<"sync", "world", "allreduce">>, <<"decide", e>>>>)
      /\ UNCHANGED <<env, phase, calls, made, hgpro, off, statVars, merged, aborted>>

\* Fault: a rank goes by its own record.
GoAlone(r, e) == votes[r][e]

\* MPI_MIN over what the ranks put in
Go(r, e) == \A m \in Rank : votes[m][e]

Decide(r) ==
  LET e == Head(prog[r])[2]
  IN  /\ Step(r, "decide")
      /\ IF Go(r, e)
         THEN Insert(r, Reduce("world", "min max mon") \o
                        When(r = 0, <<<<"account", e>>>>) \o <<<<"merge", e + 1>>>>)
         ELSE GoOn(r)
      /\ UNCHANGED <<env, phase, calls, made, hgpro, off, statVars, mergeVars, aborted>>

\* mon_reduce, and the checks of rank 0
glob(e) == [nw |-> MapThenSumSet(LAMBDA m : monfd[m][e].nw, Rank),
            ns |-> MapThenSumSet(LAMBDA m : monfd[m][e].ns, Rank)]

\* nms and nmr, the RPCs sent and received, are not kept.  For NN they differ
\* when nw and ns do: an RPC carries writes, and is counted with them.  For XN
\* shuffle_epoch_start takes them, between the two barriers of opendir; if one
\* of these is missing a rank may take them while RPCs are still under way, or
\* when those of the next epoch already are.
RpcsMayDiffer == env.shuffler = "XN" /\ ~(env.barrier /\ env.post_barrier)

\* "lost writes" and "lost rpcs"
Account(r) ==
  LET g == glob(Head(prog[r])[2])
  IN  /\ Step(r, "account")
      /\ \/ /\ env.checks /\ (g.ns # g.nw \/ RpcsMayDiffer)
            /\ aborted' = TRUE /\ UNCHANGED merged
         \/ /\ env.checks => g.ns = g.nw
            /\ merged' = Append(merged, g) /\ UNCHANGED aborted
      /\ GoOn(r)
      /\ UNCHANGED <<env, phase, calls, made, hgpro, off, statVars, ok, votes>>

-----------------------------------------------------------------------------
Main(r) ==
  \/ CallInit(r) \/ Opendir(r) \/ Closedir(r) \/ Finalize(r)
  \/ Enter(r) \/ Leave(r) \/ MkOrOpen(r)
  \/ EpochFlush(r) \/ dump_mon(r) \/ NextEpoch(r) \/ Destroy(r)
  \/ MergeBegin(r) \/ Merge(r) \/ Decide(r) \/ Account(r)

\* hg_rusage was set and the looper of some rank, not of all, was destroyed
\* before it got to its first HG_Progress
Uneven == \E r, s \in off : hgpro[r] # hgpro[s]

Ended ==
  /\ \/ aborted \/ Uneven
     \/ \A r \in Rank : phase[r] = "done" /\ prog[r] = <<>>
  /\ UNCHANGED vars

Next ==
  \/ \E r \in Rank : Main(r) \/ Progress(r)
  \/ \E r, d \in Rank : Fclose(r, d)
  \/ \E w \in flying : Arrive(w)
  \/ Ended

Spec == Init /\ [][Next]_vars

-----------------------------------------------------------------------------

\* Ranks whose settings, roles and luck differ call the same collectives in
\* the same order: on a communicator, what two members have called agrees as
\* far as the shorter list goes, and only members call anything.  Else one of
\* them would hang or reduce apples with oranges.  The statistics of
\* shuffle_finalize need that every looper has run, or hg_rusage unset.
Matched ==
  \A comm \in {"world", "recv"} :
    /\ \A r \in Rank \ Members(comm) : calls[r][comm] = <<>>
    /\ ~Uneven => \A r, s \in Members(comm) :
         \/ IsPrefix(calls[r][comm], calls[s][comm])
         \/ IsPrefix(calls[s][comm], calls[r][comm])

\* The loop that merges the epochs of MPI_Finalize ends for all ranks at the
\* same epoch, the first that any of them cannot give: a rank has asked once
\* for every epoch merged and at most once more, and when rank 0 is done it
\* has merged as many epochs as the shortest of the files holds.
Readable(r) == IF r = 0 /\ env.noopen THEN 0 ELSE Len(monfd[r])
Merging == env.mounted /\ env.mon /\ ~env.nodist
MergedRight ==
  Merging /\ ~aborted /\ ~Uneven =>
    /\ \A r \in Rank : votes[r] # <<>> =>
         Len(votes[r]) <= Min({Readable(m) : m \in Rank}) + 1
    /\ prog[0] = <<>> /\ phase[0] = "done" =>
         /\ Len(merged) = Min({Readable(r) : r \in Rank})
         /\ \A r, s \in Rank : Len(votes[r]) = Len(votes[s])

\* "lost writes": the totals of an epoch agree with the writes made in it,
\* except for the writes that were stored before their owner had begun the
\* epoch, which its mon_reinit forgets; with both barriers these are all that
\* the checks of rank 0 ever find.  (The barrier of opendir keeps late writes out of the next
\* epoch, the post barrier early ones out of the epoch before.)
Of(S, e) == Cardinality({w \in S : w.epoch = e})

=============================================================================
