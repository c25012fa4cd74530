------------------------------- MODULE MCFiles -------------------------------
(***************************************************************************)
(* Files for TLC.  The sizes are scaled down: a message has at most 7      *)
(* bytes, a fake_file 3, and the smallest NN buffer is below a message, as *)
(* 128 is below 255.  The environments are changes of one that works.      *)
(***************************************************************************)
EXTENDS Files

Short == {<<1>>, <<2>>}
MCNames == Short \cup {<<1, 1>>}
MCDirs == {<<"p">>, <<"p", "q">>, <<"/", "p", "q">>, <<"ign", "p">>, <<"o">>}
MCChunks == {<<1, 2>>}
ThreadSymmetry == Permutations(Threads)

Limits == [lsenderlimit |-> 0, rsenderlimit |-> 0, lomaxrpc |-> 1,
           lrmaxrpc |-> 1, rmaxrpc |-> 1, buftarget |-> 1,
           dq_min |-> 0, dq_max |-> 2]
Base ==
  [mntp |-> <<"p">>, plfsdir |-> <<>>, ignore |-> {<<"ign">>},
   log_home |-> <<"/", "tmp">>, local_root |-> <<"/", "tmp">>, buf_size |-> 1,
   id |-> 1, size |-> 2, extra |-> 0, sideio |-> FALSE, bypass |-> {"namespace"},
   checks |-> TRUE, sampling |-> FALSE, force_rpc |-> FALSE, shuffler |-> "XN",
   radix |-> 0, world |-> 2, rank |-> 0,
   hash |-> [n \in MCNames |-> n[1] - 1],
   rpcq |-> 9, cb |-> 1, xn |-> Limits,
   ppn |-> 1, min_port |-> 1, max_port |-> 3, others |-> {}, ephemeral |-> {3, 4},
   tidy |-> TRUE, app_bytes |-> 2, files |-> MaxFiles]

\* two threads, both shufflers, with and without RPCs to the own rank
Working ==
  {[Base EXCEPT !.shuffler = s, !.force_rpc = f] : s \in {"XN", "NN"}, f \in BOOLEAN}

One == [Base EXCEPT !.files = 1, !.force_rpc = TRUE]
Two == [Base EXCEPT !.files = 2]

\* sizes around the limits of a message, a fake_file and an NN buffer
Sizes ==
  {[One EXCEPT !.shuffler = s, !.id = i, !.size = n, !.extra = x, !.rpcq = b,
               !.app_bytes = n, !.checks = c] :
     s \in {"XN", "NN"}, i \in {1, 2, 8}, n \in {-1, 0, 2, 3, 4}, x \in {-1, 1, 2, 3},
     b \in {1, 13}, c \in BOOLEAN}

\* who receives, and what backs the data
Modes ==
  {[One EXCEPT !.force_rpc = FALSE, !.bypass = b, !.sideio = o,
               !.size = n, !.app_bytes = n,
               !.radix = d, !.rank = r, !.checks = c] :
     b \in {{}, {"write"}, {"namespace"}, {"deltafs"}, {"plfsdir"},
            {"shuffle", "namespace"}, {"shuffle", "deltafs"}},
     o \in BOOLEAN, n \in {2, 3}, d \in {0, 1}, r \in {0, 1}, c \in BOOLEAN}
  \cup {[One EXCEPT !.shuffler = s, !.radix = d, !.world = 3, !.rank = r,
                    !.hash = [n \in MCNames |-> h]] :
          s \in {"XN", "NN"}, d \in {0, 1, 9}, r \in 0..2, h \in 0..2}

\* the mount point and the directories
Mounts ==
  {[One EXCEPT !.mntp = m, !.plfsdir = d] :
     m \in {<<>>, <<"p">>, <<"/", "p">>, <<"p", "/">>},
     d \in {<<>>, <<"p", "q">>, <<"/", "p">>, <<"/", "p", "q">>, <<"o">>}}
  \cup {[One EXCEPT !.ignore = {<<"/">>}], [One EXCEPT !.log_home = <<"/">>],
        [One EXCEPT !.local_root = <<"p">>], [One EXCEPT !.buf_size = 0],
        [One EXCEPT !.id = 0], [One EXCEPT !.world = 1, !.force_rpc = FALSE]}

\* an application that writes what it likes
Untidy ==
  {[Two EXCEPT !.tidy = FALSE, !.checks = c, !.app_bytes = 3, !.sampling = TRUE,
               !.shuffler = s] : c \in BOOLEAN, s \in {"XN", "NN"}}
  \cup {[Two EXCEPT !.bypass = {"shuffle", "deltafs"}, !.sampling = TRUE]}

\* ports: more ranks than ports, ports of other processes, ports the kernel
\* gives from inside the range
Ports ==
  {[One EXCEPT !.ppn = 3, !.min_port = lo, !.max_port = hi, !.others = o,
               !.ephemeral = e, !.files = 0] :
     lo \in {0, 1}, hi \in {0, 2, 3, 4, 6}, o \in SUBSET {1, 3},
     e \in {{2, 5}, {5}}}

\* limits of the queues
Queues ==
  {[One EXCEPT !.files = 0, !.cb = b, !.shuffler = s,
               !.xn = [lsenderlimit |-> l, rsenderlimit |-> l, lomaxrpc |-> m,
                       lrmaxrpc |-> y, rmaxrpc |-> m, buftarget |-> l,
                       dq_min |-> lo, dq_max |-> hi]] :
     b \in {-1, 3}, s \in {"XN", "NN"}, l \in {-1, 1}, m \in {-1, 2},
     y \in {-1, 0, 1}, lo \in {-1, 1, 2}, hi \in {-1, 1, 2}}

MCEnvs == Working \cup Sizes \cup Modes \cup Mounts \cup Untidy \cup Ports \cup Queues
=============================================================================
