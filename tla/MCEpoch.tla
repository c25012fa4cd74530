------------------------------ MODULE MCEpoch ------------------------------
(***************************************************************************)
(* Instances of Epoch: two nodes, ranks 1 and 2 on node "a", the others on *)
(* node "b".  Ranks 2 and 3 talk to each other for their nodes.            *)
(***************************************************************************)
EXTENDS Epoch

MCNode == [r \in Rank |-> IF r <= 2 THEN "a" ELSE "b"]
MCRep  == [n \in {"a", "b"} \X {"a", "b"} |-> IF n[1] = "a" THEN 2 ELSE 3]

Setting(shuffler, pre_barrier, bgpause, checks, force_rpc, pairs) ==
  [shuffler |-> shuffler, barrier |-> TRUE, post_barrier |-> TRUE,
   pre_barrier |-> pre_barrier, bgpause |-> bgpause, checks |-> checks,
   force_rpc |-> force_rpc, pairs |-> pairs]

\* XN without the barrier of closedir, so that the one in opendir matters,
\* with a write that takes three hops or one that a rank owns itself; NN with everything, and pausing in between
MCEnvs == {Setting("XN", FALSE, FALSE, FALSE, FALSE, {<<1, 4>>}),
           Setting("XN", FALSE, FALSE, FALSE, FALSE, {<<4, 4>>}),
           Setting("NN", TRUE, TRUE, FALSE, FALSE, {<<1, 4>>, <<4, 4>>}),
           Setting("NN", TRUE, TRUE, FALSE, TRUE, {<<1, 4>>, <<4, 4>>})}

\* the default settings, which include the check of epochs
CheckedEnvs == {Setting("NN", TRUE, FALSE, TRUE, FALSE, {<<1, 2>>})}
=============================================================================
