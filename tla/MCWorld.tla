------------------------------- MODULE MCWorld -------------------------------
(***************************************************************************)
(* Instances of World: three ranks, the last of which may be sender-only.  *)
(***************************************************************************)
EXTENDS World

Default ==
  [shuffler |-> "XN", receivers |-> Rank, mounted |-> TRUE,
   barrier |-> TRUE, post_barrier |-> TRUE, pre_barrier |-> FALSE,
   checks |-> FALSE, hg_rusage |-> FALSE, sampling |-> FALSE,
   mon |-> TRUE, nodist |-> FALSE, bypass_write |-> FALSE,
   noopen |-> FALSE, fails |-> {}, pairs |-> {<<1, 0>>, <<2, 2>>}]

Some == Rank \ {2}

MCEnvs ==
  {Default,
   [Default EXCEPT !.checks = TRUE, !.pre_barrier = TRUE],
   [Default EXCEPT !.post_barrier = FALSE, !.pairs = {<<2, 1>>}],
   [Default EXCEPT !.fails = {<<1, 1>>}],
   [Default EXCEPT !.fails = {<<2, 2>>}, !.noopen = TRUE],
   [Default EXCEPT !.shuffler = "NN", !.receivers = Some, !.sampling = TRUE,
                   !.pairs = {<<2, 1>>}, !.checks = TRUE],
   [Default EXCEPT !.shuffler = "NN", !.receivers = Some, !.hg_rusage = TRUE,
                   !.pairs = {}, !.nodist = TRUE, !.sampling = TRUE],
   [Default EXCEPT !.shuffler = "none", !.pairs = {<<2, 2>>}, !.mon = FALSE,
                   !.bypass_write = TRUE],
   [Default EXCEPT !.barrier = FALSE, !.pairs = {<<2, 1>>}, !.checks = TRUE],
   [Default EXCEPT !.mounted = FALSE]}

=============================================================================
