------------------------------- MODULE MCHops -------------------------------
(***************************************************************************)
(* Instances of Hops.                                                      *)
(***************************************************************************)
EXTENDS Hops

\* Two nodes of two ranks; ranks 2 and 3 talk for their nodes.
Pair(from, to, buftarget, early) ==
  [node |-> [s \in 1..4 |-> IF s <= 2 THEN "a" ELSE "b"],
   rep |-> [n \in {"a", "b"} \X {"a", "b"} |-> IF n[1] = "a" THEN 2 ELSE 3],
   from |-> from, to |-> to,
   maxoqrpc |-> 1, buftarget |-> buftarget, deliverq_max |-> 1, early |-> early]

\* Three hops in a row with room for one RPC per queue, so that relayed and
\* own requests wait at rank 2; batches of two; a delivery queue that is full
\* with relayed and own requests; a representative that is shut down too early.
MCNets == {Pair(<<1, 1, 1, 2>>, <<4, 4, 4, 3>>, 1, {}),
           Pair(<<1, 1, 1, 2, 3>>, <<3, 4, 4, 4, 3>>, 2, {}),
           Pair(<<1, 3, 3, 3>>, <<3, 3, 3, 4>>, 1, {}),
           Pair(<<1, 4>>, <<4, 1>>, 1, {3})}

=============================================================================
