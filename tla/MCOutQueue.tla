----------------------------- MODULE MCOutQueue -----------------------------
(***************************************************************************)
(* Small instances of OutQueue.  A request of Big fills a batch of         *)
(* buftarget 2 on its own, a request of Small half of one.                 *)
(***************************************************************************)
EXTENDS OutQueue, TLC

CONSTANTS Small, Big

MCReqs == Small \cup Big
MCSize == [r \in MCReqs |-> IF r \in Big THEN 2 ELSE 1]
Symmetry == Permutations(Small) \cup Permutations(Big)

=============================================================================
