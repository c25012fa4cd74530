------------------------------ MODULE MCNNSend ------------------------------
(***************************************************************************)
(* An instance of NNSend whose flush order is not that of the ranks.       *)
(***************************************************************************)
EXTENDS NNSend

CONSTANTS p1, p2

MCOrder == <<p2, p1>>
=============================================================================
