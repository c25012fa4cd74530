------------------------------ MODULE Mailbox -------------------------------
(***************************************************************************)
(* What a queue of the shufflers promises its users, whatever threads,     *)
(* locks and limits it is built from: what was accepted is handed on in    *)
(* the order of acceptance, each item once, alone or several at a time,    *)
(* and a flush returns only when everything accepted before it started has *)
(* been handed on.  The delivery queue of the 3-hop shuffler and a peer's  *)
(* queue of the all-to-all shuffler are shown to implement it.             *)
(***************************************************************************)
EXTENDS Naturals, Sequences

CONSTANT Item

VARIABLES
  accepted, handed,   \* the items, in order
  flushing, owed      \* a flush runs, and what it waits for

vars == <<accepted, handed, flushing, owed>>

ItemsOf(s) == {s[i] : i \in DOMAIN s}

Init ==
  /\ accepted = <<>> /\ handed = <<>>
  /\ flushing = FALSE /\ owed = {}

Accept ==
  /\ \E x \in Item \ ItemsOf(accepted) : accepted' = Append(accepted, x)
  /\ UNCHANGED <<handed, flushing, owed>>

Hand ==
  /\ \E n \in Len(handed)+1 .. Len(accepted) : handed' = SubSeq(accepted, 1, n)
  /\ UNCHANGED <<accepted, flushing, owed>>

FlushBegin ==
  /\ ~flushing
  /\ flushing' = TRUE
  /\ owed' = ItemsOf(accepted)
  /\ UNCHANGED <<accepted, handed>>

FlushEnd ==
  /\ flushing
  /\ owed \subseteq ItemsOf(handed)
  /\ flushing' = FALSE
  /\ owed' = {}
  /\ UNCHANGED <<accepted, handed>>

Next == Accept \/ Hand \/ FlushBegin \/ FlushEnd

Spec == Init /\ [][Next]_vars
=============================================================================
