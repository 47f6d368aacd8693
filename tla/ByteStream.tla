----------------------------- MODULE ByteStream -----------------------------
(***************************************************************************)
(* What a selection transfer promises to the client that pastes: it gets   *)
(* the data of the other client piece by piece, in order and unchanged,    *)
(* and is told that this was all only when it has everything.  A transfer  *)
(* that fails simply stops.                                                *)
(***************************************************************************)
EXTENDS Naturals, Sequences

VARIABLES
  input,     \* the data of the client that was copied from
  output,    \* what the client that pastes has got
  ended      \* it was told that this is all

vars == <<input, output, ended>>

Init == output = <<>> /\ ended = FALSE

Deliver ==
  /\ ~ended
  /\ \E n \in Len(output)..Len(input) : output' = SubSeq(input, 1, n)
  /\ ended' \in BOOLEAN
  /\ ended' => output' = input
  /\ UNCHANGED input

Spec == Init /\ [][Deliver]_vars
=============================================================================
