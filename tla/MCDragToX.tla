----------------------------- MODULE MCDragToX -----------------------------
(* A window of a current client, one of an old client and one without XDND. *)
EXTENDS DragToX, TLC
CONSTANTS w1, w2, w3
MCMaxPos == <<3, 1>>
MCVersion == (w1 :> 5) @@ (w2 :> 1) @@ (w3 :> 0)
=============================================================================
