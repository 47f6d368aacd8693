---------------------------- MODULE MCRenderLoop ----------------------------
(* Two overlapping outputs over three cells and two windows that move.     *)
EXTENDS RenderLoop, TLC

CONSTANTS o1, o2, w1, w2, w3

MCCell == 1..3
MCGeo == (o1 :> {1, 2}) @@ (o2 :> {2, 3})
MCStacking == <<w1, w2>>
OneWindow == <<w1>>
\* One window moves between the outputs, the other lies on both.
MovingAndSpanning == (w1 :> {{1, 2}, {3}}) @@ (w2 :> {{2, 3}})
\* A window that is within one output or spans both.
Moving == (w1 :> {{1, 2}, {3}, {1, 2, 3}})
=============================================================================
