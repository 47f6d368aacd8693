---------------------------- MODULE MCXdgWindow ----------------------------
(***************************************************************************)
(* Frames and scenarios for model checking XdgWindow.                      *)
(***************************************************************************)
EXTENDS XdgWindow

Square(at, len) == [a \in Axis |-> [at |-> at, len |-> len]]

MCScreen == Square(0, 4)
MCArea == Square(0, 3)
MCTile == [Square(0, 3) EXCEPT !["h"].len = 1]
MCPlaced == Square(1, 0)
MCPos == {Square(0, 0), Square(1, 0)}

\* What is asked of the window in haste, and one request after the other.
MCScenarios ==
  {{"client_modes", "skip", "client_size", "hasty"},
   {"maximize", "tile", "client_size", "hasty"},
   {"fullscreen", "maximize", "skip", "hasty"},
   {"fullscreen", "tile", "activate", "hasty"},
   {"move", "tile", "maximize", "hasty"},
   {"resize", "maximize", "hasty"},
   {"client_modes", "early"},
   {"client_modes", "repeat"},
   {"fullscreen", "maximize", "activate"},
   {"fullscreen", "client_size", "move"},
   {"maximize", "activate"},
   {"tile", "activate"},
   {"fullscreen", "skip"}}
=============================================================================
