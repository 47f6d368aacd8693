---------------------------- MODULE MCWorkspace ----------------------------
EXTENDS Workspace
\* Two windows on two desktops, and one window on the desktops of a layout.
MCScenarios ==
  {[windows |-> 2, desktops |-> 2, desks |-> 2, layout |-> FALSE],
   [windows |-> 1, desktops |-> 3, desks |-> 2, layout |-> TRUE]}

Symmetry == Permutations(Window) \cup Permutations(Desktop)
=============================================================================
