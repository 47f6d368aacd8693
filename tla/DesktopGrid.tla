---------------------------- MODULE DesktopGrid ----------------------------
(***************************************************************************)
(* The layout of the virtual desktops, without a root window that gives    *)
(* another one: desktops is m_desktops, rows is m_rows.  The grid is       *)
(* filled row by row; its last row may be shorter than the others.         *)
(***************************************************************************)
EXTENDS Integers, Sequences, FiniteSetsExt

\* updateLayout and the loop of setNETDesktopLayout.
Width(n, rows) == Min({w \in (n \div rows)..n : w * rows >= n})

\* updateLayout: never more rows than desktops.
ValidRows(n, rows) == Min({rows, n})

Cells(desktops, rows) ==
  {c \in (0..(Width(Len(desktops), rows) - 1)) \X (0..(rows - 1)) :
     c[2] * Width(Len(desktops), rows) + c[1] < Len(desktops)}

\* VirtualDesktopGrid::at
At(desktops, rows, c) == desktops[c[2] * Width(Len(desktops), rows) + c[1] + 1]

\* VirtualDesktopGrid::gridCoords
GridCoords(desktops, rows, d) ==
  CHOOSE c \in Cells(desktops, rows) : At(desktops, rows, c) = d

\* The loops of toRight, toLeft, below and above: the next position after i, or
\* before it, at which there is a desktop; at the border of the grid the first
\* one on the other side, or none other without wrapping.
Forth(i, S, wrap) ==
  LET later == {j \in S : j > i}
  IN IF later # {} THEN Min(later) ELSE IF wrap THEN Min(S) ELSE i

\* Mutant: wraps to the same side.
BackToFirst(i, S, wrap) ==
  LET sooner == {j \in S : j < i}
  IN IF sooner # {} THEN Max(sooner) ELSE IF wrap THEN Min(S) ELSE i

Back(i, S, wrap) ==
  LET sooner == {j \in S : j < i}
  IN IF sooner # {} THEN Max(sooner) ELSE IF wrap THEN Max(S) ELSE i

Move(desktops, rows, d, direction, wrap) ==
  LET c == GridCoords(desktops, rows, d)
      row == {b[1] : b \in {b \in Cells(desktops, rows) : b[2] = c[2]}}
      column == {b[2] : b \in {b \in Cells(desktops, rows) : b[1] = c[1]}}
      i == c[2] * Width(Len(desktops), rows) + c[1] + 1
      cell(x, y) == At(desktops, rows, <<x, y>>)
  IN CASE direction = "right" -> cell(Forth(c[1], row, wrap), c[2])
       [] direction = "left" -> cell(Back(c[1], row, wrap), c[2])
       [] direction = "below" -> cell(c[1], Forth(c[2], column, wrap))
       [] direction = "above" -> cell(c[1], Back(c[2], column, wrap))
       [] direction = "next" -> desktops[Forth(i, 1..Len(desktops), wrap)]
       [] direction = "previous" -> desktops[Back(i, 1..Len(desktops), wrap)]

Opposite ==
  [right |-> "left", left |-> "right", below |-> "above", above |-> "below",
   next |-> "previous", previous |-> "next"]
=============================================================================
