--------------------------- MODULE GeometryModes ---------------------------
(***************************************************************************)
(* What a window's geometry is to be: maximising, quick tiling, full       *)
(* screen and interactive moves and resizes, and the restore geometry they *)
(* share.  The handlers hold a geometry_updates_blocker while they run, so *)
(* each is a function from the window w before to the window after, in     *)
(* which setFrameGeometry only stores the frame; what the released blocker *)
(* does with it is up to the module that extends this one.                 *)
(*                                                                         *)
(* A frame has an extent on each axis, and a length of 0 stands for an     *)
(* invalid size.  There is one screen, no rules and no server-side         *)
(* decoration.                                                             *)
(***************************************************************************)
EXTENDS Integers

CONSTANTS
  Screen,     \* the frame of the full screen area
  Area,       \* the frame of the maximise area
  Tile,       \* the frame of a window tiled to the left
  Placed      \* a frame whose position Placement chooses

Axis == {"h", "v"}
Frame == [Axis -> [at : Int, len : Nat]]
Null == [a \in Axis |-> [at |-> 0, len |-> 0]]
Valid(f) == \A a \in Axis : f[a].len > 0

ASSUME AreaAssumption ==
  /\ {Screen, Area, Tile, Placed} \subseteq Frame
  /\ Valid(Screen) /\ Valid(Area) /\ Valid(Tile)

\* Frame f at the position of frame g, and with the size of frame g.
MovedTo(f, g) == [a \in Axis |-> [at |-> g[a].at, len |-> f[a].len]]
SizedAs(f, g) == [a \in Axis |-> [at |-> f[a].at, len |-> g[a].len]]
SameSize(f, g) == \A a \in Axis : f[a].len = g[a].len
SamePos(f, g) == \A a \in Axis : f[a].at = g[a].at
Unsized(f) == [a \in Axis |-> [at |-> f[a].at, len |-> 0]]

\* setFrameGeometry with updates blocked.
SetFrame(w, f) == [w EXCEPT !.frame = f, !.pending = TRUE]

IsMove(w) == w.contact = "center"
IsResize(w) == w.contact \notin {"none", "center"}

-----------------------------------------------------------------------------
(* Maximising.                                                             *)

SetRestoreGeometry(w, f) ==
  IF w.fullscreen \/ w.quicktiling # "none" \/ IsMove(w)
  THEN w
  ELSE [w EXCEPT !.restore = f]

\* update_frame_from_restore_geometry: without a valid geometry the window is
\* placed and its client decides on the size.
Rectified(f) == IF Valid(f) THEN f ELSE Unsized(Placed)

MaximizeRestore(w) ==
  LET final == [a \in Axis |-> IF a \in w.max_mode THEN w.restore[a]
                                                   ELSE w.frame[a]]
  IN SetRestoreGeometry([SetFrame(w, Rectified(final)) EXCEPT !.max_mode = {}],
                        Null)

\* maximize_vertically, maximize_horizontally and the end of
\* update_maximized_impl.
Maximize(w, mode) ==
  LET f == [a \in Axis |-> IF a \in mode THEN Area[a] ELSE w.frame[a]]
  IN SetRestoreGeometry([SetFrame(w, f) EXCEPT !.max_mode = mode], w.frame)

\* update_maximized.  Full screen windows are not resizable.
UpdateMaximized(w, mode) ==
  LET again == [a \in Axis |-> IF a \in mode THEN Area[a] ELSE w.frame[a]]
      from == IF w.max_mode # {} /\ mode # {}
              THEN [MaximizeRestore(w) EXCEPT !.restore = w.restore]
              ELSE w
      to == IF mode = {} THEN MaximizeRestore(from) ELSE Maximize(from, mode)
  IN CASE w.fullscreen -> w
       [] ~w.fullscreen /\ mode = w.max_mode ->
            IF mode = {} THEN w ELSE SetFrame(w, again)
       [] OTHER ->
            [to EXCEPT !.quicktiling = IF mode = Axis THEN "maximize"
                                                      ELSE "none"]

-----------------------------------------------------------------------------
(* Quick tiling.                                                           *)

\* "Store current geometry if not already defined."
RestoreForTile(w) == IF Valid(w.restore) THEN w.restore ELSE w.cur_frame

\* set_quicktile_mode on one screen.  The mode is "left", "maximize" or "none".
\* Whether to maximise or to restore is decided by the mode the client has
\* acknowledged.
SetQuicktileMode(w, mode) ==
  LET restore == RestoreForTile(w)
      free == [w EXCEPT !.restore = restore, !.quicktiling = "none"]
      maxed == [free EXCEPT !.quicktiling = "maximize"]
      tile(v) == [SetFrame(v, Tile) EXCEPT !.quicktiling = mode,
                                           !.restore = restore]
  IN CASE w.fullscreen -> w
       [] ~w.fullscreen /\ mode = "maximize" ->
            IF w.cur_max = Axis
            THEN UpdateMaximized(free, {})
            ELSE [UpdateMaximized(maxed, Axis) EXCEPT !.restore = restore]
       [] ~w.fullscreen /\ mode # "maximize" /\ w.max_mode # {} ->
            IF mode = "none" THEN UpdateMaximized(free, {})
                             ELSE tile(UpdateMaximized(free, {}))
       [] OTHER ->
            IF mode \in {"none", w.quicktiling}
            THEN [SetFrame(free, restore) EXCEPT !.restore = Null]
            ELSE tile(free)

-----------------------------------------------------------------------------
(* Interactive moves and resizes, full screen.                             *)

\* A partly maximised window that was resized along the axis is restored.
ModeAfterResize(w) ==
  IF \E a \in Axis : /\ w.max_mode = {a}
                     /\ w.mov_geo[a].len # w.mov_init[a].len
  THEN {} ELSE w.max_mode

\* finish_move_resize; edge is the tile mode of the screen edge the pointer is
\* at, or "none".
FinishMoveResize(w, cancel, edge) ==
  LET left == [w EXCEPT !.contact = "none"]
      moved == IF cancel THEN SetFrame(left, w.mov_init)
               ELSE SetFrame(IF IsResize(w)
                             THEN UpdateMaximized(left, ModeAfterResize(w))
                             ELSE left, w.mov_geo)
      tiled == IF edge = "none" THEN moved ELSE SetQuicktileMode(moved, edge)
  IN [tiled EXCEPT !.restore =
        IF tiled.max_mode = {} /\ tiled.quicktiling = "none" /\ ~tiled.fullscreen
        THEN Null ELSE @]

EndMoveResize(w) ==
  IF w.contact = "none" THEN w ELSE FinishMoveResize(w, FALSE, "none")

\* Mutant: the geometry to restore is taken after the frame was set.
UpdateFullscreenTooLate(w) ==
  [SetFrame(w, Screen) EXCEPT !.restore = IF Valid(@) THEN @ ELSE Screen]

UpdateFullscreenEnable(w) ==
  SetFrame([w EXCEPT !.restore = IF Valid(@) THEN @ ELSE w.frame], Screen)

\* fullscreen_restore_geometry, where the client decides on a missing size.
FullscreenRestoreGeometry(w) == [SetFrame(w, Rectified(w.restore))
                                   EXCEPT !.restore = Null]

\* update_fullscreen_disable with fullscreen_restore_special_mode.
UpdateFullscreenDisable(w) ==
  CASE w.max_mode # {} -> UpdateMaximized(w, w.max_mode)
    [] w.max_mode = {} /\ w.quicktiling # "none" ->
         [SetQuicktileMode(SetQuicktileMode(w, "none"), w.quicktiling)
            EXCEPT !.restore = w.restore]
    [] OTHER -> FullscreenRestoreGeometry(w)

UpdateFullscreen(w, full) ==
  LET ended == EndMoveResize([w EXCEPT !.fullscreen = full])
  IN IF w.fullscreen = full THEN w
     ELSE IF full THEN UpdateFullscreenEnable(ended)
                  ELSE UpdateFullscreenDisable(ended)
=============================================================================
