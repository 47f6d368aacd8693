-------------------------- MODULE XdgWindowProofs --------------------------
(***************************************************************************)
(* An xdg-shell window is well typed, no configure is left behind, what is *)
(* shown once nothing is on its way is what was asked for (modes, position *)
(* and the maximise area), and a window that leaves its special modes gets *)
(* its frame back.  For every geometry of the screen, every mix of events  *)
(* and any number of configure events.                                     *)
(*                                                                         *)
(* The handlers of GeometryModes only manage the window: they leave alone  *)
(* what was sent to the client and what is shown, and a change of a mode   *)
(* makes an update pending.  What is sent, acknowledged and applied is     *)
(* followed by serial numbers (XdgInv); on top of that, where the last     *)
(* configure puts the window (PositionInv) and what the events since then  *)
(* tell the client (AreaInv), and, in behaviours in which every request is *)
(* answered before the next, the frame to restore (CalmInv).               *)
(***************************************************************************)
EXTENDS XdgWindow, FiniteSetTheorems, TLAPS

Win ==
  [frame : Frame, max_mode : SUBSET Axis, fullscreen : BOOLEAN,
   pending : BOOLEAN, block : BOOLEAN, restore : Frame,
   quicktiling : {"none", "left", "maximize"}, contact : Contact,
   mov_init : Frame, mov_geo : Frame, syn_frame : Frame,
   syn_max : SUBSET Axis, syn_full : BOOLEAN,
   configures : Seq(Configure), acked : Nat, cur_frame : Frame,
   cur_max : SUBSET Axis, cur_full : BOOLEAN, must_place : BOOLEAN,
   mapped : BOOLEAN, serial : Nat, sent : Seq(Event)]

\* u has said to the client, and shows of it, what w has.
Keeps(u, w) ==
  /\ u.serial = w.serial /\ u.sent = w.sent /\ u.configures = w.configures
  /\ u.acked = w.acked /\ u.block = w.block
  /\ u.cur_max = w.cur_max /\ u.cur_full = w.cur_full
  /\ u.syn_max = w.syn_max /\ u.syn_full = w.syn_full

\* What u shows is where w shows it.
Stays(u, w) ==
  /\ u.cur_frame = w.cur_frame /\ u.syn_frame = w.syn_frame
  /\ u.mapped = w.mapped /\ u.must_place = w.must_place
  /\ u.contact \in {w.contact, "none"}

\* u is w with another geometry, and perhaps other modes, of which an update is
\* pending.
Managed(u, w) ==
  /\ u \in Win /\ Keeps(u, w) /\ Stays(u, w) /\ u.fullscreen = w.fullscreen
  /\ \/ u.pending = TRUE
     \/ /\ u.pending = w.pending /\ u.max_mode = w.max_mode
        /\ u.frame = w.frame

LEMMA ManagedTwice ==
  ASSUME NEW u, NEW v, NEW w, Managed(u, v), Managed(v, w)
  PROVE  Managed(u, w)
BY DEF Managed, Keeps, Stays

LEMMA ManagedSelf ==
  ASSUME NEW w \in Win
  PROVE  Managed(w, w)
BY DEF Managed, Keeps, Stays

-----------------------------------------------------------------------------
(* Frames and fields.                                                      *)

LEMMA Frames ==
  ASSUME NEW f \in Frame, NEW g \in Frame
  PROVE  /\ MovedTo(f, g) \in Frame /\ SizedAs(f, g) \in Frame
         /\ Unsized(f) \in Frame /\ Null \in Frame
BY DEF Frame, MovedTo, SizedAs, Unsized, Null

LEMMA MixedFrame ==
  ASSUME NEW f \in Frame, NEW g \in Frame, NEW S
  PROVE  [a \in Axis |-> IF a \in S THEN f[a] ELSE g[a]] \in Frame
BY DEF Frame

LEMMA Constants ==
  /\ Screen \in Frame /\ Area \in Frame /\ Tile \in Frame /\ Placed \in Frame
  /\ Unsized(Placed) \in Frame /\ Null \in Frame
<1>1. Screen \in Frame /\ Area \in Frame /\ Tile \in Frame /\ Placed \in Frame
  BY AreaAssumption
<1> QED
  BY <1>1, Frames

LEMMA Rectifies ==
  ASSUME NEW f \in Frame
  PROVE  Rectified(f) \in Frame
BY Constants DEF Rectified

LEMMA Fields ==
  ASSUME NEW w \in Win
  PROVE  /\ w.frame \in Frame /\ w.restore \in Frame /\ w.mov_init \in Frame
         /\ w.mov_geo \in Frame /\ w.syn_frame \in Frame /\ w.cur_frame \in Frame
         /\ w.max_mode \in SUBSET Axis /\ w.syn_max \in SUBSET Axis
         /\ w.cur_max \in SUBSET Axis
         /\ w.quicktiling \in {"none", "left", "maximize"} /\ w.contact \in Contact
         /\ w.configures \in Seq(Configure) /\ w.sent \in Seq(Event)
         /\ w.acked \in Nat /\ w.serial \in Nat
BY DEF Win

LEMMA Flags ==
  ASSUME NEW w \in Win
  PROVE  /\ w.fullscreen \in BOOLEAN /\ w.pending \in BOOLEAN
         /\ w.block \in BOOLEAN /\ w.syn_full \in BOOLEAN
         /\ w.cur_full \in BOOLEAN /\ w.must_place \in BOOLEAN
         /\ w.mapped \in BOOLEAN
BY DEF Win

LEMMA SetFrameIs ==
  ASSUME NEW w \in Win, NEW f \in Frame
  PROVE  /\ Managed(SetFrame(w, f), w) /\ SetFrame(w, f).pending = TRUE
         /\ SetFrame(w, f).max_mode = w.max_mode
BY DEF Win, SetFrame, Managed, Keeps, Stays

\* An update that is pending may change the maximised mode.
LEMMA SetModeIs ==
  ASSUME NEW w \in Win, w.pending = TRUE, NEW m \in SUBSET Axis
  PROVE  /\ Managed([w EXCEPT !.max_mode = m], w)
         /\ [w EXCEPT !.max_mode = m].pending = TRUE
BY DEF Win, Managed, Keeps, Stays

LEMMA SetRestoreIs ==
  ASSUME NEW w \in Win, NEW f \in Frame
  PROVE  /\ Managed([w EXCEPT !.restore = f], w)
         /\ [w EXCEPT !.restore = f].pending = w.pending
         /\ [w EXCEPT !.restore = f].max_mode = w.max_mode
         /\ [w EXCEPT !.restore = f].quicktiling = w.quicktiling
BY DEF Win, Managed, Keeps, Stays

LEMMA SetTilingIs ==
  ASSUME NEW w \in Win, NEW q \in {"none", "left", "maximize"}
  PROVE  /\ Managed([w EXCEPT !.quicktiling = q], w)
         /\ [w EXCEPT !.quicktiling = q].pending = w.pending
         /\ [w EXCEPT !.quicktiling = q].max_mode = w.max_mode
BY DEF Win, Managed, Keeps, Stays

LEMMA SetContactIs ==
  ASSUME NEW w \in Win
  PROVE  Managed([w EXCEPT !.contact = "none"], w)
BY DEF Win, Managed, Keeps, Stays, Contact

-----------------------------------------------------------------------------
(* Maximising and tiling.                                                  *)

LEMMA SetRestoreGeometryIs ==
  ASSUME NEW w \in Win, NEW f \in Frame
  PROVE  /\ Managed(SetRestoreGeometry(w, f), w)
         /\ SetRestoreGeometry(w, f).pending = w.pending
BY SetRestoreIs, ManagedSelf DEF SetRestoreGeometry

LEMMA MaximizeRestoreIs ==
  ASSUME NEW w \in Win
  PROVE  Managed(MaximizeRestore(w), w) /\ MaximizeRestore(w).pending = TRUE
<1> DEFINE final == [a \in Axis |-> IF a \in w.max_mode THEN w.restore[a]
                                                       ELSE w.frame[a]]
           u == SetFrame(w, Rectified(final))
           v == [u EXCEPT !.max_mode = {}]
<1>1. Rectified(final) \in Frame
  BY Fields, MixedFrame, Rectifies, ZenonT(30)
<1> HIDE DEF final
<1>2. Managed(u, w) /\ u.pending = TRUE
  BY <1>1, SetFrameIs
<1>3. MaximizeRestore(w) = SetRestoreGeometry(v, Null)
  BY DEF MaximizeRestore, final
<1> HIDE DEF u
<1>4. Managed(v, u) /\ v.pending = TRUE
  BY <1>2, SetModeIs DEF Managed
<1> HIDE DEF v
<1>5. /\ Managed(SetRestoreGeometry(v, Null), v)
      /\ SetRestoreGeometry(v, Null).pending = TRUE
  BY <1>4, Constants, SetRestoreGeometryIs DEF Managed
<1> QED
  BY <1>2, <1>3, <1>4, <1>5, ManagedTwice

LEMMA MaximizeIs ==
  ASSUME NEW w \in Win, NEW mode \in SUBSET Axis
  PROVE  Managed(Maximize(w, mode), w) /\ Maximize(w, mode).pending = TRUE
<1> DEFINE f == [a \in Axis |-> IF a \in mode THEN Area[a] ELSE w.frame[a]]
           u == SetFrame(w, f)
           v == [u EXCEPT !.max_mode = mode]
<1>1. f \in Frame /\ w.frame \in Frame
  BY Fields, Constants, MixedFrame
<1> HIDE DEF f
<1>2. Managed(u, w) /\ u.pending = TRUE
  BY <1>1, SetFrameIs
<1>3. Maximize(w, mode) = SetRestoreGeometry(v, w.frame)
  BY DEF Maximize, f
<1> HIDE DEF u
<1>4. Managed(v, u) /\ v.pending = TRUE
  BY <1>2, SetModeIs DEF Managed
<1> HIDE DEF v
<1>5. /\ Managed(SetRestoreGeometry(v, w.frame), v)
      /\ SetRestoreGeometry(v, w.frame).pending = TRUE
  BY <1>1, <1>4, SetRestoreGeometryIs DEF Managed
<1> QED
  BY <1>2, <1>3, <1>4, <1>5, ManagedTwice

LEMMA UpdateMaximizedIs ==
  ASSUME NEW w \in Win, NEW mode \in SUBSET Axis
  PROVE  /\ Managed(UpdateMaximized(w, mode), w)
         /\ ~w.fullscreen /\ mode = w.max_mode /\ mode # {}
              => UpdateMaximized(w, mode).pending = TRUE
<1> DEFINE again == [a \in Axis |-> IF a \in mode THEN Area[a] ELSE w.frame[a]]
           from == IF w.max_mode # {} /\ mode # {}
                   THEN [MaximizeRestore(w) EXCEPT !.restore = w.restore] ELSE w
           to == IF mode = {} THEN MaximizeRestore(from) ELSE Maximize(from, mode)
           q == IF mode = Axis THEN "maximize" ELSE "none"
           end == [to EXCEPT !.quicktiling = q]
<1>1. again \in Frame /\ w.restore \in Frame
  BY Fields, Constants, MixedFrame
<1>2. Managed(from, w)
  <2>1. MaximizeRestore(w) \in Win /\ Managed(MaximizeRestore(w), w)
    BY MaximizeRestoreIs DEF Managed
  <2>2. Managed([MaximizeRestore(w) EXCEPT !.restore = w.restore], MaximizeRestore(w))
    BY <1>1, <2>1, SetRestoreIs
  <2>3. Managed([MaximizeRestore(w) EXCEPT !.restore = w.restore], w)
    BY <2>1, <2>2, ManagedTwice
  <2> QED
    BY <2>3, ManagedSelf
<1>3. UpdateMaximized(w, mode) =
        CASE w.fullscreen -> w
          [] ~w.fullscreen /\ mode = w.max_mode ->
               IF mode = {} THEN w ELSE SetFrame(w, again)
          [] OTHER -> end
  BY DEF UpdateMaximized
<1> HIDE DEF from, again
<1>4. Managed(to, w)
  BY <1>2, MaximizeRestoreIs, MaximizeIs, ManagedTwice DEF Managed
<1> HIDE DEF to
<1>5. Managed(end, w)
  <2>1. q \in {"none", "left", "maximize"} /\ to \in Win
    BY <1>4 DEF Managed
  <2> HIDE DEF q
  <2>2. Managed(end, to)
    BY <2>1, SetTilingIs
  <2> HIDE DEF end
  <2> QED
    BY <1>4, <2>2, ManagedTwice
<1> HIDE DEF end, q
<1>6. Managed(SetFrame(w, again), w) /\ SetFrame(w, again).pending = TRUE
  BY <1>1, SetFrameIs
<1>7. CASE w.fullscreen
  BY <1>3, <1>7, ManagedSelf
<1>8. CASE ~w.fullscreen /\ mode = w.max_mode
  BY <1>3, <1>6, <1>8, ManagedSelf
<1>9. CASE ~w.fullscreen /\ mode # w.max_mode
  BY <1>3, <1>5, <1>9
<1> QED
  BY <1>7, <1>8, <1>9

LEMMA SetTiledIs ==
  ASSUME NEW w \in Win, NEW f \in Frame, NEW q \in {"none", "left", "maximize"}
  PROVE  /\ Managed([w EXCEPT !.quicktiling = q, !.restore = f], w)
         /\ [w EXCEPT !.quicktiling = q, !.restore = f].pending = w.pending
         /\ Managed([w EXCEPT !.restore = f, !.quicktiling = q], w)
         /\ [w EXCEPT !.restore = f, !.quicktiling = q].max_mode = w.max_mode
         /\ [w EXCEPT !.restore = f, !.quicktiling = q].fullscreen = w.fullscreen
BY DEF Win, Managed, Keeps, Stays

LEMMA SetQuicktileModeIs ==
  ASSUME NEW w \in Win, NEW mode \in {"none", "left", "maximize"}
  PROVE  /\ Managed(SetQuicktileMode(w, mode), w)
         /\ ~w.fullscreen /\ mode = "none" /\ w.max_mode = {}
              => SetQuicktileMode(w, mode).pending = TRUE
<1> DEFINE restore == RestoreForTile(w)
           free == [w EXCEPT !.restore = restore, !.quicktiling = "none"]
           maxed == [free EXCEPT !.quicktiling = "maximize"]
           tile(v) == [SetFrame(v, Tile) EXCEPT !.quicktiling = mode,
                                                !.restore = restore]
           unmax == UpdateMaximized(free, {})
           max == [UpdateMaximized(maxed, Axis) EXCEPT !.restore = restore]
           back == [SetFrame(free, restore) EXCEPT !.restore = Null]
<1>1. restore \in Frame
  BY Fields DEF RestoreForTile
<1>2. SetQuicktileMode(w, mode) =
        CASE w.fullscreen -> w
          [] ~w.fullscreen /\ mode = "maximize" ->
               IF w.cur_max = Axis THEN unmax ELSE max
          [] ~w.fullscreen /\ mode # "maximize" /\ w.max_mode # {} ->
               IF mode = "none" THEN unmax ELSE tile(unmax)
          [] OTHER ->
               IF mode \in {"none", w.quicktiling} THEN back ELSE tile(free)
  BY SMTT(30) DEF SetQuicktileMode
<1> HIDE DEF restore
<1>3. Managed(free, w) /\ free \in Win
  BY <1>1, SetTiledIs DEF Managed
<1> HIDE DEF free
<1>4. ASSUME NEW v, Managed(v, w) PROVE Managed(tile(v), w)
  <2>1. Managed(SetFrame(v, Tile), v) /\ SetFrame(v, Tile) \in Win
    BY <1>4, Constants, SetFrameIs DEF Managed
  <2>2. Managed(tile(v), SetFrame(v, Tile))
    BY <1>1, <2>1, SetTiledIs
  <2> HIDE DEF tile
  <2> QED
    BY <1>4, <2>1, <2>2, ManagedTwice
<1>5. Managed(unmax, w)
  BY <1>3, UpdateMaximizedIs, ManagedTwice
<1>6. Managed(max, w)
  <2>1. Managed(maxed, w) /\ maxed \in Win
    BY <1>3, SetTilingIs, ManagedTwice DEF Managed
  <2> HIDE DEF maxed
  <2>2. Managed(UpdateMaximized(maxed, Axis), w)
    BY <2>1, UpdateMaximizedIs, ManagedTwice
  <2>3. Managed(max, UpdateMaximized(maxed, Axis))
    BY <1>1, <2>2, SetRestoreIs DEF Managed
  <2> HIDE DEF max
  <2> QED
    BY <2>2, <2>3, ManagedTwice
<1>7. Managed(back, w) /\ back.pending = TRUE
  <2>1. /\ Managed(SetFrame(free, restore), free) /\ SetFrame(free, restore) \in Win
        /\ SetFrame(free, restore).pending = TRUE
    BY <1>1, <1>3, SetFrameIs DEF Managed
  <2>2. Managed(back, SetFrame(free, restore)) /\ back.pending = TRUE
    BY <2>1, Constants, SetRestoreIs
  <2> HIDE DEF back
  <2> QED
    BY <1>3, <2>1, <2>2, ManagedTwice
<1>8. Managed(tile(unmax), w) /\ Managed(tile(free), w)
  BY <1>3, <1>4, <1>5
<1> HIDE DEF unmax, max, back, tile
<1>9. CASE w.fullscreen
  BY <1>2, <1>9, ManagedSelf
<1>10. CASE ~w.fullscreen /\ mode = "maximize"
  BY <1>2, <1>5, <1>6, <1>10
<1>11. CASE ~w.fullscreen /\ mode # "maximize" /\ w.max_mode # {}
  BY <1>2, <1>5, <1>8, <1>11
<1>12. CASE ~w.fullscreen /\ mode # "maximize" /\ w.max_mode = {}
  BY <1>2, <1>7, <1>8, <1>12
<1> QED
  BY <1>9, <1>10, <1>11, <1>12

-----------------------------------------------------------------------------
(* The end of a move or a resize, and full screen.                         *)

LEMMA FinishMoveResizeIs ==
  ASSUME NEW w \in Win, NEW cancel \in BOOLEAN,
         NEW edge \in {"none", "left", "maximize"}
  PROVE  Managed(FinishMoveResize(w, cancel, edge), w)
<1> DEFINE left == [w EXCEPT !.contact = "none"]
           base == IF IsResize(w) THEN UpdateMaximized(left, ModeAfterResize(w))
                   ELSE left
           moved == IF cancel THEN SetFrame(left, w.mov_init)
                    ELSE SetFrame(base, w.mov_geo)
           tiled == IF edge = "none" THEN moved ELSE SetQuicktileMode(moved, edge)
           r == IF /\ tiled.max_mode = {} /\ tiled.quicktiling = "none"
                   /\ ~tiled.fullscreen
                THEN Null ELSE tiled.restore
<1>1. FinishMoveResize(w, cancel, edge) = [tiled EXCEPT !.restore = r]
  BY DEF FinishMoveResize
<1>2. Managed(left, w) /\ left \in Win
  BY SetContactIs DEF Managed
<1> HIDE DEF left
<1>3. Managed(base, w) /\ base \in Win
  <2>1. ModeAfterResize(w) \in SUBSET Axis
    BY Fields DEF ModeAfterResize
  <2>2. Managed(UpdateMaximized(left, ModeAfterResize(w)), w)
    BY <1>2, <2>1, UpdateMaximizedIs, ManagedTwice
  <2> QED
    BY <1>2, <2>2 DEF Managed
<1> HIDE DEF base
<1>4. Managed(moved, w) /\ moved \in Win
  <2>1. Managed(SetFrame(left, w.mov_init), w)
    BY <1>2, Fields, SetFrameIs, ManagedTwice
  <2>2. Managed(SetFrame(base, w.mov_geo), w)
    BY <1>3, Fields, SetFrameIs, ManagedTwice
  <2> QED
    BY <2>1, <2>2 DEF Managed
<1> HIDE DEF moved
<1>5. Managed(tiled, w) /\ tiled \in Win
  <2>1. Managed(SetQuicktileMode(moved, edge), w)
    BY <1>4, SetQuicktileModeIs, ManagedTwice
  <2> QED
    BY <1>4, <2>1 DEF Managed
<1> HIDE DEF tiled
<1>6. r \in Frame
  BY <1>5, Fields, Constants
<1> HIDE DEF r
<1>7. Managed([tiled EXCEPT !.restore = r], tiled)
  BY <1>5, <1>6, SetRestoreIs
<1> QED
  BY <1>1, <1>5, <1>7, ManagedTwice

LEMMA EndMoveResizeIs ==
  ASSUME NEW w \in Win
  PROVE  Managed(EndMoveResize(w), w)
BY FinishMoveResizeIs, ManagedSelf DEF EndMoveResize

LEMMA EnableIs ==
  ASSUME NEW w \in Win
  PROVE  /\ Managed(UpdateFullscreenEnable(w), w)
         /\ UpdateFullscreenEnable(w).pending = TRUE
<1> DEFINE r == IF Valid(w.restore) THEN w.restore ELSE w.frame
           u == [w EXCEPT !.restore = r]
<1>1. UpdateFullscreenEnable(w) = SetFrame(u, Screen)
  BY DEF UpdateFullscreenEnable
<1>2. r \in Frame
  BY Fields
<1> HIDE DEF r
<1>3. Managed(u, w) /\ u \in Win
  BY <1>2, SetRestoreIs DEF Managed
<1> HIDE DEF u
<1>4. Managed(SetFrame(u, Screen), u) /\ SetFrame(u, Screen).pending = TRUE
  BY <1>3, Constants, SetFrameIs
<1> QED
  BY <1>1, <1>3, <1>4, ManagedTwice

LEMMA DisableIs ==
  ASSUME NEW w \in Win, ~w.fullscreen
  PROVE  /\ Managed(UpdateFullscreenDisable(w), w)
         /\ UpdateFullscreenDisable(w).pending = TRUE
<1>1. CASE w.max_mode # {}
  <2>1. UpdateFullscreenDisable(w) = UpdateMaximized(w, w.max_mode)
    BY <1>1 DEF UpdateFullscreenDisable
  <2> QED
    BY <1>1, <2>1, Fields, UpdateMaximizedIs
<1>2. CASE w.max_mode = {} /\ w.quicktiling # "none"
  <2> DEFINE v == SetQuicktileMode(w, "none")
             u == SetQuicktileMode(v, w.quicktiling)
             t == [u EXCEPT !.restore = w.restore]
  <2>1. UpdateFullscreenDisable(w) = t
    BY <1>2 DEF UpdateFullscreenDisable
  <2>2. Managed(v, w) /\ v.pending = TRUE /\ v \in Win
    BY <1>2, SetQuicktileModeIs DEF Managed
  <2> HIDE DEF v
  <2>3. Managed(u, v)
    BY <2>2, Fields, SetQuicktileModeIs
  <2> HIDE DEF u
  <2>4. u.pending = TRUE /\ u \in Win
    BY <2>2, <2>3 DEF Managed
  <2>5. Managed(t, u) /\ t.pending = TRUE
    BY <2>4, Fields, SetRestoreIs
  <2> HIDE DEF t
  <2> QED
    BY <2>1, <2>2, <2>3, <2>5, ManagedTwice
<1>3. CASE w.max_mode = {} /\ w.quicktiling = "none"
  <2> DEFINE v == SetFrame(w, Rectified(w.restore))
             t == [v EXCEPT !.restore = Null]
  <2>1. UpdateFullscreenDisable(w) = t
    BY <1>3 DEF UpdateFullscreenDisable, FullscreenRestoreGeometry
  <2>2. Managed(v, w) /\ v.pending = TRUE /\ v \in Win
    BY Fields, Rectifies, SetFrameIs DEF Managed
  <2> HIDE DEF v
  <2>3. Managed(t, v) /\ t.pending = TRUE
    BY <2>2, Constants, SetRestoreIs
  <2> HIDE DEF t
  <2> QED
    BY <2>1, <2>2, <2>3, ManagedTwice
<1> QED
  BY <1>1, <1>2, <1>3

\* The same, with another full screen mode.
Asked(u, w) ==
  /\ u \in Win /\ Keeps(u, w) /\ Stays(u, w)
  /\ \/ u.pending = TRUE
     \/ /\ u.pending = w.pending /\ u.max_mode = w.max_mode
        /\ u.frame = w.frame /\ u.fullscreen = w.fullscreen

\* The same, wherever it is shown.
Alike(u, w) ==
  /\ u \in Win /\ Keeps(u, w)
  /\ \/ u.pending = TRUE
     \/ /\ u.pending = w.pending /\ u.max_mode = w.max_mode
        /\ u.fullscreen = w.fullscreen

LEMMA ManagedAsked ==
  ASSUME NEW u, NEW w, Managed(u, w)
  PROVE  Asked(u, w) /\ Alike(u, w)
BY DEF Managed, Asked, Alike

LEMMA AskedAlike ==
  ASSUME NEW u, NEW w, Asked(u, w)
  PROVE  Alike(u, w)
BY DEF Asked, Alike

LEMMA UpdateFullscreenIs ==
  ASSUME NEW w \in Win, NEW full \in BOOLEAN
  PROVE  Asked(UpdateFullscreen(w, full), w)
<1> DEFINE v == [w EXCEPT !.fullscreen = full]
           e == EndMoveResize(v)
<1>1. v \in Win /\ Keeps(v, w) /\ Stays(v, w) /\ v.fullscreen = full
  BY DEF Win, Keeps, Stays
<1>2. UpdateFullscreen(w, full) =
        IF w.fullscreen = full THEN w
        ELSE IF full THEN UpdateFullscreenEnable(e) ELSE UpdateFullscreenDisable(e)
  BY DEF UpdateFullscreen
<1> HIDE DEF v
<1>3. Managed(e, v)
  BY <1>1, EndMoveResizeIs
<1> HIDE DEF e
<1>4. e \in Win /\ Keeps(e, w) /\ Stays(e, w) /\ e.fullscreen = full
  BY <1>1, <1>3 DEF Managed, Keeps, Stays
<1>5. ASSUME NEW u, Managed(u, e), u.pending = TRUE PROVE Asked(u, w)
  BY <1>4, <1>5 DEF Managed, Asked, Keeps, Stays
<1>6. CASE w.fullscreen = full
  BY <1>2, <1>6, ManagedSelf, ManagedAsked
<1>7. CASE w.fullscreen # full /\ full
  BY <1>2, <1>4, <1>5, <1>7, EnableIs
<1>8. CASE w.fullscreen # full /\ ~full
  BY <1>2, <1>4, <1>5, <1>8, DisableIs
<1> QED
  BY <1>6, <1>7, <1>8

-----------------------------------------------------------------------------
(* The serial numbers of the events.                                       *)

Serials(q) == {q[i].serial : i \in 1..Len(q)}

Ordered(q) == \A i, j \in 1..Len(q) : i < j => q[i].serial < q[j].serial

\* Events are acknowledged in the order they were sent in, and what waits for a
\* later acknowledgement has been sent.
SerialInv(w) ==
  /\ w.acked <= w.serial
  /\ Ordered(w.sent) /\ Ordered(w.configures)
  /\ \A n \in Serials(w.sent) : w.acked < n /\ n <= w.serial
  /\ \A n \in Serials(w.configures) : n <= w.serial
  /\ \A n \in Serials(w.configures) : w.acked < n => n \in Serials(w.sent)

\* What is left of the configures, when the client has (committed) or has not
\* yet committed for its last acknowledgement, in a behaviour with events E.
AnswerInv(w, committed, E) ==
  /\ E \cap {"skip"} = {} => \A n \in Serials(w.configures) : w.acked <= n
  /\ E \cap {"activate", "move", "resize"} = {} =>
       /\ Serials(w.sent) \subseteq Serials(w.configures)
       /\ ~committed => w.acked \in Serials(w.configures)
  /\ \/ E \cap {"skip"} = {}
     \/ E \cap {"activate", "move", "resize"} = {}
     => (committed => \A n \in Serials(w.configures) : w.acked < n)

\* The last configure carries the synced modes; without one they are shown.
ModeInv(w) ==
  /\ w.configures = <<>> => w.cur_max = w.syn_max /\ w.cur_full = w.syn_full
  /\ w.configures # <<>> =>
       /\ w.configures[Len(w.configures)].max = w.syn_max
       /\ w.configures[Len(w.configures)].full = w.syn_full
  /\ ~w.pending => w.max_mode = w.syn_max /\ w.fullscreen = w.syn_full

Good(w, committed, E) ==
  w \in Win /\ SerialInv(w) /\ AnswerInv(w, committed, E) /\ ModeInv(w)

LEMMA ConfigureTypes ==
  ASSUME NEW w \in Win
  PROVE  /\ Len(w.configures) \in Nat /\ Len(w.sent) \in Nat
         /\ \A i \in 1..Len(w.configures) :
              w.configures[i] \in Configure /\ w.configures[i].serial \in Nat
         /\ \A i \in 1..Len(w.sent) :
              w.sent[i] \in Event /\ w.sent[i].serial \in Nat
<1>1. w.configures \in Seq(Configure) /\ w.sent \in Seq(Event)
  BY Fields
<1>2. Len(w.configures) \in Nat /\ Len(w.sent) \in Nat
  BY <1>1
<1>3. \A i \in 1..Len(w.configures) : w.configures[i] \in Configure
  BY <1>1
<1>4. \A i \in 1..Len(w.sent) : w.sent[i] \in Event
  BY <1>1
<1> QED
  BY <1>2, <1>3, <1>4 DEF Configure, Event

LEMMA SerialTypes ==
  ASSUME NEW w \in Win
  PROVE  Serials(w.configures) \subseteq Nat /\ Serials(w.sent) \subseteq Nat
BY ConfigureTypes DEF Serials

\* An event that is sent or recorded goes to the end.
LEMMA AppendIs ==
  ASSUME NEW S, NEW q \in Seq(S), NEW e \in S, e.serial \in Nat,
         Serials(q) \subseteq Nat, \A n \in Serials(q) : n < e.serial, Ordered(q)
  PROVE  /\ Serials(Append(q, e)) = Serials(q) \cup {e.serial}
         /\ Ordered(Append(q, e))
         /\ Append(q, e) # <<>> /\ Append(q, e)[Len(Append(q, e))] = e
<1> DEFINE r == Append(q, e)
           n == Len(q)
<1>1. n \in Nat /\ Len(r) = n + 1
  BY DEF r
<1>2. \A i \in 1..n : r[i] = q[i]
  BY DEF r
<1>3. r[n + 1] = e /\ r # <<>>
  BY DEF r
<1> HIDE DEF r, n
<1>4. 1..(n + 1) = (1..n) \cup {n + 1}
  BY <1>1
<1>5. Serials(r) = Serials(q) \cup {e.serial}
  BY <1>1, <1>2, <1>3, <1>4 DEF Serials, n
<1>6. Ordered(r)
  <2> SUFFICES ASSUME NEW i \in 1..(n + 1), NEW j \in 1..(n + 1), i < j
               PROVE  r[i].serial < r[j].serial
    BY <1>1 DEF Ordered
  <2>1. i \in 1..n /\ r[i] = q[i] /\ q[i].serial \in Serials(q)
    BY <1>1, <1>2 DEF Serials, n
  <2>2. CASE j = n + 1
    BY <1>3, <2>1, <2>2
  <2>3. CASE j \in 1..n
    BY <1>2, <2>1, <2>3 DEF Ordered, n
  <2> QED
    BY <1>1, <2>2, <2>3
<1> QED
  BY <1>1, <1>3, <1>5, <1>6 DEF r

\* What is left after the entry of a serial number is what has later ones.
LeftAfter(r, q, k) ==
  /\ Ordered(r)
  /\ \A n : n \in Serials(r) <=> n \in Serials(q) /\ q[k].serial < n
  /\ r = <<>> => k = Len(q)
  /\ r # <<>> => r[Len(r)] = q[Len(q)] /\ q # <<>>

LEMMA LaterIs ==
  ASSUME NEW S, NEW q \in Seq(S), NEW k \in 1..Len(q), Serials(q) \subseteq Nat,
         Ordered(q), NEW r, r = LaterConfigures(q, k)
  PROVE  r \in Seq(S) /\ LeftAfter(r, q, k)
<1>0. r = SubSeq(q, k + 1, Len(q))
  BY DEF LaterConfigures
<1>1. Len(q) \in Nat /\ k \in Nat /\ k + 1 \in Nat
  OBVIOUS
<1>2. r \in Seq(S) /\ Len(r) = Len(q) - k
  BY <1>0, <1>1
<1>3. \A i \in 1..Len(r) : r[i] = q[i + k]
  BY <1>0, <1>1, <1>2
<1>4. \A i \in 1..Len(q) : q[i].serial \in Nat
  BY DEF Serials
<1>5. Ordered(r)
  <2> SUFFICES ASSUME NEW i \in 1..Len(r), NEW j \in 1..Len(r), i < j
               PROVE  r[i].serial < r[j].serial
    BY DEF Ordered
  <2>1. i + k \in 1..Len(q) /\ j + k \in 1..Len(q) /\ i + k < j + k
    BY <1>1, <1>2
  <2> QED
    BY <1>3, <2>1 DEF Ordered
<1>6. \A i \in 1..Len(q) : q[k].serial < q[i].serial <=> k < i
  BY <1>1, <1>4 DEF Ordered
<1>7. ASSUME NEW n, n \in Serials(r) PROVE n \in Serials(q) /\ q[k].serial < n
  <2>1. PICK i \in 1..Len(r) : n = r[i].serial
    BY <1>7 DEF Serials
  <2>2. i + k \in 1..Len(q) /\ k < i + k
    BY <1>1, <1>2
  <2> QED
    BY <1>3, <1>6, <2>1, <2>2 DEF Serials
<1>8. ASSUME NEW n, n \in Serials(q), q[k].serial < n PROVE n \in Serials(r)
  <2>1. PICK i \in 1..Len(q) : n = q[i].serial
    BY <1>8 DEF Serials
  <2>2. k < i
    BY <1>6, <1>8, <2>1
  <2>3. i - k \in 1..Len(r) /\ (i - k) + k = i
    BY <1>1, <1>2, <2>2
  <2>4. r[i - k] = q[i]
    BY <1>3, <2>3
  <2> QED
    BY <2>1, <2>3, <2>4 DEF Serials
<1>9. r = <<>> => k = Len(q)
  <2>1. r = <<>> => Len(r) = 0
    OBVIOUS
  <2> QED
    BY <1>1, <1>2, <2>1
<1>10. r # <<>> => r[Len(r)] = q[Len(q)] /\ q # <<>>
  <2> SUFFICES ASSUME r # <<>> PROVE r[Len(r)] = q[Len(q)] /\ q # <<>>
    OBVIOUS
  <2>1. Len(r) # 0
    BY <1>2
  <2>2. Len(r) \in 1..Len(r) /\ Len(r) + k = Len(q)
    BY <1>1, <1>2, <2>1
  <2>3. r[Len(r)] = q[Len(q)]
    BY <1>3, <2>2
  <2>4. Len(q) # 0
    BY <1>1
  <2>5. q # <<>>
    BY <2>4
  <2> QED
    BY <2>3, <2>5
<1> QED
  BY <1>2, <1>5, <1>7, <1>8, <1>9, <1>10 DEF LeftAfter

-----------------------------------------------------------------------------
(* What the operations on the window preserve.                             *)

LEMMA AlikeIsGood ==
  ASSUME NEW committed \in BOOLEAN, NEW E, NEW u, NEW w,
         Good(w, committed, E), Alike(u, w)
  PROVE  Good(u, committed, E)
<1>1. /\ u \in Win /\ u.serial = w.serial /\ u.sent = w.sent /\ u.acked = w.acked
      /\ u.configures = w.configures
  BY DEF Alike, Keeps
<1>2. SerialInv(u)
  BY <1>1 DEF Good, SerialInv
<1>3. AnswerInv(u, committed, E)
  BY <1>1 DEF Good, AnswerInv
<1>4. ModeInv(u)
  <2>1. u.pending \in BOOLEAN
    BY <1>1, Flags
  <2> QED
    BY <1>1, <2>1 DEF Good, ModeInv, Alike, Keeps
<1> QED
  BY <1>1, <1>2, <1>3, <1>4 DEF Good

\* Only the position of what is on its way changes, and what is shown.
LEMMA MovedIsGood ==
  ASSUME NEW committed \in BOOLEAN, NEW E, NEW u \in Win, NEW w,
         Good(w, committed, E),
         u.serial = w.serial, u.sent = w.sent, u.acked = w.acked,
         u.cur_max = w.cur_max, u.cur_full = w.cur_full,
         u.syn_max = w.syn_max, u.syn_full = w.syn_full,
         u.pending = w.pending, u.max_mode = w.max_mode,
         u.fullscreen = w.fullscreen,
         Len(u.configures) = Len(w.configures),
         \A i \in 1..Len(w.configures) :
           /\ u.configures[i].serial = w.configures[i].serial
           /\ u.configures[i].max = w.configures[i].max
           /\ u.configures[i].full = w.configures[i].full
  PROVE  Good(u, committed, E)
<1>1. Serials(u.configures) = Serials(w.configures)
  BY DEF Serials
<1>2. Ordered(w.configures) => Ordered(u.configures)
  BY DEF Ordered
<1>3. SerialInv(u)
  BY <1>1, <1>2 DEF Good, SerialInv
<1>4. AnswerInv(u, committed, E)
  BY <1>1 DEF Good, AnswerInv
<1>5. ModeInv(u)
  <2>1. u.configures \in Seq(Configure) /\ w.configures \in Seq(Configure)
    BY Fields DEF Good
  <2>2. u.configures = <<>> <=> w.configures = <<>>
    BY <2>1
  <2>3. w.configures # <<>> => Len(w.configures) \in 1..Len(w.configures)
    BY <2>1
  <2> QED
    BY <2>2, <2>3 DEF Good, ModeInv
<1> QED
  BY <1>3, <1>4, <1>5 DEF Good

LEMMA SendIs ==
  ASSUME NEW w \in Win, NEW u, u = Send(w)
  PROVE  \E e \in Event :
           /\ e.serial = w.serial + 1 /\ e.size = SizedAs(Null, w.syn_frame)
           /\ w.syn_max = Axis => e.special = TRUE
           /\ u \in Win /\ u.sent = Append(w.sent, e) /\ u.serial = w.serial + 1
           /\ u.configures = w.configures /\ u.acked = w.acked
           /\ u.cur_max = w.cur_max /\ u.cur_full = w.cur_full
           /\ u.syn_max = w.syn_max /\ u.syn_full = w.syn_full
           /\ u.max_mode = w.max_mode /\ u.fullscreen = w.fullscreen
           /\ u.pending = w.pending /\ u.block = w.block
           /\ Stays(u, w) /\ u.contact = w.contact /\ u.frame = w.frame
<1> DEFINE z == SizedAs(Null, w.syn_frame)
           b == w.syn_full \/ w.syn_max = Axis
           n == w.serial + 1
           e == [serial |-> n, size |-> z, special |-> b]
           q == Append(w.sent, e)
<1>1. n \in Nat /\ w.sent \in Seq(Event)
  BY Fields
<1>2. z \in Frame
  BY Fields, Frames, Constants
<1>3. b \in BOOLEAN /\ (w.syn_max = Axis => b = TRUE)
  OBVIOUS
<1>4. u = [w EXCEPT !.serial = n, !.sent = q]
  BY DEF Send, Win
<1> HIDE DEF z, b, n
<1>5. e \in Event /\ e.serial = n /\ e.size = z /\ e.special = b
  BY <1>1, <1>2, <1>3 DEF Event
<1> HIDE DEF e
<1>6. q \in Seq(Event)
  BY <1>1, <1>5
<1> HIDE DEF q
<1>7. /\ u \in Win /\ u.sent = q /\ u.serial = n
      /\ u.configures = w.configures /\ u.acked = w.acked
      /\ u.cur_max = w.cur_max /\ u.cur_full = w.cur_full
      /\ u.syn_max = w.syn_max /\ u.syn_full = w.syn_full
      /\ u.max_mode = w.max_mode /\ u.fullscreen = w.fullscreen
      /\ u.pending = w.pending /\ u.block = w.block
      /\ Stays(u, w) /\ u.contact = w.contact /\ u.frame = w.frame
  BY <1>1, <1>4, <1>6, ZenonT(30) DEF Win, Stays
<1> QED
  BY <1>3, <1>5, <1>7 DEF q, n, z

LEMMA ConfigureGeometryIs ==
  ASSUME NEW w \in Win, NEW f \in Frame, NEW u, u = ConfigureGeometry(w, f)
  PROVE  \E e \in Event, c \in Configure :
           /\ e.serial = w.serial + 1 /\ c.serial = w.serial + 1
           /\ c.max = w.max_mode /\ c.full = w.fullscreen /\ c.frame = f
           /\ u \in Win /\ u.sent = Append(w.sent, e) /\ u.serial = w.serial + 1
           /\ u.configures = Append(w.configures, c) /\ u.acked = w.acked
           /\ u.syn_max = w.max_mode /\ u.syn_full = w.fullscreen
           /\ u.max_mode = w.max_mode /\ u.fullscreen = w.fullscreen
           /\ u.pending = w.pending /\ u.block = w.block
           /\ u.cur_frame = w.cur_frame /\ u.mapped = w.mapped
           /\ u.must_place = w.must_place /\ u.contact = w.contact
           /\ u.frame = w.frame /\ u.syn_frame = f
<1> DEFINE c == [serial |-> w.serial + 1, frame |-> f, max |-> w.max_mode,
                 full |-> w.fullscreen]
           v == [w EXCEPT !.syn_frame = f, !.syn_max = w.max_mode,
                          !.syn_full = w.fullscreen]
           s == Send(v)
           q == Append(s.configures, c)
<1>1. c \in Configure /\ c.serial = w.serial + 1
  BY Fields, Flags DEF Configure
<1>2. c.max = w.max_mode /\ c.full = w.fullscreen /\ c.frame = f
  OBVIOUS
<1>3. /\ v \in Win /\ v.serial = w.serial /\ v.sent = w.sent
      /\ v.configures = w.configures /\ v.acked = w.acked
      /\ v.syn_max = w.max_mode /\ v.syn_full = w.fullscreen
      /\ v.max_mode = w.max_mode /\ v.fullscreen = w.fullscreen
      /\ v.pending = w.pending /\ v.block = w.block
      /\ v.cur_frame = w.cur_frame /\ v.mapped = w.mapped
      /\ v.must_place = w.must_place /\ v.contact = w.contact
      /\ v.frame = w.frame /\ v.syn_frame = f
  BY DEF Win
<1>4. s \in Win => u = [s EXCEPT !.configures = q]
  BY DEF ConfigureGeometry, Win
<1> HIDE DEF c, v
<1>5. PICK e \in Event :
        /\ e.serial = v.serial + 1 /\ e.size = SizedAs(Null, v.syn_frame)
        /\ v.syn_max = Axis => e.special = TRUE
        /\ s \in Win /\ s.sent = Append(v.sent, e) /\ s.serial = v.serial + 1
        /\ s.configures = v.configures /\ s.acked = v.acked
        /\ s.syn_max = v.syn_max /\ s.syn_full = v.syn_full
        /\ s.max_mode = v.max_mode /\ s.fullscreen = v.fullscreen
        /\ s.pending = v.pending /\ s.block = v.block
        /\ Stays(s, v) /\ s.contact = v.contact /\ s.frame = v.frame
  BY <1>3, SendIs, ZenonT(30)
<1> HIDE DEF s
<1>6. q \in Seq(Configure)
  BY <1>1, <1>5, Fields
<1>7. q = Append(w.configures, c)
  BY <1>3, <1>5
<1> HIDE DEF q
<1>8. /\ u \in Win /\ u.sent = s.sent /\ u.serial = s.serial
      /\ u.configures = q /\ u.acked = s.acked
      /\ u.syn_max = s.syn_max /\ u.syn_full = s.syn_full
      /\ u.max_mode = s.max_mode /\ u.fullscreen = s.fullscreen
      /\ u.pending = s.pending /\ u.block = s.block
      /\ u.cur_frame = s.cur_frame /\ u.mapped = s.mapped
      /\ u.must_place = s.must_place /\ u.contact = s.contact
      /\ u.frame = s.frame /\ u.syn_frame = s.syn_frame
  BY <1>4, <1>5, <1>6, ZenonT(30) DEF Win
<1> QED
  BY <1>1, <1>2, <1>3, <1>5, <1>7, <1>8 DEF Stays

\* It adds one configure and leaves the window as it is.
LEMMA ConfigureAdds ==
  ASSUME NEW w \in Win, NEW f \in Frame, NEW u, u = ConfigureGeometry(w, f)
  PROVE  /\ Len(u.configures) = Len(w.configures) + 1
         /\ u.frame = w.frame /\ u.cur_frame = w.cur_frame
         /\ u.contact = w.contact /\ u.mapped = w.mapped /\ u.block = w.block
         /\ u.pending = w.pending /\ u.max_mode = w.max_mode
<1> DEFINE c == [serial |-> w.serial + 1, frame |-> f, max |-> w.max_mode,
                 full |-> w.fullscreen]
<1>1. u.configures = Append(w.configures, c)
  BY DEF Win, Send, ConfigureGeometry
<1>2. Len(Append(w.configures, c)) = Len(w.configures) + 1
  BY Fields
<1>3. /\ u.frame = w.frame /\ u.cur_frame = w.cur_frame
      /\ u.contact = w.contact /\ u.mapped = w.mapped /\ u.block = w.block
      /\ u.pending = w.pending /\ u.max_mode = w.max_mode
  BY DEF Win, Send, ConfigureGeometry
<1> QED
  BY <1>1, <1>2, <1>3

\* The client is told the size and whether the window is special.
LEMMA ConfigureTells ==
  ASSUME NEW w \in Win, NEW f \in Frame, NEW u, u = ConfigureGeometry(w, f)
  PROVE  \E e \in Event :
           /\ u.sent = Append(w.sent, e) /\ e.serial = w.serial + 1
           /\ e.size = SizedAs(Null, f)
           /\ w.max_mode = Axis => e.special = TRUE
<1> DEFINE v == [w EXCEPT !.syn_frame = f, !.syn_max = w.max_mode,
                          !.syn_full = w.fullscreen]
           s == Send(v)
<1>1. u.sent = s.sent
  BY DEF ConfigureGeometry
<1>2. /\ v \in Win /\ v.serial = w.serial /\ v.sent = w.sent
      /\ v.syn_max = w.max_mode /\ v.syn_frame = f
  BY DEF Win
<1> HIDE DEF v
<1>3. PICK e \in Event :
        /\ e.serial = v.serial + 1 /\ e.size = SizedAs(Null, v.syn_frame)
        /\ v.syn_max = Axis => e.special = TRUE
        /\ s.sent = Append(v.sent, e)
  BY <1>2, SendIs
<1> QED
  BY <1>1, <1>2, <1>3

\* An event that is not recorded is sent in a behaviour with such events only.
LEMMA SendIsGood ==
  ASSUME NEW committed \in BOOLEAN, NEW E, NEW w, Good(w, committed, E),
         E \cap {"activate", "move", "resize"} # {}
  PROVE  Good(Send(w), committed, E) /\ Send(w).pending = w.pending
                                     /\ Send(w).block = w.block
<1> DEFINE u == Send(w)
<1>0. w \in Win /\ SerialInv(w) /\ AnswerInv(w, committed, E) /\ ModeInv(w)
  BY DEF Good
<1>1. PICK e \in Event :
        /\ e.serial = w.serial + 1
        /\ u \in Win /\ u.sent = Append(w.sent, e) /\ u.serial = w.serial + 1
        /\ u.configures = w.configures /\ u.acked = w.acked
        /\ u.cur_max = w.cur_max /\ u.cur_full = w.cur_full
        /\ u.syn_max = w.syn_max /\ u.syn_full = w.syn_full
        /\ u.max_mode = w.max_mode /\ u.fullscreen = w.fullscreen
        /\ u.pending = w.pending /\ u.block = w.block
  BY <1>0, SendIs
<1> HIDE DEF u
<1>2. /\ w.sent \in Seq(Event) /\ w.serial \in Nat /\ w.acked \in Nat
      /\ Serials(w.sent) \subseteq Nat /\ Serials(w.configures) \subseteq Nat
  BY <1>0, Fields, SerialTypes
<1>3. /\ Serials(u.sent) = Serials(w.sent) \cup {e.serial} /\ Ordered(u.sent)
  <2>1. Ordered(w.sent) /\ \A n \in Serials(w.sent) : n < e.serial
    BY <1>0, <1>1, <1>2 DEF SerialInv
  <2>2. e.serial \in Nat
    BY <1>1, <1>2
  <2> QED
    BY <1>1, <1>2, <2>1, <2>2, AppendIs
<1>4. SerialInv(u)
  BY <1>0, <1>1, <1>2, <1>3 DEF SerialInv
<1>5. AnswerInv(u, committed, E)
  BY <1>0, <1>1 DEF AnswerInv
<1>6. ModeInv(u)
  BY <1>0, <1>1 DEF ModeInv
<1> QED
  BY <1>1, <1>4, <1>5, <1>6 DEF Good, u

LEMMA ConfigureIsGood ==
  ASSUME NEW committed \in BOOLEAN, NEW E, NEW w \in Win, SerialInv(w),
         AnswerInv(w, committed, E), NEW f \in Frame
  PROVE  /\ Good(ConfigureGeometry(w, f), committed, E)
         /\ ConfigureGeometry(w, f).pending = w.pending
         /\ ConfigureGeometry(w, f).block = w.block
<1> DEFINE u == ConfigureGeometry(w, f)
<1>1. PICK e \in Event, c \in Configure :
        /\ e.serial = w.serial + 1 /\ c.serial = w.serial + 1
        /\ c.max = w.max_mode /\ c.full = w.fullscreen
        /\ u \in Win /\ u.sent = Append(w.sent, e) /\ u.serial = w.serial + 1
        /\ u.configures = Append(w.configures, c) /\ u.acked = w.acked
        /\ u.syn_max = w.max_mode /\ u.syn_full = w.fullscreen
        /\ u.max_mode = w.max_mode /\ u.fullscreen = w.fullscreen
        /\ u.pending = w.pending /\ u.block = w.block
  BY ConfigureGeometryIs
<1> HIDE DEF u
<1>2. /\ w.sent \in Seq(Event) /\ w.serial \in Nat /\ w.acked \in Nat
      /\ w.configures \in Seq(Configure)
      /\ Serials(w.sent) \subseteq Nat /\ Serials(w.configures) \subseteq Nat
      /\ w.serial + 1 \in Nat
  BY Fields, SerialTypes
<1>3. Serials(u.sent) = Serials(w.sent) \cup {w.serial + 1} /\ Ordered(u.sent)
  <2>1. Ordered(w.sent) /\ \A n \in Serials(w.sent) : n < e.serial
    BY <1>1, <1>2 DEF SerialInv
  <2>2. e.serial \in Nat
    BY <1>1, <1>2
  <2>3. /\ Serials(Append(w.sent, e)) = Serials(w.sent) \cup {e.serial}
        /\ Ordered(Append(w.sent, e))
    BY <1>2, <2>1, <2>2, AppendIs
  <2> QED
    BY <1>1, <2>3
<1>4. /\ Serials(u.configures) = Serials(w.configures) \cup {w.serial + 1}
      /\ Ordered(u.configures) /\ u.configures # <<>>
      /\ u.configures[Len(u.configures)] = c
  <2>1. Ordered(w.configures) /\ \A n \in Serials(w.configures) : n < c.serial
    BY <1>1, <1>2 DEF SerialInv
  <2>2. c.serial \in Nat
    BY <1>1, <1>2
  <2> DEFINE q == Append(w.configures, c)
  <2>3. /\ Serials(q) = Serials(w.configures) \cup {c.serial} /\ Ordered(q)
        /\ q # <<>> /\ q[Len(q)] = c
    BY <1>2, <2>1, <2>2, AppendIs
  <2> QED
    BY <1>1, <2>3
<1>5. w.acked < w.serial + 1
  BY <1>2 DEF SerialInv
<1>6. SerialInv(u)
  BY <1>1, <1>2, <1>3, <1>4, <1>5 DEF SerialInv
<1>7. AnswerInv(u, committed, E)
  BY <1>1, <1>2, <1>3, <1>4, <1>5 DEF AnswerInv
<1>8. ModeInv(u)
  BY <1>1, <1>4 DEF ModeInv
<1> QED
  BY <1>1, <1>6, <1>7, <1>8 DEF Good, u

\* Neither the modes nor the configures change.
LEMMA DoSetGeometryIs ==
  ASSUME NEW w \in Win, NEW f \in Frame
  PROVE  Alike(DoSetGeometry(w, f), w) /\ DoSetGeometry(w, f).pending = w.pending
         /\ DoSetGeometry(w, f).max_mode = w.max_mode
         /\ DoSetGeometry(w, f).fullscreen = w.fullscreen
<1> DEFINE g == IF w.pending THEN w.frame ELSE SizedAs(w.frame, f)
           u == [w EXCEPT !.cur_frame = f, !.frame = g]
<1>1. DoSetGeometry(w, f) = IF w.cur_frame = f THEN w ELSE u
  BY DEF DoSetGeometry, Win
<1>2. g \in Frame
  BY Fields, Frames
<1> HIDE DEF g
<1>3. Alike(u, w) /\ u.pending = w.pending /\ u.max_mode = w.max_mode
      /\ u.fullscreen = w.fullscreen
  BY <1>2 DEF Win, Alike, Keeps
<1> HIDE DEF u
<1> QED
  BY <1>1, <1>3, ManagedSelf, ManagedAsked

LEMMA SetPositionIsGood ==
  ASSUME NEW committed \in BOOLEAN, NEW E, NEW w, Good(w, committed, E)
  PROVE  /\ Good(SetPosition(w), committed, E)
         /\ SetPosition(w).pending = w.pending /\ SetPosition(w).block = w.block
<1>0. w \in Win /\ w.frame \in Frame /\ w.configures \in Seq(Configure)
  BY Fields DEF Good
<1> DEFINE n == Len(w.configures)
           c == w.configures[n]
           g == MovedTo(c.frame, w.frame)
           d == [c EXCEPT !.frame = g]
           q == [w.configures EXCEPT ![n] = d]
           u == [w EXCEPT !.configures = q]
<1>1. CASE n = 0
  <2>1. SetPosition(w) = DoSetGeometry(w, w.frame)
    BY <1>1 DEF SetPosition
  <2>2. Alike(SetPosition(w), w) /\ SetPosition(w).pending = w.pending
    BY <1>0, <2>1, DoSetGeometryIs
  <2>3. Good(SetPosition(w), committed, E)
    BY <2>2, AlikeIsGood
  <2> QED
    BY <2>2, <2>3 DEF Alike, Keeps
<1>2. CASE n # 0
  <2>1. n \in 1..n /\ n = Len(w.configures) /\ n \in Nat
    BY <1>0, <1>2
  <2>2. c \in Configure /\ c = w.configures[n]
    BY <1>0, <2>1
  <2>3. g \in Frame
    <3>1. c.frame \in Frame
      BY <2>2 DEF Configure
    <3> QED
      BY <1>0, <3>1, Frames
  <2>4. SetPosition(w) = u
    BY <1>0, <1>2 DEF SetPosition, Win
  <2> HIDE DEF g, n, c
  <2>5. d \in Configure /\ d.serial = c.serial /\ d.max = c.max /\ d.full = c.full
    BY <2>2, <2>3 DEF Configure
  <2> HIDE DEF d
  <2>6. q \in Seq(Configure) /\ Len(q) = n
    BY <1>0, <2>1, <2>5
  <2>7. \A i \in 1..n : q[i] = IF i = n THEN d ELSE w.configures[i]
    BY <1>0, <2>1
  <2>8. \A i \in 1..n : /\ q[i].serial = w.configures[i].serial
                        /\ q[i].max = w.configures[i].max
                        /\ q[i].full = w.configures[i].full
    BY <2>2, <2>5, <2>7
  <2> HIDE DEF q
  <2>9. /\ u \in Win /\ u.configures = q
        /\ u.serial = w.serial /\ u.sent = w.sent /\ u.acked = w.acked
        /\ u.cur_max = w.cur_max /\ u.cur_full = w.cur_full
        /\ u.syn_max = w.syn_max /\ u.syn_full = w.syn_full
        /\ u.pending = w.pending /\ u.max_mode = w.max_mode
        /\ u.fullscreen = w.fullscreen /\ u.block = w.block
    BY <1>0, <2>6 DEF Win
  <2> HIDE DEF u
  <2>10. Good(u, committed, E)
    BY <2>1, <2>6, <2>8, <2>9, MovedIsGood
  <2> QED
    BY <2>4, <2>9, <2>10
<1> QED
  BY <1>1, <1>2

\* The update of a released window is no longer pending.
LEMMA ReleaseIsGood ==
  ASSUME NEW committed \in BOOLEAN, NEW E, NEW w, Good(w, committed, E)
  PROVE  /\ Good(Release(w), committed, E)
         /\ Release(w).pending => Release(w).block
<1> DEFINE v == [w EXCEPT !.pending = FALSE]
<1>0. w \in Win /\ SerialInv(w) /\ AnswerInv(w, committed, E) /\ ModeInv(w)
  BY DEF Good
<1>1. Release(w) = IF w.block \/ ~w.pending THEN w
                   ELSE IF NeedsConfigure(v) THEN ConfigureGeometry(v, v.frame)
                   ELSE SetPosition(v)
  BY DEF Release
<1>2. /\ v \in Win /\ v.pending = FALSE
      /\ v.serial = w.serial /\ v.sent = w.sent /\ v.acked = w.acked
      /\ v.configures = w.configures
      /\ v.cur_max = w.cur_max /\ v.cur_full = w.cur_full
      /\ v.syn_max = w.syn_max /\ v.syn_full = w.syn_full
  BY <1>0 DEF Win
<1> HIDE DEF v
<1>3. SerialInv(v)
  BY <1>0, <1>2 DEF SerialInv
<1>4. AnswerInv(v, committed, E)
  BY <1>0, <1>2 DEF AnswerInv
<1>5. CASE w.block \/ ~w.pending
  BY <1>1, <1>5
<1>6. CASE ~(w.block \/ ~w.pending) /\ NeedsConfigure(v)
  BY <1>1, <1>2, <1>3, <1>4, <1>6, Fields, ConfigureIsGood
<1>7. CASE ~(w.block \/ ~w.pending) /\ ~NeedsConfigure(v)
  <2>1. v.max_mode = v.syn_max /\ v.fullscreen = v.syn_full
    BY <1>7 DEF NeedsConfigure
  <2>2. ModeInv(v)
    BY <1>0, <1>2, <2>1 DEF ModeInv
  <2>3. Good(v, committed, E)
    BY <1>2, <1>3, <1>4, <2>2 DEF Good
  <2> QED
    BY <1>1, <1>2, <1>7, <2>3, SetPositionIsGood
<1> QED
  BY <1>5, <1>6, <1>7

LEMMA ReleaseAskedIsGood ==
  ASSUME NEW committed \in BOOLEAN, NEW E, NEW u, NEW w,
         Good(w, committed, E), Asked(u, w)
  PROVE  /\ Good(Release(u), committed, E)
         /\ Release(u).pending => Release(u).block
BY AskedAlike, AlikeIsGood, ReleaseIsGood

LEMMA SetFrameGeometryIsGood ==
  ASSUME NEW committed \in BOOLEAN, NEW E, NEW w, Good(w, committed, E),
         NEW f \in Frame
  PROVE  /\ Good(SetFrameGeometry(w, f), committed, E)
         /\ SetFrameGeometry(w, f).pending => SetFrameGeometry(w, f).block
BY SetFrameIs, ManagedAsked, ReleaseAskedIsGood DEF SetFrameGeometry, Good

LEMMA SendUnrecordedIsGood ==
  ASSUME NEW committed \in BOOLEAN, NEW E, NEW w, Good(w, committed, E),
         w.pending => w.block, E \cap {"activate", "move", "resize"} # {}
  PROVE  /\ Good(SendUnrecorded(w), committed, E)
         /\ SendUnrecorded(w).pending => SendUnrecorded(w).block
BY SendIsGood DEF SendUnrecorded

\* Members that neither the client nor the modes depend on.
LEMMA SetMoveIs ==
  ASSUME NEW w \in Win, NEW f \in Frame
  PROVE  Managed([w EXCEPT !.mov_geo = f], w)
BY DEF Win, Managed, Keeps, Stays

LEMMA SetPlacedIs ==
  ASSUME NEW w \in Win
  PROVE  /\ Alike([w EXCEPT !.must_place = FALSE], w)
         /\ [w EXCEPT !.must_place = FALSE].pending = w.pending
         /\ Alike([w EXCEPT !.mapped = TRUE], w)
         /\ [w EXCEPT !.mapped = TRUE].pending = w.pending
BY DEF Win, Alike, Keeps

-----------------------------------------------------------------------------
(* A commit.                                                               *)

LEMMA MatchingIs ==
  ASSUME NEW w \in Win
  PROVE  Matching(w) # {} <=> w.acked \in Serials(w.configures)
BY DEF Matching, Serials

\* Without an entry for the acknowledgement, none up to it is left.
LEMMA NoMatchIsGood ==
  ASSUME NEW committed \in BOOLEAN, NEW E, NEW w, Good(w, committed, E),
         Matching(w) = {}
  PROVE  Good(w, TRUE, E)
<1>1. w \in Win /\ w.acked \in Nat /\ Serials(w.configures) \subseteq Nat
  BY Fields, SerialTypes DEF Good
<1>2. w.acked \notin Serials(w.configures)
  BY <1>1, MatchingIs
<1>3. AnswerInv(w, TRUE, E)
  <2>1. AnswerInv(w, committed, E)
    BY DEF Good
  <2>2. CASE E \cap {"skip"} = {}
    BY <1>1, <1>2, <2>1, <2>2 DEF AnswerInv
  <2>3. CASE E \cap {"skip"} # {}
    BY <1>2, <2>1, <2>3 DEF AnswerInv
  <2> QED
    BY <2>2, <2>3
<1> QED
  BY <1>3 DEF Good

\* With one, the entries up to it are removed and it is shown.
LEMMA MatchIsGood ==
  ASSUME NEW committed \in BOOLEAN, NEW E, NEW w, Good(w, committed, E),
         NEW i \in 1..Len(w.configures), w.configures[i].serial = w.acked,
         NEW u \in Win, u.configures = LaterConfigures(w.configures, i),
         u.serial = w.serial, u.sent = w.sent, u.acked = w.acked,
         u.cur_max = w.configures[i].max, u.cur_full = w.configures[i].full,
         u.syn_max = w.syn_max, u.syn_full = w.syn_full,
         u.pending = w.pending, u.max_mode = w.max_mode,
         u.fullscreen = w.fullscreen
  PROVE  Good(u, TRUE, E)
<1>0. w \in Win /\ SerialInv(w) /\ AnswerInv(w, committed, E) /\ ModeInv(w)
  BY DEF Good
<1>1. /\ w.configures \in Seq(Configure) /\ w.acked \in Nat
      /\ Serials(w.configures) \subseteq Nat /\ Ordered(w.configures)
  BY <1>0, Fields, SerialTypes DEF SerialInv
<1>3. /\ Ordered(u.configures)
      /\ \A n : n \in Serials(u.configures) <=>
                  n \in Serials(w.configures) /\ w.acked < n
      /\ u.configures = <<>> => i = Len(w.configures)
      /\ u.configures # <<>> =>
           /\ u.configures[Len(u.configures)] = w.configures[Len(w.configures)]
           /\ w.configures # <<>>
  <2>1. LeftAfter(u.configures, w.configures, i)
    BY <1>1, LaterIs
  <2> QED
    BY <2>1 DEF LeftAfter
<1>4. SerialInv(u)
  BY <1>0, <1>3 DEF SerialInv
<1>5. AnswerInv(u, TRUE, E)
  <2>1. \A n \in Serials(u.configures) : w.acked < n /\ w.acked <= n
    BY <1>1, <1>3
  <2>2. \A n \in Serials(w.sent) : w.acked < n
    BY <1>0 DEF SerialInv
  <2> QED
    BY <1>0, <1>3, <2>1, <2>2 DEF AnswerInv
<1>6. ModeInv(u)
  <2>1. w.configures # <<>>
    BY <1>1
  <2> QED
    BY <1>0, <1>3, <2>1 DEF ModeInv
<1> QED
  BY <1>4, <1>5, <1>6 DEF Good

LEMMA ApplyIsGood ==
  ASSUME NEW committed \in BOOLEAN, NEW E, NEW w, Good(w, committed, E),
         w.pending => w.block, NEW size \in Frame
  PROVE  /\ Good(ApplyPendingGeometry(w, size), TRUE, E)
         /\ ApplyPendingGeometry(w, size).pending =>
              ApplyPendingGeometry(w, size).block
<1> DEFINE match == Matching(w) # {}
           i == CHOOSE i \in Matching(w) : TRUE
           f == SizedAs(IF match THEN w.configures[i].frame ELSE w.cur_frame, size)
           g == IF IsResize(w) THEN Anchored(w, f) ELSE f
           first == IF Valid(w.syn_frame) THEN w
                    ELSE [w EXCEPT !.syn_frame = size, !.frame = f]
           rest == IF match THEN LaterConfigures(w.configures, i) ELSE w.configures
           u == [first EXCEPT !.configures = rest]
           shown == DoSetGeometry(u, g)
           applied == [shown EXCEPT !.cur_max = w.configures[i].max,
                                    !.cur_full = w.configures[i].full]
<1>0. /\ w \in Win /\ w.cur_frame \in Frame /\ w.mov_geo \in Frame
      /\ w.configures \in Seq(Configure)
  BY Fields DEF Good
<1>1. ApplyPendingGeometry(w, size) =
        IF f = w.cur_frame /\ ~match THEN w ELSE IF match THEN applied ELSE shown
  BY DEF ApplyPendingGeometry
<1>2. match => /\ i \in 1..Len(w.configures)
               /\ w.configures[i].serial = w.acked
               /\ w.configures[i] \in Configure
  <2>1. match => i \in Matching(w)
    OBVIOUS
  <2>2. \A j \in Matching(w) : j \in 1..Len(w.configures)
                               /\ w.configures[j].serial = w.acked
    BY DEF Matching
  <2> QED
    BY <1>0, <2>1, <2>2, ConfigureTypes
<1> HIDE DEF i
<1>3. f \in Frame
  <2>1. match => w.configures[i].frame \in Frame
    BY <1>2 DEF Configure
  <2> QED
    BY <1>0, <2>1, Frames
<1>4. rest \in Seq(Configure)
  BY <1>0, <1>2 DEF LaterConfigures
<1> HIDE DEF f, rest
<1>5. g \in Frame
  <2>1. Anchored(w, f) \in Frame
    BY <1>0, <1>3 DEF Anchored, Frame
  <2> QED
    BY <1>3, <2>1
<1> HIDE DEF g
<1>6. /\ first \in Win /\ Keeps(first, w) /\ first.pending = w.pending
      /\ first.max_mode = w.max_mode /\ first.fullscreen = w.fullscreen
  BY <1>0, <1>3, ZenonT(30) DEF Win, Keeps
<1> HIDE DEF first
<1>7. /\ u \in Win /\ u.configures = rest /\ u.serial = w.serial
      /\ u.sent = w.sent /\ u.acked = w.acked /\ u.block = w.block
      /\ u.cur_max = w.cur_max /\ u.cur_full = w.cur_full
      /\ u.syn_max = w.syn_max /\ u.syn_full = w.syn_full
      /\ u.pending = w.pending /\ u.max_mode = w.max_mode
      /\ u.fullscreen = w.fullscreen
  BY <1>4, <1>6 DEF Win, Keeps
<1> HIDE DEF u
<1>8. Alike(shown, u) /\ shown.pending = u.pending /\ shown.max_mode = u.max_mode
      /\ shown.fullscreen = u.fullscreen
  BY <1>5, <1>7, DoSetGeometryIs
<1> HIDE DEF shown
<1>9. CASE ~match
  <2>1. Good(w, TRUE, E)
    BY <1>9, NoMatchIsGood
  <2>2. Alike(shown, w) /\ shown.pending = w.pending /\ shown.block = w.block
    BY <1>7, <1>8, <1>9 DEF Alike, Keeps, rest
  <2>3. Good(shown, TRUE, E)
    BY <2>1, <2>2, AlikeIsGood
  <2> QED
    BY <1>1, <1>9, <2>1, <2>2, <2>3
<1>10. CASE match
  <2>1. w.configures[i].max \in SUBSET Axis /\ w.configures[i].full \in BOOLEAN
    BY <1>2, <1>10 DEF Configure
  <2>2. /\ applied \in Win /\ applied.configures = shown.configures
        /\ applied.serial = shown.serial /\ applied.sent = shown.sent
        /\ applied.acked = shown.acked /\ applied.block = shown.block
        /\ applied.cur_max = w.configures[i].max
        /\ applied.cur_full = w.configures[i].full
        /\ applied.syn_max = shown.syn_max /\ applied.syn_full = shown.syn_full
        /\ applied.pending = shown.pending /\ applied.max_mode = shown.max_mode
        /\ applied.fullscreen = shown.fullscreen
    BY <1>8, <2>1 DEF Win, Alike
  <2> HIDE DEF applied
  <2>3. /\ applied.configures = LaterConfigures(w.configures, i)
        /\ applied.serial = w.serial /\ applied.sent = w.sent
        /\ applied.acked = w.acked /\ applied.block = w.block
        /\ applied.syn_max = w.syn_max /\ applied.syn_full = w.syn_full
        /\ applied.pending = w.pending /\ applied.max_mode = w.max_mode
        /\ applied.fullscreen = w.fullscreen
    BY <1>7, <1>8, <1>10, <2>2 DEF Alike, Keeps, rest
  <2>4. Good(applied, TRUE, E)
    BY <1>2, <1>10, <2>2, <2>3, MatchIsGood
  <2> QED
    BY <1>1, <1>10, <2>3, <2>4
<1> QED
  BY <1>9, <1>10

LEMMA PlaceIsGood ==
  ASSUME NEW E, NEW w, Good(w, TRUE, E), w.pending => w.block
  PROVE  Good(Place(w), TRUE, E) /\ (Place(w).pending => Place(w).block)
<1> DEFINE u == [w EXCEPT !.must_place = FALSE]
           f == MovedTo(w.cur_frame, Placed)
<1>0. w \in Win /\ f \in Frame
  BY Fields, Frames, Constants DEF Good
<1>1. Place(w) = IF w.must_place /\ ~SamePos(w.cur_frame, Placed)
                 THEN SetFrameGeometry(u, f) ELSE u
  BY DEF Place
<1> HIDE DEF f
<1>2. Alike(u, w) /\ u.pending = w.pending
  BY <1>0, SetPlacedIs
<1> HIDE DEF u
<1>3. Good(u, TRUE, E)
  BY <1>2, AlikeIsGood
<1>4. u.pending => u.block
  BY <1>2 DEF Alike, Keeps
<1>5. /\ Good(SetFrameGeometry(u, f), TRUE, E)
      /\ SetFrameGeometry(u, f).pending => SetFrameGeometry(u, f).block
  BY <1>0, <1>3, SetFrameGeometryIsGood
<1> QED
  BY <1>1, <1>3, <1>4, <1>5

-----------------------------------------------------------------------------
(* The specification.                                                      *)

\* The inductive invariant.
XdgInv ==
  /\ Good(win, client.committed, events)
  /\ win.pending => win.block
  /\ client \in [event : Event, committed : BOOLEAN]
  /\ before \in Frame
  /\ unsized \in BOOLEAN
  /\ events \in Scenarios

LEMMA InitXdg ==
  Init => XdgInv
<1> SUFFICES ASSUME Init PROVE XdgInv
  OBVIOUS
<1>0. Null \in Frame
  BY Constants
<1>1. win \in Win
  BY <1>0 DEF Init, Win, Contact
<1>2. /\ win.sent = <<>> /\ win.configures = <<>> /\ win.acked = 0
      /\ win.serial = 0 /\ win.pending = FALSE /\ win.max_mode = {}
      /\ win.syn_max = {} /\ win.cur_max = {} /\ win.fullscreen = FALSE
      /\ win.syn_full = FALSE /\ win.cur_full = FALSE
  BY DEF Init
<1>3. Serials(<<>>) = {} /\ Ordered(<<>>)
  BY DEF Serials, Ordered
<1>4. SerialInv(win)
  BY <1>2, <1>3 DEF SerialInv
<1>5. client \in [event : Event, committed : BOOLEAN] /\ client.committed = TRUE
  BY <1>0 DEF Init, NoEvent, Event
<1>6. AnswerInv(win, client.committed, events)
  BY <1>2, <1>3, <1>5 DEF AnswerInv
<1>7. ModeInv(win)
  BY <1>2 DEF ModeInv
<1> QED
  BY <1>0, <1>1, <1>2, <1>4, <1>5, <1>6, <1>7 DEF Init, XdgInv, Good

\* A handler keeps the invariant when the window it leaves does.
LEMMA StepXdg ==
  ASSUME XdgInv, NEW w, Step(w), Good(w, client.committed, events),
         w.pending => w.block
  PROVE  XdgInv'
<1>1. win' = w /\ client' = client /\ events' = events
  BY DEF Step
<1>2. before' \in Frame
  BY Fields DEF Step, XdgInv, Good
<1>3. unsized' \in BOOLEAN
  BY DEF Step
<1> QED
  BY <1>1, <1>2, <1>3 DEF XdgInv

LEMMA Facts ==
  ASSUME XdgInv
  PROVE  /\ win \in Win /\ client.committed \in BOOLEAN
         /\ Good(win, client.committed, events) /\ (win.pending => win.block)
BY DEF XdgInv, Good

LEMMA StepAsked ==
  ASSUME XdgInv, NEW u, Asked(u, win), Step(Release(u))
  PROVE  XdgInv'
BY Facts, ReleaseAskedIsGood, StepXdg

LEMMA MaximizeRequestXdg ==
  ASSUME XdgInv, NEW on \in BOOLEAN, HandleMaximizeRequest(on)
  PROVE  XdgInv'
<1> DEFINE m == IF on THEN Axis ELSE {}
           w == Release(UpdateMaximized(win, m))
           c == ConfigureGeometry(w, w.syn_frame)
<1>1. Step(IF w.max_mode = win.max_mode THEN c ELSE w)
  BY DEF HandleMaximizeRequest
<1>2. m \in SUBSET Axis
  OBVIOUS
<1> HIDE DEF m
<1>3. Asked(UpdateMaximized(win, m), win)
  BY <1>2, Facts, UpdateMaximizedIs, ManagedAsked
<1>4. Good(w, client.committed, events) /\ (w.pending => w.block)
  BY <1>3, Facts, ReleaseAskedIsGood
<1> HIDE DEF w
<1>5. Good(c, client.committed, events) /\ (c.pending => c.block)
  <2>1. w.syn_frame \in Frame
    BY <1>4, Fields DEF Good
  <2> QED
    BY <1>4, <2>1, Facts, ConfigureIsGood DEF Good
<1> HIDE DEF c
<1> QED
  BY <1>1, <1>4, <1>5, StepXdg

LEMMA FullscreenRequestXdg ==
  ASSUME XdgInv, NEW full \in BOOLEAN, HandleFullscreenRequest(full)
  PROVE  XdgInv'
BY Facts, UpdateFullscreenIs, StepAsked DEF HandleFullscreenRequest

LEMMA MaximizeOpXdg ==
  ASSUME XdgInv, NEW axes \in SUBSET Axis, MaximizeOp(axes)
  PROVE  XdgInv'
<1> DEFINE m == IF axes = Axis THEN (IF win.cur_max = Axis THEN {} ELSE Axis)
                ELSE (win.cur_max \ axes) \cup (axes \ win.cur_max)
<1>1. Step(Release(UpdateMaximized(win, m)))
  BY DEF MaximizeOp
<1>2. m \in SUBSET Axis
  BY Facts, Fields
<1> HIDE DEF m
<1> QED
  BY <1>1, <1>2, Facts, UpdateMaximizedIs, ManagedAsked, StepAsked

LEMMA FullScreenOpXdg ==
  ASSUME XdgInv, FullScreenOp
  PROVE  XdgInv'
<1>1. Step(Release(UpdateFullscreen(win, ~win.cur_full)))
  BY DEF FullScreenOp
<1>2. (~win.cur_full) \in BOOLEAN
  OBVIOUS
<1> QED
  BY <1>1, <1>2, Facts, UpdateFullscreenIs, StepAsked

LEMMA QuickTileXdg ==
  ASSUME XdgInv, NEW mode \in {"left", "maximize"}, QuickTileWindow(mode)
  PROVE  XdgInv'
BY Facts, SetQuicktileModeIs, ManagedAsked, StepAsked DEF QuickTileWindow

LEMMA ActiveChangedXdg ==
  ASSUME XdgInv, ActiveChanged
  PROVE  XdgInv'
<1>1. Step(SendUnrecorded(win)) /\ "activate" \in events
  BY DEF ActiveChanged, Can
<1> QED
  BY <1>1, Facts, SendUnrecordedIsGood, StepXdg

LEMMA FinishXdg ==
  ASSUME XdgInv, NEW cancel \in BOOLEAN, NEW edge \in {"none", "left", "maximize"},
         Finish(cancel, edge)
  PROVE  XdgInv'
BY Facts, FinishMoveResizeIs, ManagedAsked, StepAsked DEF Finish

LEMMA StartMoveXdg ==
  ASSUME XdgInv, StartMove
  PROVE  XdgInv'
<1> DEFINE w == Release(EndMoveResize(win))
           plain == w.cur_max # Axis /\ w.quicktiling = "none" /\ ~w.fullscreen
           r == IF plain THEN w.cur_frame ELSE w.restore
           f == w.cur_frame
           u == [w EXCEPT !.contact = "center", !.restore = r,
                          !.mov_init = f, !.mov_geo = f]
<1>1. Good(w, client.committed, events) /\ (w.pending => w.block)
  BY Facts, EndMoveResizeIs, ManagedAsked, ReleaseAskedIsGood
<1>2. w \in Win /\ r \in Frame /\ f \in Frame /\ "center" \in Contact
  BY <1>1, Fields DEF Good, Contact
<1>3. Step(SendUnrecorded(u)) /\ "move" \in events
  BY <1>2 DEF StartMove, Can, Win
<1> HIDE DEF w, r, f
<1>4. Alike(u, w) /\ u.pending = w.pending
  BY <1>2 DEF Win, Alike, Keeps
<1> HIDE DEF u
<1>5. Good(u, client.committed, events) /\ (u.pending => u.block)
  BY <1>1, <1>4, Facts, AlikeIsGood DEF Alike, Keeps
<1> QED
  BY <1>3, <1>5, Facts, SendUnrecordedIsGood, StepXdg

LEMMA StartResizeXdg ==
  ASSUME XdgInv, NEW contact \in {"top_left", "bottom_right"}, StartResize(contact)
  PROVE  XdgInv'
<1> DEFINE ended == Release(EndMoveResize(win))
           r == ended.cur_frame
           w == [ended EXCEPT !.restore = r]
           unmaxed == IF w.cur_max = Axis THEN Release(UpdateMaximized(w, {})) ELSE w
           untiled == IF unmaxed.quicktiling = "none" THEN unmaxed
                      ELSE Release(SetQuicktileMode(unmaxed, "none"))
           f == untiled.cur_frame
           u == [untiled EXCEPT !.contact = contact, !.restore = Null,
                                !.mov_init = f, !.mov_geo = f]
<1>1. Step(SendUnrecorded(u)) /\ "resize" \in events
  BY DEF StartResize, Can
<1>2. Good(ended, client.committed, events) /\ (ended.pending => ended.block)
  BY Facts, EndMoveResizeIs, ManagedAsked, ReleaseAskedIsGood
<1> HIDE DEF ended
<1>3. ended \in Win /\ r \in Frame
  BY <1>2, Fields DEF Good
<1> HIDE DEF r
<1>4. Managed(w, ended) /\ w.pending = ended.pending
  BY <1>3, SetRestoreIs
<1> HIDE DEF w
<1>5. Good(w, client.committed, events) /\ (w.pending => w.block) /\ w \in Win
  BY <1>2, <1>4, Facts, ManagedAsked, AlikeIsGood DEF Managed, Keeps
<1>6. /\ Good(unmaxed, client.committed, events)
      /\ unmaxed.pending => unmaxed.block
  <2>1. Asked(UpdateMaximized(w, {}), w)
    BY <1>5, UpdateMaximizedIs, ManagedAsked
  <2> QED
    BY <1>5, <2>1, Facts, ReleaseAskedIsGood
<1> HIDE DEF unmaxed
<1>7. /\ Good(untiled, client.committed, events)
      /\ untiled.pending => untiled.block
  <2>1. Asked(SetQuicktileMode(unmaxed, "none"), unmaxed)
    BY <1>6, SetQuicktileModeIs, ManagedAsked DEF Good
  <2> QED
    BY <1>6, <2>1, Facts, ReleaseAskedIsGood
<1> HIDE DEF untiled
<1>8. /\ untiled \in Win /\ f \in Frame /\ Null \in Frame /\ contact \in Contact
  BY <1>7, Fields, Constants DEF Good, Contact
<1> HIDE DEF f
<1>9. Alike(u, untiled) /\ u.pending = untiled.pending
  BY <1>8 DEF Win, Alike, Keeps
<1> HIDE DEF u
<1>10. Good(u, client.committed, events) /\ (u.pending => u.block)
  BY <1>7, <1>9, Facts, AlikeIsGood DEF Alike, Keeps
<1> QED
  BY <1>1, <1>10, Facts, SendUnrecordedIsGood, StepXdg

LEMMA MoveStepXdg ==
  ASSUME XdgInv, NEW p \in Pos, MoveStep(p)
  PROVE  XdgInv'
<1> DEFINE geo == MovedTo(win.mov_geo, p)
           start == [win EXCEPT !.mov_geo = geo]
           moved == SetFrameGeometry(start, geo)
           untiled == SetQuicktileMode(moved, "none")
           back == IF Valid(win.restore) THEN win.restore ELSE untiled.cur_frame
           again == MovedTo(back, p)
           placed == SetFrame(untiled, again)
           u == [placed EXCEPT !.mov_geo = again]
<1>1. Step(IF \/ win.cur_full \/ moved.quicktiling = "none"
              \/ win.cur_frame = moved.frame
           THEN moved ELSE Release(u))
  BY DEF MoveStep
<1>2. p \in Frame /\ geo \in Frame
  BY XdgAssumption, Facts, Fields, Frames
<1> HIDE DEF geo
<1>3. Managed(start, win)
  BY <1>2, Facts, SetMoveIs
<1> HIDE DEF start
<1>4. Good(start, client.committed, events)
  BY <1>3, Facts, ManagedAsked, AlikeIsGood
<1>5. Good(moved, client.committed, events) /\ (moved.pending => moved.block)
  BY <1>2, <1>4, Facts, SetFrameGeometryIsGood
<1> HIDE DEF moved
<1>6. Managed(untiled, moved)
  BY <1>5, SetQuicktileModeIs DEF Good
<1> HIDE DEF untiled
<1>7. again \in Frame
  <2>1. win.restore \in Frame /\ untiled.cur_frame \in Frame
    BY <1>6, Facts, Fields DEF Managed
  <2> QED
    BY <1>2, <2>1, Frames
<1> HIDE DEF again
<1>8. Managed(placed, untiled)
  BY <1>6, <1>7, SetFrameIs DEF Managed
<1> HIDE DEF placed
<1>9. Managed(u, placed)
  BY <1>7, <1>8, SetMoveIs DEF Managed
<1> HIDE DEF u
<1>10. Asked(u, moved)
  BY <1>6, <1>8, <1>9, ManagedTwice, ManagedAsked
<1>11. /\ Good(Release(u), client.committed, events)
       /\ Release(u).pending => Release(u).block
  BY <1>5, <1>10, Facts, ReleaseAskedIsGood
<1> QED
  BY <1>1, <1>5, <1>11, StepXdg

LEMMA ResizeStepXdg ==
  ASSUME XdgInv, NEW n \in ClientSize, ResizeStep(n)
  PROVE  XdgInv'
<1> DEFINE geo == [a \in Axis |->
                     [at |-> IF win.contact = "top_left"
                             THEN win.mov_geo[a].at + win.mov_geo[a].len - n
                             ELSE win.mov_geo[a].at,
                      len |-> n]]
           u == [win EXCEPT !.mov_geo = geo]
<1>1. Step(ConfigureGeometry(u, geo))
  BY DEF ResizeStep
<1>2. geo \in Frame
  <2>1. win.mov_geo \in Frame /\ n \in Nat
    BY XdgAssumption, Facts, Fields
  <2> QED
    BY <2>1 DEF Frame
<1> HIDE DEF geo
<1>3. Managed(u, win)
  BY <1>2, Facts, SetMoveIs
<1>4. u.pending = win.pending
  BY Facts DEF Win
<1> HIDE DEF u
<1>5. Good(u, client.committed, events) /\ (u.pending => u.block)
  BY <1>3, <1>4, Facts, ManagedAsked, AlikeIsGood DEF Managed, Keeps
<1>6. /\ Good(ConfigureGeometry(u, geo), client.committed, events)
      /\ ConfigureGeometry(u, geo).pending => ConfigureGeometry(u, geo).block
  BY <1>2, <1>5, Facts, ConfigureIsGood DEF Good
<1> QED
  BY <1>1, <1>6, StepXdg

LEMMA FirstCommitXdg ==
  ASSUME XdgInv, HandleFirstCommit
  PROVE  XdgInv'
<1> DEFINE m == UpdateMaximized(win, win.max_mode)
           b == win.max_mode = {} /\ ~win.fullscreen
           placed == [m EXCEPT !.must_place = b, !.block = FALSE]
           w == Release(placed)
           c == ConfigureGeometry(w, Unsized(w.cur_frame))
<1>1. Step(IF w.configures = <<>> THEN c ELSE w)
  BY DEF HandleFirstCommit
<1>2. Good(m, client.committed, events)
  BY Facts, Fields, UpdateMaximizedIs, ManagedAsked, AlikeIsGood
<1> HIDE DEF m
<1>3. b \in BOOLEAN
  OBVIOUS
<1> HIDE DEF b
<1>4. /\ placed \in Win
      /\ placed.serial = m.serial /\ placed.sent = m.sent /\ placed.acked = m.acked
      /\ placed.cur_max = m.cur_max /\ placed.cur_full = m.cur_full
      /\ placed.syn_max = m.syn_max /\ placed.syn_full = m.syn_full
      /\ placed.pending = m.pending /\ placed.max_mode = m.max_mode
      /\ placed.fullscreen = m.fullscreen /\ placed.configures = m.configures
  BY <1>2, <1>3 DEF Good, Win
<1> HIDE DEF placed
<1>5. Good(placed, client.committed, events)
  BY <1>2, <1>4, Facts, MovedIsGood
<1>6. Good(w, client.committed, events) /\ (w.pending => w.block)
  BY <1>5, Facts, ReleaseIsGood
<1> HIDE DEF w
<1>7. Good(c, client.committed, events) /\ (c.pending => c.block)
  <2>1. Unsized(w.cur_frame) \in Frame
    BY <1>6, Fields, Frames DEF Good
  <2> QED
    BY <1>6, <2>1, Facts, ConfigureIsGood DEF Good
<1> HIDE DEF c
<1> QED
  BY <1>1, <1>6, <1>7, StepXdg

LEMMA UnmapXdg ==
  ASSUME XdgInv, Unmap
  PROVE  XdgInv'
<1> DEFINE u == [win EXCEPT !.mapped = FALSE, !.contact = "none"]
<1>1. win' = u /\ UNCHANGED <<client, before, unsized, events>>
  BY DEF Unmap
<1>2. Alike(u, win) /\ u.pending = win.pending
  BY Facts DEF Win, Alike, Keeps, Contact
<1> HIDE DEF u
<1>3. Good(u, client.committed, events) /\ (u.pending => u.block)
  BY <1>2, Facts, AlikeIsGood DEF Alike, Keeps
<1> QED
  BY <1>1, <1>3 DEF XdgInv

\* Nothing up to the acknowledged event waits for another acknowledgement.
LEMMA AckXdg ==
  ASSUME XdgInv, NEW k \in 1..Len(win.sent), AckConfigure(k)
  PROVE  XdgInv'
<1> DEFINE n == win.sent[k].serial
           r == LaterConfigures(win.sent, k)
           u == [win EXCEPT !.acked = n, !.sent = r]
<1>0. /\ win \in Win /\ SerialInv(win) /\ ModeInv(win)
      /\ AnswerInv(win, client.committed, events)
  BY Facts DEF Good
<1>1. /\ win.sent \in Seq(Event) /\ win.serial \in Nat /\ win.acked \in Nat
      /\ Serials(win.sent) \subseteq Nat /\ Serials(win.configures) \subseteq Nat
      /\ Ordered(win.sent) /\ win.sent[k] \in Event
      /\ n \in Nat /\ n \in Serials(win.sent)
  BY <1>0, Fields, SerialTypes, ConfigureTypes DEF SerialInv, Serials
<1>2. /\ win' = u /\ client' = [event |-> win.sent[k], committed |-> FALSE]
      /\ before' = before /\ events' = events /\ unsized' = unsized
      /\ "skip" \notin events => k = 1 /\ client.committed
  BY DEF AckConfigure, LaterConfigures
<1>3. r \in Seq(Event) /\ LeftAfter(r, win.sent, k)
  BY <1>1, LaterIs
<1>4. /\ Ordered(r)
      /\ \A m : m \in Serials(r) <=> m \in Serials(win.sent) /\ n < m
  BY <1>3 DEF LeftAfter
<1>5. win.acked < n /\ n <= win.serial
  BY <1>0, <1>1 DEF SerialInv
<1>6. "skip" \notin events => \A m \in Serials(win.sent) : n <= m
  <2> SUFFICES ASSUME "skip" \notin events, NEW m \in Serials(win.sent)
               PROVE  n <= m
    OBVIOUS
  <2>1. k = 1
    BY <1>2
  <2>2. PICK i \in 1..Len(win.sent) : m = win.sent[i].serial
    BY DEF Serials
  <2>3. i = 1 \/ 1 < i
    OBVIOUS
  <2> QED
    BY <1>1, <2>1, <2>2, <2>3 DEF Ordered
<1> HIDE DEF n, r
<1>7. /\ u \in Win /\ u.acked = n /\ u.sent = r /\ u.serial = win.serial
      /\ u.configures = win.configures
      /\ u.cur_max = win.cur_max /\ u.cur_full = win.cur_full
      /\ u.syn_max = win.syn_max /\ u.syn_full = win.syn_full
      /\ u.pending = win.pending /\ u.max_mode = win.max_mode
      /\ u.fullscreen = win.fullscreen /\ u.block = win.block
  BY <1>0, <1>1, <1>3 DEF Win
<1> HIDE DEF u
<1>8. \A m \in Serials(win.configures) : n < m => m \in Serials(r)
  <2> SUFFICES ASSUME NEW m \in Serials(win.configures), n < m
               PROVE  m \in Serials(r)
    OBVIOUS
  <2>1. win.acked < m
    BY <1>1, <1>5
  <2>2. m \in Serials(win.sent)
    BY <1>0, <2>1 DEF SerialInv
  <2> QED
    BY <1>4, <2>2
<1>9. SerialInv(u)
  BY <1>0, <1>1, <1>4, <1>5, <1>7, <1>8 DEF SerialInv
<1>10. AnswerInv(u, FALSE, events)
  <2>1. ASSUME events \cap {"skip"} = {}, NEW m \in Serials(win.configures)
        PROVE  n <= m
    <3>1. "skip" \notin events /\ client.committed
      BY <1>2, <2>1
    <3>2. win.acked < m
      BY <1>0, <2>1, <3>1 DEF AnswerInv
    <3>3. m \in Serials(win.sent)
      BY <1>0, <3>2 DEF SerialInv
    <3> QED
      BY <1>6, <3>1, <3>3
  <2>2. ASSUME events \cap {"activate", "move", "resize"} = {}
        PROVE  Serials(r) \subseteq Serials(win.configures)
               /\ n \in Serials(win.configures)
    BY <1>0, <1>1, <1>4, <2>2 DEF AnswerInv
  <2> QED
    BY <1>7, <2>1, <2>2 DEF AnswerInv
<1>11. ModeInv(u)
  BY <1>0, <1>7 DEF ModeInv
<1>12. /\ client' \in [event : Event, committed : BOOLEAN]
       /\ client'.committed = FALSE
  BY <1>1, <1>2
<1> QED
  BY <1>2, <1>7, <1>9, <1>10, <1>11, <1>12 DEF XdgInv, Good

LEMMA CommitXdg ==
  ASSUME XdgInv, NEW n \in ClientSize, HandleCommit(n)
  PROVE  XdgInv'
<1> DEFINE told == client.event.size
           size == [a \in Axis |->
                      [at |-> 0, len |-> IF told[a].len > 0 /\ ~client.committed
                                         THEN told[a].len ELSE n]]
           applied == ApplyPendingGeometry(win, size)
           placed == Place(applied)
           u == [placed EXCEPT !.mapped = TRUE]
<1>1. /\ win' = u /\ client' = [client EXCEPT !.committed = TRUE]
      /\ before' = before /\ events' = events /\ unsized' = unsized
  BY DEF HandleCommit
<1>2. size \in Frame
  <2>1. told \in Frame /\ n \in Nat
    BY XdgAssumption DEF XdgInv, Event
  <2> QED
    BY <2>1 DEF Frame
<1> HIDE DEF size
<1>3. Good(applied, TRUE, events) /\ (applied.pending => applied.block)
  BY <1>2, Facts, ApplyIsGood
<1> HIDE DEF applied
<1>4. Good(placed, TRUE, events) /\ (placed.pending => placed.block)
  BY <1>3, PlaceIsGood
<1> HIDE DEF placed
<1>5. Alike(u, placed) /\ u.pending = placed.pending
  BY <1>4, SetPlacedIs DEF Good
<1> HIDE DEF u
<1>6. Good(u, TRUE, events) /\ (u.pending => u.block)
  BY <1>4, <1>5, AlikeIsGood DEF Alike, Keeps
<1>7. /\ client' \in [event : Event, committed : BOOLEAN]
      /\ client'.committed = TRUE
  BY <1>1 DEF XdgInv
<1> QED
  BY <1>1, <1>6, <1>7 DEF XdgInv

LEMMA NextXdg ==
  XdgInv /\ [Next]_vars => XdgInv'
<1> SUFFICES ASSUME XdgInv, [Next]_vars PROVE XdgInv'
  OBVIOUS
<1>1. CASE Modes
  BY <1>1, MaximizeRequestXdg, FullscreenRequestXdg, MaximizeOpXdg, FullScreenOpXdg,
     QuickTileXdg, ActiveChangedXdg DEF Modes
<1>2. CASE Dragging
  BY <1>2, StartMoveXdg, MoveStepXdg, StartResizeXdg, ResizeStepXdg, FinishXdg
  DEF Dragging
<1>3. CASE HandleFirstCommit
  BY <1>3, FirstCommitXdg
<1>4. CASE Ack
  BY <1>4, AckXdg DEF Ack
<1>5. CASE Commit
  BY <1>5, CommitXdg DEF Commit
<1>6. CASE Unmap
  BY <1>6, UnmapXdg
<1>7. CASE UNCHANGED vars
  BY <1>7 DEF vars, XdgInv
<1> QED
  BY <1>1, <1>2, <1>3, <1>4, <1>5, <1>6, <1>7 DEF Next

\* The serials of the sent events rise, what waits for an acknowledgement was
\* sent, and the last configure carries the modes asked for.
THEOREM ConfiguresInOrder == Spec => []XdgInv
BY InitXdg, NextXdg, PTL DEF Spec

\* The window, the client and the configures on their way keep their types.
THEOREM XdgTyped == Spec => []TypeOK
<1>1. XdgInv => TypeOK
  BY DEF XdgInv, Good, Win, TypeOK
<1> QED
  BY <1>1, ConfiguresInOrder, PTL

\* Once the client has committed for its last acknowledgement,
\* apply_pending_geometry has removed every configure up to it, whether the
\* client skips events or unrecorded ones are sent, but not both.
THEOREM NoConfigureOverdue == Spec => []NoneOverdue
<1>1. XdgInv => NoneOverdue
  <2> SUFFICES ASSUME XdgInv, Recorded, client.committed,
                      NEW i \in 1..Len(win.configures)
               PROVE  win.configures[i].serial > win.acked
    BY DEF NoneOverdue
  <2>1. win.configures[i].serial \in Nat /\ win.acked \in Nat
    BY Facts, Fields, ConfigureTypes
  <2>2. win.configures[i].serial \in Serials(win.configures)
    BY DEF Serials
  <2>3. win.acked < win.configures[i].serial
    BY <2>2, Facts DEF Good, AnswerInv, Recorded, Without
  <2> QED
    BY <2>1, <2>3
<1> QED
  BY <1>1, ConfiguresInOrder, PTL

\* Once nothing is on its way to the client, the maximised and the full screen
\* mode that are shown are the ones window management asked for last.
THEOREM ModesShown == Spec => []ModesApplied
<1>1. XdgInv => ModesApplied
  BY Facts DEF Good, ModeInv, ModesApplied, Settled
<1> QED
  BY <1>1, ConfiguresInOrder, PTL

-----------------------------------------------------------------------------
(* Where the window is shown.                                              *)

\* The last configure, or else what is shown, has the position asked for.
Aligned(w) ==
  /\ w.configures = <<>> => SamePos(w.cur_frame, w.frame)
  /\ w.configures # <<>> =>
       SamePos(w.configures[Len(w.configures)].frame, w.frame)

\* The client has not committed a buffer yet.
Fresh(w) ==
  /\ w.mapped = FALSE /\ w.contact = "none" /\ w.pending = FALSE
  /\ w.max_mode = {} /\ w.frame = Null /\ w.cur_frame = Null
  /\ Len(w.configures) <= 1

PosInv(w) ==
  /\ Aligned(w)
  /\ w.contact \in {"none", "center"}
  /\ w.contact # "none" => w.mapped = TRUE
  /\ Valid(w.syn_frame) \/ Fresh(w)
  /\ w.block = TRUE => Fresh(w) /\ w.acked = 0

Calm == Without({"client_modes", "repeat", "resize"})

PositionInv == ~unsized /\ Calm => PosInv(win)

LEMMA SamePosition ==
  ASSUME NEW f \in Frame, NEW g \in Frame
  PROVE  /\ SamePos(f, f) /\ SamePos(SizedAs(f, g), f) /\ SamePos(f, SizedAs(f, g))
         /\ SamePos(MovedTo(f, g), g) /\ SamePos(Unsized(f), f)
BY DEF Frame, SamePos, SizedAs, MovedTo, Unsized

\* do_set_geometry shows the window at f and follows its size only.
LEMMA DoSetGeometryShows ==
  ASSUME NEW w \in Win, NEW f \in Frame, NEW u, u = DoSetGeometry(w, f)
  PROVE  /\ u.cur_frame = f /\ SamePos(u.frame, w.frame)
         /\ u.syn_frame = w.syn_frame /\ u.mapped = w.mapped
         /\ u.must_place = w.must_place /\ u.contact = w.contact
<1> DEFINE g == IF w.pending THEN w.frame ELSE SizedAs(w.frame, f)
           v == [w EXCEPT !.cur_frame = f, !.frame = g]
<1>1. u = IF w.cur_frame = f THEN w ELSE v
  BY DEF DoSetGeometry, Win
<1>2. w.frame \in Frame
  BY Fields
<1>3. g \in Frame /\ SamePos(g, w.frame) /\ SamePos(w.frame, w.frame)
  BY <1>2, Frames, SamePosition
<1> HIDE DEF g
<1>4. /\ v.cur_frame = f /\ v.frame = g /\ v.syn_frame = w.syn_frame
      /\ v.mapped = w.mapped /\ v.must_place = w.must_place
      /\ v.contact = w.contact
  BY DEF Win
<1> HIDE DEF v
<1> QED
  BY <1>1, <1>3, <1>4

LEMMA SetPositionAligns ==
  ASSUME NEW w \in Win, NEW u, u = SetPosition(w)
  PROVE  /\ Aligned(u) /\ u.syn_frame = w.syn_frame /\ u.mapped = w.mapped
         /\ u.must_place = w.must_place /\ u.contact = w.contact
         /\ u.block = w.block /\ u.acked = w.acked
<1>0. w.frame \in Frame /\ w.configures \in Seq(Configure)
  BY Fields
<1> DEFINE n == Len(w.configures)
           c == w.configures[n]
           g == MovedTo(c.frame, w.frame)
           d == [c EXCEPT !.frame = g]
           q == [w.configures EXCEPT ![n] = d]
           v == [w EXCEPT !.configures = q]
<1>1. CASE n = 0
  <2>1. u = DoSetGeometry(w, w.frame) /\ w.configures = <<>>
    BY <1>0, <1>1 DEF SetPosition
  <2>2. /\ u.cur_frame = w.frame /\ SamePos(u.frame, w.frame)
        /\ u.syn_frame = w.syn_frame /\ u.mapped = w.mapped
        /\ u.must_place = w.must_place /\ u.contact = w.contact
    BY <1>0, <2>1, DoSetGeometryShows
  <2>3. Alike(u, w)
    BY <1>0, <2>1, DoSetGeometryIs
  <2>4. u.configures = <<>> /\ u.block = w.block /\ u.acked = w.acked
    BY <2>1, <2>3 DEF Alike, Keeps
  <2>5. SamePos(u.cur_frame, u.frame)
    BY <2>2 DEF SamePos
  <2> QED
    BY <2>2, <2>4, <2>5 DEF Aligned
<1>2. CASE n # 0
  <2>1. n \in 1..n /\ n = Len(w.configures) /\ n \in Nat
    BY <1>0, <1>2
  <2>2. c \in Configure /\ c = w.configures[n]
    BY <1>0, <2>1
  <2>3. g \in Frame /\ SamePos(g, w.frame)
    <3>1. c.frame \in Frame
      BY <2>2 DEF Configure
    <3> QED
      BY <1>0, <3>1, Frames, SamePosition
  <2>4. u = v
    BY <1>0, <1>2 DEF SetPosition, Win
  <2> HIDE DEF g, n, c
  <2>5. d \in Configure /\ d.frame = g
    BY <2>2, <2>3 DEF Configure
  <2> HIDE DEF d
  <2>6. q \in Seq(Configure) /\ Len(q) = n /\ q[n] = d /\ q # <<>>
    BY <1>0, <2>1, <2>5
  <2> HIDE DEF q
  <2>7. /\ v.configures = q /\ v.frame = w.frame
        /\ v.syn_frame = w.syn_frame /\ v.mapped = w.mapped
        /\ v.must_place = w.must_place /\ v.contact = w.contact
        /\ v.block = w.block /\ v.acked = w.acked
    BY DEF Win
  <2> HIDE DEF v
  <2> QED
    BY <2>3, <2>4, <2>5, <2>6, <2>7 DEF Aligned
<1> QED
  BY <1>1, <1>2

LEMMA ConfigureAligns ==
  ASSUME NEW w \in Win, NEW f \in Frame, SamePos(f, w.frame),
         NEW u, u = ConfigureGeometry(w, f)
  PROVE  Aligned(u)
<1>1. w.configures \in Seq(Configure)
  BY Fields
<1>2. PICK c \in Configure : /\ u.configures = Append(w.configures, c)
                             /\ c.frame = f /\ u.frame = w.frame
  BY ConfigureGeometryIs, SMTT(30)
<1>3. u.configures # <<>> /\ u.configures[Len(u.configures)] = c
  BY <1>1, <1>2
<1> QED
  BY <1>2, <1>3 DEF Aligned

\* What a released update does to the window.
LEMMA ReleaseAligns ==
  ASSUME NEW w \in Win, NEW u, u = Release(w)
  PROVE  /\ w.pending = TRUE /\ w.block = FALSE => Aligned(u)
         /\ u.mapped = w.mapped /\ u.must_place = w.must_place
         /\ u.contact = w.contact /\ u.block = w.block /\ u.acked = w.acked
         /\ u.syn_frame \in {w.syn_frame, w.frame}
<1> DEFINE v == [w EXCEPT !.pending = FALSE]
<1>1. u = IF w.block \/ ~w.pending THEN w
          ELSE IF NeedsConfigure(v) THEN ConfigureGeometry(v, v.frame)
          ELSE SetPosition(v)
  BY DEF Release
<1>2. /\ v \in Win /\ v.mapped = w.mapped /\ v.must_place = w.must_place
      /\ v.contact = w.contact /\ v.block = w.block /\ v.acked = w.acked
      /\ v.syn_frame = w.syn_frame /\ v.frame = w.frame /\ v.frame \in Frame
  BY DEF Win
<1> HIDE DEF v
<1>3. CASE w.block \/ ~w.pending
  BY <1>1, <1>3
<1>4. CASE ~(w.block \/ ~w.pending) /\ NeedsConfigure(v)
  <2>1. u = ConfigureGeometry(v, v.frame)
    BY <1>1, <1>4
  <2>2. Aligned(u)
    BY <1>2, <2>1, SamePosition, ConfigureAligns
  <2>3. /\ u.mapped = v.mapped /\ u.must_place = v.must_place
        /\ u.contact = v.contact /\ u.block = v.block /\ u.acked = v.acked
        /\ u.syn_frame = v.frame
    BY <1>2, <2>1, ConfigureGeometryIs
  <2> QED
    BY <1>2, <2>2, <2>3
<1>5. CASE ~(w.block \/ ~w.pending) /\ ~NeedsConfigure(v)
  <2>1. u = SetPosition(v)
    BY <1>1, <1>5
  <2> QED
    BY <1>2, <2>1, SetPositionAligns
<1> QED
  BY <1>3, <1>4, <1>5

\* What was asked for of a window that has nothing pending.
LEMMA ReleaseAskedAligns ==
  ASSUME NEW u, NEW w \in Win, Asked(u, w), Aligned(w), w.block = FALSE
  PROVE  /\ Aligned(Release(u)) /\ Release(u).mapped = w.mapped
         /\ Release(u).must_place = w.must_place
         /\ Release(u).contact \in {w.contact, "none"}
         /\ Release(u).block = FALSE
<1>1. /\ u \in Win /\ Keeps(u, w) /\ Stays(u, w) /\ u.block = FALSE
  BY DEF Asked, Keeps
<1>2. /\ Release(u).mapped = w.mapped /\ Release(u).must_place = w.must_place
      /\ Release(u).contact \in {w.contact, "none"} /\ Release(u).block = FALSE
      /\ u.pending = TRUE => Aligned(Release(u))
  BY <1>1, ReleaseAligns DEF Stays
<1>3. CASE u.pending = TRUE
  BY <1>2, <1>3
<1>4. CASE u.pending # TRUE
  <2>1. u.frame = w.frame /\ ~u.pending
    BY <1>1, <1>4, Flags DEF Asked
  <2>2. Release(u) = u
    BY <2>1 DEF Release
  <2>3. Aligned(u)
    BY <1>1, <2>1 DEF Aligned, Keeps, Stays
  <2> QED
    BY <1>2, <2>2, <2>3
<1> QED
  BY <1>3, <1>4

\* A window that is mapped, in the scenarios that PositionInv is about.
LEMMA MappedFacts ==
  ASSUME XdgInv, PosInv(win), win.mapped
  PROVE  /\ Valid(win.syn_frame) /\ win.block = FALSE /\ Aligned(win)
         /\ win.contact \in {"none", "center"}
BY Facts, Flags DEF PosInv, Fresh

LEMMA StepMapped ==
  ASSUME XdgInv, PositionInv, NEW w, Step(w), win.mapped,
         PosInv(win) /\ Calm => /\ Aligned(w) /\ w.mapped = TRUE /\ w.block = FALSE
                                /\ w.contact \in {"none", "center"}
  PROVE  PositionInv'
<1>1. win' = w /\ (~unsized' => ~unsized /\ Valid(w.syn_frame)) /\ events' = events
  BY DEF Step
<1>2. Calm' = Calm
  BY <1>1 DEF Calm, Without
<1> SUFFICES ASSUME ~unsized, Calm, Valid(w.syn_frame) PROVE PosInv(w)
  BY <1>1, <1>2 DEF PositionInv
<1> QED
  BY DEF PositionInv, PosInv

LEMMA StepAskedAligns ==
  ASSUME XdgInv, PositionInv, NEW u, Asked(u, win), Step(Release(u)), win.mapped
  PROVE  PositionInv'
<1>1. win \in Win /\ win.mapped = TRUE
  BY Facts, Flags
<1>2. PosInv(win) => /\ Aligned(Release(u)) /\ Release(u).mapped = TRUE
                     /\ Release(u).contact \in {"none", "center"}
                     /\ Release(u).block = FALSE
  BY <1>1, MappedFacts, ReleaseAskedAligns
<1> QED
  BY <1>2, StepMapped

\* A step of another scenario.
LEMMA StepElsewhere ==
  ASSUME ~Calm, events' = events
  PROVE  PositionInv'
BY DEF PositionInv, Calm, Without

LEMMA ModesPos ==
  ASSUME XdgInv, PositionInv, Modes
  PROVE  PositionInv'
<1>1. ASSUME NEW on \in BOOLEAN,
             HandleMaximizeRequest(on) \/ HandleFullscreenRequest(on)
      PROVE  PositionInv'
  <2>1. ("client_modes" \in events \/ "repeat" \in events) /\ events' = events
    BY <1>1 DEF HandleMaximizeRequest, HandleFullscreenRequest, Can, Step
  <2> QED
    BY <2>1, StepElsewhere DEF Calm, Without
<1>2. ASSUME NEW axes \in SUBSET Axis, MaximizeOp(axes) PROVE PositionInv'
  <2> DEFINE m == IF axes = Axis THEN (IF win.cur_max = Axis THEN {} ELSE Axis)
                  ELSE (win.cur_max \ axes) \cup (axes \ win.cur_max)
  <2>1. Step(Release(UpdateMaximized(win, m))) /\ win.mapped
    BY <1>2 DEF MaximizeOp
  <2>2. m \in SUBSET Axis
    BY Facts, Fields
  <2> HIDE DEF m
  <2> QED
    BY <2>1, <2>2, Facts, UpdateMaximizedIs, ManagedAsked, StepAskedAligns
<1>3. ASSUME FullScreenOp PROVE PositionInv'
  <2>1. Step(Release(UpdateFullscreen(win, ~win.cur_full))) /\ win.mapped
    BY <1>3 DEF FullScreenOp
  <2>2. (~win.cur_full) \in BOOLEAN
    OBVIOUS
  <2> QED
    BY <2>1, <2>2, Facts, UpdateFullscreenIs, StepAskedAligns
<1>4. ASSUME NEW mode \in {"left", "maximize"}, QuickTileWindow(mode)
      PROVE  PositionInv'
  BY <1>4, Facts, SetQuicktileModeIs, ManagedAsked, StepAskedAligns
  DEF QuickTileWindow
<1>5. ASSUME ActiveChanged PROVE PositionInv'
  <2> DEFINE u == SendUnrecorded(win)
  <2>1. Step(u)
    BY <1>5 DEF ActiveChanged
  <2>2. /\ u.configures = win.configures /\ u.acked = win.acked /\ Stays(u, win)
        /\ u.max_mode = win.max_mode /\ u.contact = win.contact
        /\ u.frame = win.frame /\ u.pending = win.pending /\ u.block = win.block
    <3>1. CASE win.block
      BY <3>1 DEF SendUnrecorded, Stays
    <3>2. CASE ~win.block
      <4>1. u = Send(win)
        BY <3>2 DEF SendUnrecorded
      <4> QED
        BY <4>1, Facts, SendIs, ZenonT(30)
    <3> QED
      BY <3>1, <3>2
  <2> HIDE DEF u
  <2>3. PosInv(win) => PosInv(u)
    BY <2>2 DEF PosInv, Aligned, Fresh, Stays
  <2>4. win' = u /\ events' = events /\ (~unsized' => ~unsized)
    BY <2>1 DEF Step
  <2> QED
    BY <2>3, <2>4 DEF PositionInv, Calm, Without
<1> QED
  BY <1>1, <1>2, <1>3, <1>4, <1>5 DEF Modes

LEMMA StartMovePos ==
  ASSUME XdgInv, PositionInv, StartMove
  PROVE  PositionInv'
<1> DEFINE w == Release(EndMoveResize(win))
           plain == w.cur_max # Axis /\ w.quicktiling = "none" /\ ~w.fullscreen
           r == IF plain THEN w.cur_frame ELSE w.restore
           f == w.cur_frame
           u == [w EXCEPT !.contact = "center", !.restore = r,
                          !.mov_init = f, !.mov_geo = f]
           s == SendUnrecorded(u)
<1>0. Asked(EndMoveResize(win), win)
  BY Facts, EndMoveResizeIs, ManagedAsked
<1>1. w \in Win
  BY <1>0, Facts, ReleaseAskedIsGood DEF Good
<1>2. r \in Frame /\ f \in Frame
  BY <1>1, Fields
<1>3. Step(s) /\ win.mapped
  BY <1>1 DEF StartMove, Win
<1>4. PosInv(win) => Aligned(w) /\ w.mapped = TRUE /\ w.block = FALSE
  <2>1. win.mapped = TRUE
    BY <1>3, Facts, Flags
  <2> QED
    BY <1>0, <1>3, <2>1, Facts, MappedFacts, ReleaseAskedAligns
<1> HIDE DEF w, r, f
<1>5. /\ u \in Win /\ u.contact = "center" /\ u.mapped = w.mapped
      /\ u.block = w.block /\ u.configures = w.configures
      /\ u.frame = w.frame /\ u.cur_frame = w.cur_frame
  BY <1>1, <1>2 DEF Win, Contact
<1> HIDE DEF u
<1>6. /\ s.contact = u.contact /\ s.mapped = u.mapped /\ s.block = u.block
      /\ s.configures = u.configures /\ s.frame = u.frame
      /\ s.cur_frame = u.cur_frame
  <2>1. CASE u.block
    BY <2>1 DEF SendUnrecorded
  <2>2. CASE ~u.block
    <3>1. s = Send(u)
      BY <2>2 DEF SendUnrecorded
    <3> QED
      BY <1>5, <3>1, SendIs, ZenonT(30) DEF Stays
  <2> QED
    BY <2>1, <2>2
<1> HIDE DEF s
<1>7. PosInv(win) => /\ Aligned(s) /\ s.mapped = TRUE /\ s.block = FALSE
                     /\ s.contact \in {"none", "center"}
  BY <1>4, <1>5, <1>6 DEF Aligned
<1> QED
  BY <1>3, <1>7, StepMapped

LEMMA MoveStepPos ==
  ASSUME XdgInv, PositionInv, NEW p \in Pos, MoveStep(p)
  PROVE  PositionInv'
<1> DEFINE geo == MovedTo(win.mov_geo, p)
           start == [win EXCEPT !.mov_geo = geo]
           moved == SetFrameGeometry(start, geo)
           untiled == SetQuicktileMode(moved, "none")
           back == IF Valid(win.restore) THEN win.restore ELSE untiled.cur_frame
           again == MovedTo(back, p)
           placed == SetFrame(untiled, again)
           u == [placed EXCEPT !.mov_geo = again]
           end == IF \/ win.cur_full \/ moved.quicktiling = "none"
                     \/ win.cur_frame = moved.frame
                  THEN moved ELSE Release(u)
<1>1. Step(end) /\ win.contact = "center"
  BY DEF MoveStep, IsMove
<1>2. p \in Frame /\ geo \in Frame
  BY XdgAssumption, Facts, Fields, Frames
<1> HIDE DEF geo
<1>3. Managed(start, win)
  BY <1>2, Facts, SetMoveIs
<1> HIDE DEF start
<1>4. Asked(SetFrame(start, geo), win)
  <2>1. Managed(SetFrame(start, geo), start)
    BY <1>2, <1>3, SetFrameIs DEF Managed
  <2> QED
    BY <1>3, <2>1, ManagedTwice, ManagedAsked
<1>5. moved \in Win /\ moved = Release(SetFrame(start, geo))
  BY <1>4, Facts, ReleaseAskedIsGood DEF Good, SetFrameGeometry
<1>6. ASSUME PosInv(win)
      PROVE  /\ Aligned(moved) /\ moved.mapped = TRUE /\ moved.block = FALSE
             /\ moved.contact \in {"none", "center"} /\ win.mapped
  <2>1. win.mapped = TRUE
    BY <1>1, <1>6 DEF PosInv
  <2> QED
    BY <1>4, <1>5, <1>6, <2>1, Facts, MappedFacts, ReleaseAskedAligns
<1> HIDE DEF moved
<1>7. Managed(untiled, moved)
  BY <1>5, SetQuicktileModeIs
<1> HIDE DEF untiled
<1>8. again \in Frame
  <2>1. win.restore \in Frame /\ untiled.cur_frame \in Frame
    BY <1>7, Facts, Fields DEF Managed
  <2> QED
    BY <1>2, <2>1, Frames
<1> HIDE DEF again
<1>9. Managed(placed, untiled)
  BY <1>7, <1>8, SetFrameIs DEF Managed
<1> HIDE DEF placed
<1>10. Managed(u, placed)
  BY <1>8, <1>9, SetMoveIs DEF Managed
<1> HIDE DEF u
<1>11. Asked(u, moved)
  BY <1>7, <1>9, <1>10, ManagedTwice, ManagedAsked
<1>12. PosInv(win) => /\ Aligned(end) /\ end.mapped = TRUE /\ end.block = FALSE
                      /\ end.contact \in {"none", "center"}
  BY <1>5, <1>6, <1>11, ReleaseAskedAligns
<1> HIDE DEF end
<1>13. CASE PosInv(win)
  BY <1>1, <1>6, <1>12, <1>13, StepMapped
<1>14. CASE ~PosInv(win)
  BY <1>1, <1>14 DEF PositionInv, Step, Calm, Without
<1> QED
  BY <1>13, <1>14

LEMMA DraggingPos ==
  ASSUME XdgInv, PositionInv, Dragging
  PROVE  PositionInv'
<1>1. ASSUME NEW c \in {"top_left", "bottom_right"}, StartResize(c)
      PROVE  PositionInv'
  <2>1. "resize" \in events /\ events' = events
    BY <1>1 DEF StartResize, Can, Step
  <2> QED
    BY <2>1, StepElsewhere DEF Calm, Without
<1>2. ASSUME NEW n \in ClientSize, ResizeStep(n) PROVE PositionInv'
  <2>1. "resize" \in events /\ events' = events
    BY <1>2 DEF ResizeStep, Can, Step
  <2> QED
    BY <2>1, StepElsewhere DEF Calm, Without
<1>3. ASSUME NEW cancel \in BOOLEAN, NEW edge \in {"none", "left", "maximize"},
             Finish(cancel, edge)
      PROVE  PositionInv'
  <2>1. /\ win.contact # "none" /\ Step(Release(FinishMoveResize(win, cancel, edge)))
        /\ Asked(FinishMoveResize(win, cancel, edge), win)
    BY <1>3, Facts, FinishMoveResizeIs, ManagedAsked DEF Finish
  <2>2. CASE PosInv(win)
    <3>1. win.mapped
      BY <2>1, <2>2 DEF PosInv
    <3> QED
      BY <2>1, <3>1, StepAskedAligns
  <2>3. CASE ~PosInv(win)
    BY <2>1, <2>3 DEF PositionInv, Step, Calm, Without
  <2> QED
    BY <2>2, <2>3
<1> QED
  BY <1>1, <1>2, <1>3, StartMovePos, MoveStepPos DEF Dragging

\* A commit shows the window at the position of its configure.
LEMMA ApplyAligns ==
  ASSUME NEW committed \in BOOLEAN, NEW E, NEW w, Good(w, committed, E), PosInv(w),
         w.block = FALSE, NEW size \in Frame, Valid(size),
         NEW end, end = ApplyPendingGeometry(w, size)
  PROVE  /\ Aligned(end) /\ Valid(end.syn_frame) /\ Valid(end.cur_frame)
         /\ end.contact = w.contact /\ end.block = FALSE
<1> DEFINE match == Matching(w) # {}
           i == CHOOSE i \in Matching(w) : TRUE
           from == IF match THEN w.configures[i].frame ELSE w.cur_frame
           f == SizedAs(from, size)
           first == IF Valid(w.syn_frame) THEN w
                    ELSE [w EXCEPT !.syn_frame = size, !.frame = f]
           rest == IF match THEN LaterConfigures(w.configures, i) ELSE w.configures
           u == [first EXCEPT !.configures = rest]
           shown == DoSetGeometry(u, f)
           applied == [shown EXCEPT !.cur_max = w.configures[i].max,
                                    !.cur_full = w.configures[i].full]
           last(q) == q[Len(q)]
<1>0. /\ w \in Win /\ w.cur_frame \in Frame /\ w.frame \in Frame
      /\ w.configures \in Seq(Configure) /\ w.syn_frame \in Frame
      /\ w.acked \in Nat /\ ~IsResize(w) /\ SerialInv(w)
  BY Fields DEF Good, PosInv, IsResize
<1>1. end = IF f = w.cur_frame /\ ~match THEN w ELSE IF match THEN applied ELSE shown
  BY <1>0 DEF ApplyPendingGeometry
<1>2. match => /\ i \in 1..Len(w.configures) /\ w.configures[i].serial = w.acked
               /\ w.configures[i] \in Configure
  <2>1. match => i \in Matching(w)
    OBVIOUS
  <2>2. \A j \in Matching(w) : j \in 1..Len(w.configures)
                               /\ w.configures[j].serial = w.acked
    BY DEF Matching
  <2> QED
    BY <1>0, <2>1, <2>2, ConfigureTypes
<1> HIDE DEF i
<1>3. from \in Frame
  BY <1>0, <1>2 DEF Configure
<1>4. match => LeftAfter(rest, w.configures, i)
  BY <1>0, <1>2, SerialTypes, LaterIs DEF SerialInv
<1>5. rest \in Seq(Configure)
  BY <1>0, <1>2 DEF LaterConfigures
<1>6. rest = <<>> => SamePos(from, w.frame)
  <2>1. CASE match
    BY <1>0, <1>2, <1>4, <2>1 DEF LeftAfter, PosInv, Aligned
  <2>2. CASE ~match
    BY <2>2 DEF PosInv, Aligned
  <2> QED
    BY <2>1, <2>2
<1>7. rest # <<>> => SamePos(last(rest).frame, w.frame)
  <2>1. CASE match
    BY <1>4, <2>1 DEF LeftAfter, PosInv, Aligned
  <2>2. CASE ~match
    BY <2>2 DEF PosInv, Aligned
  <2> QED
    BY <2>1, <2>2
<1>8. Fresh(w) => SamePos(from, w.frame)
  <2> SUFFICES ASSUME Fresh(w) PROVE SamePos(from, w.frame)
    OBVIOUS
  <2>1. CASE match
    <3>1. i = Len(w.configures) /\ w.configures # <<>>
      BY <1>0, <1>2, <2>1 DEF Fresh
    <3> QED
      BY <2>1, <3>1 DEF PosInv, Aligned
  <2>2. CASE ~match
    BY <2>2, Constants, SamePosition DEF Fresh
  <2> QED
    BY <2>1, <2>2
<1> HIDE DEF match, from, rest
<1>9. f \in Frame /\ SamePos(f, from) /\ Valid(f)
  <2>1. Valid(f)
    BY <1>3 DEF Valid, SizedAs
  <2> QED
    BY <1>3, <2>1, Frames, SamePosition
<1> HIDE DEF f
<1>10. /\ first \in Win /\ SamePos(first.frame, w.frame) /\ Valid(first.syn_frame)
       /\ first.contact = w.contact /\ first.block = w.block
  <2>1. CASE Valid(w.syn_frame)
    BY <1>0, <2>1, SamePosition
  <2>2. CASE ~Valid(w.syn_frame)
    <3>1. first \in Win /\ first.frame = f /\ first.syn_frame = size
          /\ first.contact = w.contact /\ first.block = w.block
      BY <1>0, <1>9, <2>2 DEF Win
    <3>2. SamePos(f, w.frame)
      BY <1>8, <1>9, <2>2 DEF PosInv, SamePos
    <3> QED
      BY <3>1, <3>2
  <2> QED
    BY <2>1, <2>2
<1> HIDE DEF first
<1>11. /\ u \in Win /\ u.configures = rest /\ u.frame = first.frame
       /\ u.syn_frame = first.syn_frame /\ u.contact = first.contact
       /\ u.block = first.block
  BY <1>5, <1>10 DEF Win
<1> HIDE DEF u
<1>12. /\ shown \in Win /\ shown.configures = rest /\ shown.cur_frame = f
       /\ SamePos(shown.frame, u.frame) /\ shown.syn_frame = u.syn_frame
       /\ shown.contact = u.contact /\ shown.block = u.block
  <2>1. Alike(shown, u)
    BY <1>9, <1>11, DoSetGeometryIs
  <2>2. /\ shown.cur_frame = f /\ SamePos(shown.frame, u.frame)
        /\ shown.syn_frame = u.syn_frame /\ shown.contact = u.contact
    BY <1>9, <1>11, DoSetGeometryShows
  <2> HIDE DEF shown
  <2> QED
    BY <1>11, <2>1, <2>2 DEF Alike, Keeps
<1> HIDE DEF shown
<1>13. SamePos(shown.frame, w.frame)
  BY <1>10, <1>11, <1>12 DEF SamePos
<1>14. Aligned(shown)
  <2>1. rest = <<>> => SamePos(f, shown.frame)
    BY <1>6, <1>9, <1>13 DEF SamePos
  <2>2. rest # <<>> => SamePos(last(rest).frame, shown.frame)
    BY <1>7, <1>13 DEF SamePos
  <2> QED
    BY <1>12, <2>1, <2>2 DEF Aligned
<1>15. CASE f = w.cur_frame /\ ~match
  <2>1. ~Fresh(w)
    BY <1>9, <1>15 DEF Fresh, Null, Valid, Axis
  <2> QED
    BY <1>1, <1>9, <1>15, <2>1 DEF PosInv
<1>16. CASE match
  <2>1. /\ applied.configures = shown.configures /\ applied.frame = shown.frame
        /\ applied.cur_frame = shown.cur_frame
        /\ applied.syn_frame = shown.syn_frame
        /\ applied.contact = shown.contact /\ applied.block = shown.block
    BY <1>12 DEF Win
  <2> HIDE DEF applied
  <2> QED
    BY <1>1, <1>9, <1>10, <1>11, <1>12, <1>14, <1>16, <2>1 DEF Aligned
<1>17. CASE ~match /\ f # w.cur_frame
  BY <1>1, <1>9, <1>10, <1>11, <1>12, <1>14, <1>17
<1> QED
  BY <1>15, <1>16, <1>17

LEMMA PlaceAligns ==
  ASSUME NEW w \in Win, Aligned(w), Valid(w.syn_frame), Valid(w.cur_frame),
         w.block = FALSE, NEW end, end = Place(w)
  PROVE  /\ Aligned(end) /\ Valid(end.syn_frame)
         /\ end.contact = w.contact /\ end.block = FALSE
<1> DEFINE u == [w EXCEPT !.must_place = FALSE]
           f == MovedTo(w.cur_frame, Placed)
           v == SetFrame(u, f)
<1>1. end = IF w.must_place /\ ~SamePos(w.cur_frame, Placed) THEN Release(v) ELSE u
  BY DEF Place, SetFrameGeometry
<1>2. f \in Frame /\ Valid(f)
  <2>1. w.cur_frame \in Frame /\ Placed \in Frame
    BY Fields, Constants
  <2>2. Valid(f)
    BY <2>1 DEF Valid, MovedTo
  <2> QED
    BY <2>1, <2>2, Frames
<1> HIDE DEF f
<1>3. /\ u \in Win /\ u.configures = w.configures /\ u.frame = w.frame
      /\ u.cur_frame = w.cur_frame /\ u.syn_frame = w.syn_frame
      /\ u.contact = w.contact /\ u.block = w.block
  BY DEF Win
<1> HIDE DEF u
<1>4. /\ v \in Win /\ v.pending = TRUE /\ v.block = FALSE /\ v.frame = f
      /\ v.syn_frame = w.syn_frame /\ v.contact = w.contact
  BY <1>2, <1>3 DEF Win, SetFrame
<1> HIDE DEF v
<1>5. /\ Aligned(Release(v)) /\ Release(v).contact = w.contact
      /\ Release(v).block = FALSE /\ Release(v).syn_frame \in {w.syn_frame, f}
  BY <1>4, ReleaseAligns
<1>6. Aligned(u)
  BY <1>3 DEF Aligned
<1> QED
  BY <1>1, <1>2, <1>3, <1>5, <1>6

LEMMA CommitPos ==
  ASSUME XdgInv, PositionInv, NEW n \in ClientSize, HandleCommit(n)
  PROVE  PositionInv'
<1> DEFINE told == client.event.size
           size == [a \in Axis |->
                      [at |-> 0, len |-> IF told[a].len > 0 /\ ~client.committed
                                         THEN told[a].len ELSE n]]
           applied == ApplyPendingGeometry(win, size)
           placed == Place(applied)
           u == [placed EXCEPT !.mapped = TRUE]
<1>1. /\ win' = u /\ events' = events /\ unsized' = unsized /\ win.acked > 0
  BY DEF HandleCommit
<1>2. size \in Frame /\ Valid(size)
  <2>1. told \in Frame /\ n \in Nat /\ n > 0
    BY XdgAssumption DEF XdgInv, Event
  <2> QED
    BY <2>1 DEF Frame, Valid
<1> HIDE DEF size
<1>3. applied \in Win
  BY <1>2, Facts, ApplyIsGood DEF Good
<1>4. placed \in Win
  BY <1>2, Facts, ApplyIsGood, PlaceIsGood DEF Good
<1> SUFFICES ASSUME PosInv(win) PROVE PosInv(u)
  BY <1>1 DEF PositionInv, Calm, Without
<1>5. win.block = FALSE
  BY <1>1, Facts, Flags DEF PosInv
<1>6. /\ Aligned(applied) /\ Valid(applied.syn_frame) /\ Valid(applied.cur_frame)
      /\ applied.contact = win.contact /\ applied.block = FALSE
  BY <1>2, <1>5, Facts, ApplyAligns
<1> HIDE DEF applied
<1>7. /\ Aligned(placed) /\ Valid(placed.syn_frame)
      /\ placed.contact = win.contact /\ placed.block = FALSE
  BY <1>3, <1>6, PlaceAligns
<1> HIDE DEF placed
<1>8. /\ u.configures = placed.configures /\ u.frame = placed.frame
      /\ u.cur_frame = placed.cur_frame /\ u.syn_frame = placed.syn_frame
      /\ u.contact = placed.contact /\ u.block = placed.block /\ u.mapped = TRUE
  BY <1>4 DEF Win
<1> HIDE DEF u
<1> QED
  BY <1>7, <1>8 DEF PosInv, Aligned

LEMMA FirstCommitPos ==
  ASSUME XdgInv, PositionInv, HandleFirstCommit
  PROVE  PositionInv'
<1> DEFINE m == UpdateMaximized(win, win.max_mode)
           b == win.max_mode = {} /\ ~win.fullscreen
           w == [m EXCEPT !.must_place = b, !.block = FALSE]
           c == ConfigureGeometry(w, Unsized(w.cur_frame))
           end == IF Release(w).configures = <<>>
                  THEN ConfigureGeometry(Release(w), Unsized(Release(w).cur_frame))
                  ELSE Release(w)
<1>1. Step(end) /\ win.block
  BY DEF HandleFirstCommit
<1>2. win' = end /\ events' = events /\ (~unsized' => ~unsized)
  BY <1>1 DEF Step
<1> SUFFICES ASSUME PosInv(win) PROVE PosInv(end)
  BY <1>2 DEF PositionInv, Calm, Without
<1>3. Fresh(win) /\ win.acked = 0 /\ Aligned(win) /\ win \in Win
  BY <1>1, Facts, Flags DEF PosInv
<1>4. m = win
  BY <1>3 DEF UpdateMaximized, Fresh
<1>5. b \in BOOLEAN
  OBVIOUS
<1> HIDE DEF b, m
<1>6. /\ w \in Win /\ w.block = FALSE /\ w.configures = win.configures
      /\ w.frame = win.frame /\ w.cur_frame = win.cur_frame /\ w.acked = win.acked
      /\ w.syn_frame = win.syn_frame /\ w.contact = win.contact
      /\ w.mapped = win.mapped /\ w.pending = win.pending
      /\ w.max_mode = win.max_mode
  BY <1>3, <1>4, <1>5 DEF Win
<1> HIDE DEF w
<1>7. Release(w) = w /\ Fresh(w) /\ Aligned(w)
  BY <1>3, <1>6 DEF Release, Fresh, Aligned
<1>8. PosInv(w)
  BY <1>6, <1>7 DEF PosInv, Fresh
<1>9. CASE w.configures = <<>>
  <2>0. end = c
    BY <1>7, <1>9
  <2>1. Null \in Frame /\ Unsized(w.cur_frame) \in Frame
        /\ SamePos(Unsized(w.cur_frame), w.frame)
    BY <1>7, Constants, Frames, SamePosition DEF Fresh
  <2>2. Aligned(c)
    BY <1>6, <2>1, ConfigureAligns
  <2> DEFINE z == Unsized(w.cur_frame)
  <2>6. w \in Win /\ z \in Frame /\ c = ConfigureGeometry(w, z)
    BY <1>6, <2>1
  <2> HIDE DEF c, z
  <2>3. /\ Len(c.configures) = Len(w.configures) + 1
        /\ c.frame = w.frame /\ c.cur_frame = w.cur_frame
        /\ c.contact = w.contact /\ c.mapped = w.mapped /\ c.block = w.block
        /\ c.pending = w.pending /\ c.max_mode = w.max_mode
    BY <2>6, ConfigureAdds
  <2>4. Len(c.configures) <= 1
    BY <1>9, <2>3
  <2>5. PosInv(c)
    BY <1>6, <1>7, <2>2, <2>3, <2>4 DEF PosInv, Fresh
  <2> QED
    BY <2>0, <2>5
<1>10. CASE w.configures # <<>>
  BY <1>7, <1>8, <1>10
<1> QED
  BY <1>9, <1>10

LEMMA AckPos ==
  ASSUME XdgInv, PositionInv, NEW k \in 1..Len(win.sent), AckConfigure(k)
  PROVE  PositionInv'
<1> DEFINE n == win.sent[k].serial
           r == SubSeq(win.sent, k + 1, Len(win.sent))
           u == [win EXCEPT !.acked = n, !.sent = r]
<1>1. win' = u /\ events' = events /\ unsized' = unsized /\ ~win.block
  BY DEF AckConfigure
<1> HIDE DEF n, r
<1>2. /\ u.configures = win.configures /\ u.frame = win.frame
      /\ u.cur_frame = win.cur_frame /\ u.syn_frame = win.syn_frame
      /\ u.contact = win.contact /\ u.mapped = win.mapped
      /\ u.block = win.block /\ u.pending = win.pending
      /\ u.max_mode = win.max_mode
  BY Facts DEF Win
<1> HIDE DEF u
<1>3. PosInv(win) => PosInv(u)
  BY <1>1, <1>2 DEF PosInv, Aligned, Fresh
<1> QED
  BY <1>1, <1>3 DEF PositionInv, Calm, Without

LEMMA UnmapPos ==
  ASSUME XdgInv, PositionInv, Unmap
  PROVE  PositionInv'
<1> DEFINE u == [win EXCEPT !.mapped = FALSE, !.contact = "none"]
<1>1. win' = u /\ events' = events /\ unsized' = unsized /\ win.mapped
  BY DEF Unmap
<1>2. /\ u.configures = win.configures /\ u.frame = win.frame
      /\ u.cur_frame = win.cur_frame /\ u.syn_frame = win.syn_frame
      /\ u.contact = "none" /\ u.block = win.block
  BY Facts DEF Win
<1> HIDE DEF u
<1>3. PosInv(win) => PosInv(u)
  BY <1>1, <1>2, MappedFacts DEF PosInv, Aligned
<1> QED
  BY <1>1, <1>3 DEF PositionInv, Calm, Without

LEMMA InitPos ==
  Init => PositionInv
<1> SUFFICES ASSUME Init PROVE PosInv(win)
  BY DEF PositionInv
<1>1. /\ win.configures = <<>> /\ win.frame = Null /\ win.cur_frame = Null
      /\ win.contact = "none" /\ win.mapped = FALSE /\ win.pending = FALSE
      /\ win.max_mode = {} /\ win.acked = 0
  BY DEF Init
<1>2. SamePos(Null, Null) /\ Len(<<>>) <= 1
  BY Constants, SamePosition
<1> QED
  BY <1>1, <1>2 DEF PosInv, Aligned, Fresh

LEMMA NextPos ==
  XdgInv /\ PositionInv /\ [Next]_vars => PositionInv'
<1> SUFFICES ASSUME XdgInv, PositionInv, [Next]_vars PROVE PositionInv'
  OBVIOUS
<1>1. CASE Modes
  BY <1>1, ModesPos
<1>2. CASE Dragging
  BY <1>2, DraggingPos
<1>3. CASE HandleFirstCommit
  BY <1>3, FirstCommitPos
<1>4. CASE Ack
  BY <1>4, AckPos DEF Ack
<1>5. CASE Commit
  BY <1>5, CommitPos DEF Commit
<1>6. CASE Unmap
  BY <1>6, UnmapPos
<1>7. CASE UNCHANGED vars
  BY <1>7 DEF vars, PositionInv, Calm, Without
<1> QED
  BY <1>1, <1>2, <1>3, <1>4, <1>5, <1>6, <1>7 DEF Next

\* Once nothing is on its way to the client, the window is shown at the position
\* asked for last: a move is not undone by the commit for an earlier configure.
THEOREM PositionKept == Spec => []PositionApplied
<1>1. PositionInv => PositionApplied
  BY DEF PositionInv, PositionApplied, Settled, Calm, PosInv, Aligned
<1> QED
  BY <1>1, InitPos, NextPos, ConfiguresInOrder, PTL DEF Spec

-----------------------------------------------------------------------------
(* Where a maximised window is shown.                                      *)

\* An update that maximises the window asks for the maximise area.
Fits(w) ==
  w.pending = TRUE /\ w.max_mode = Axis /\ w.fullscreen = FALSE => w.frame = Area

LEMMA AreaMixed ==
  ASSUME NEW f \in Frame
  PROVE  [a \in Axis |-> IF a \in Axis THEN Area[a] ELSE f[a]] = Area
BY AreaAssumption DEF Frame

LEMMA MaximizeRestoreFits ==
  ASSUME NEW w \in Win
  PROVE  MaximizeRestore(w).max_mode = {} /\ Fits(MaximizeRestore(w))
<1> DEFINE final == [a \in Axis |-> IF a \in w.max_mode THEN w.restore[a]
                                                       ELSE w.frame[a]]
           u == SetFrame(w, Rectified(final))
           v == [u EXCEPT !.max_mode = {}]
<1>1. Rectified(final) \in Frame
  BY Fields, MixedFrame, Rectifies, ZenonT(30)
<1>2. MaximizeRestore(w) = SetRestoreGeometry(v, Null)
  BY DEF MaximizeRestore
<1> HIDE DEF final
<1>3. v \in Win /\ v.max_mode = {}
  BY <1>1 DEF SetFrame, Win
<1> HIDE DEF v
<1>4. SetRestoreGeometry(v, Null).max_mode = {}
  BY <1>3 DEF SetRestoreGeometry, Win
<1> QED
  BY <1>2, <1>4 DEF Fits, Axis

LEMMA MaximizeFits ==
  ASSUME NEW w \in Win, NEW mode \in SUBSET Axis
  PROVE  Fits(Maximize(w, mode))
<1> DEFINE f == [a \in Axis |-> IF a \in mode THEN Area[a] ELSE w.frame[a]]
           u == SetFrame(w, f)
           v == [u EXCEPT !.max_mode = mode]
<1>1. f \in Frame /\ w.frame \in Frame
  BY Fields, Constants, MixedFrame
<1>2. mode = Axis => f = Area
  BY <1>1, AreaMixed
<1>3. Maximize(w, mode) = SetRestoreGeometry(v, w.frame)
  BY DEF Maximize
<1> HIDE DEF f
<1>4. v \in Win /\ v.max_mode = mode /\ v.frame = f
  BY <1>1 DEF SetFrame, Win
<1> HIDE DEF v
<1>5. /\ SetRestoreGeometry(v, w.frame).max_mode = mode
      /\ SetRestoreGeometry(v, w.frame).frame = f
  BY <1>4 DEF SetRestoreGeometry, Win
<1> QED
  BY <1>2, <1>3, <1>5 DEF Fits

LEMMA UpdateMaximizedFits ==
  ASSUME NEW w \in Win, NEW mode \in SUBSET Axis
  PROVE  /\ Fits(w) \/ (mode # {} /\ w.fullscreen = FALSE)
              => Fits(UpdateMaximized(w, mode))
         /\ mode = {} /\ w.fullscreen = FALSE => UpdateMaximized(w, mode).max_mode = {}
<1> DEFINE again == [a \in Axis |-> IF a \in mode THEN Area[a] ELSE w.frame[a]]
           from == IF w.max_mode # {} /\ mode # {}
                   THEN [MaximizeRestore(w) EXCEPT !.restore = w.restore] ELSE w
           to == IF mode = {} THEN MaximizeRestore(from) ELSE Maximize(from, mode)
           q == IF mode = Axis THEN "maximize" ELSE "none"
           end == [to EXCEPT !.quicktiling = q]
<1>0. w.fullscreen \in BOOLEAN /\ w.frame \in Frame
  BY Flags, Fields
<1>1. UpdateMaximized(w, mode) =
        CASE w.fullscreen -> w
          [] ~w.fullscreen /\ mode = w.max_mode ->
               IF mode = {} THEN w ELSE SetFrame(w, again)
          [] OTHER -> end
  BY DEF UpdateMaximized
<1>2. mode = w.max_mode => Fits(SetFrame(w, again))
  <2>1. mode = Axis => again = Area
    BY <1>0, AreaMixed
  <2>2. again \in Frame
    BY <1>0, Constants, MixedFrame
  <2> HIDE DEF again
  <2> QED
    BY <2>1, <2>2 DEF Fits, SetFrame, Win
<1> HIDE DEF again
<1>3. from \in Win
  <2>1. MaximizeRestore(w) \in Win /\ w.restore \in Frame
    BY Fields, MaximizeRestoreIs DEF Managed
  <2> QED
    BY <2>1, SetRestoreIs DEF Managed
<1> HIDE DEF from
<1>4. to \in Win /\ Fits(to) /\ (mode = {} => to.max_mode = {})
  BY <1>3, MaximizeRestoreIs, MaximizeIs, MaximizeRestoreFits, MaximizeFits DEF Managed
<1> HIDE DEF to
<1>5. Fits(end) /\ (mode = {} => end.max_mode = {})
  <2>1. q \in {"none", "left", "maximize"}
    OBVIOUS
  <2> HIDE DEF q
  <2>2. /\ end.max_mode = to.max_mode /\ end.pending = to.pending
        /\ end.frame = to.frame /\ end.fullscreen = to.fullscreen
    BY <1>4 DEF Win
  <2> QED
    BY <1>4, <2>2 DEF Fits
<1> HIDE DEF end
<1>6. CASE w.fullscreen
  BY <1>0, <1>1, <1>6
<1>7. CASE ~w.fullscreen /\ mode = w.max_mode
  <2>1. mode = {} => Fits(w)
    BY <1>7 DEF Fits, Axis
  <2> QED
    BY <1>1, <1>2, <1>7, <2>1
<1>8. CASE ~w.fullscreen /\ mode # w.max_mode
  BY <1>1, <1>5, <1>8
<1> QED
  BY <1>6, <1>7, <1>8

LEMMA SetQuicktileModeFits ==
  ASSUME NEW w \in Win, NEW mode \in {"none", "left", "maximize"},
         Fits(w) \/ w.fullscreen = FALSE
  PROVE  Fits(SetQuicktileMode(w, mode))
<1> DEFINE restore == RestoreForTile(w)
           free == [w EXCEPT !.restore = restore, !.quicktiling = "none"]
           maxed == [free EXCEPT !.quicktiling = "maximize"]
           tile(v) == [SetFrame(v, Tile) EXCEPT !.quicktiling = mode,
                                                !.restore = restore]
           unmax == UpdateMaximized(free, {})
           max == [UpdateMaximized(maxed, Axis) EXCEPT !.restore = restore]
           back == [SetFrame(free, restore) EXCEPT !.restore = Null]
<1>0. w.fullscreen \in BOOLEAN
  BY Flags
<1>1. restore \in Frame
  BY Fields DEF RestoreForTile
<1>2. SetQuicktileMode(w, mode) =
        CASE w.fullscreen -> w
          [] ~w.fullscreen /\ mode = "maximize" ->
               IF w.cur_max = Axis THEN unmax ELSE max
          [] ~w.fullscreen /\ mode # "maximize" /\ w.max_mode # {} ->
               IF mode = "none" THEN unmax ELSE tile(unmax)
          [] OTHER ->
               IF mode \in {"none", w.quicktiling} THEN back ELSE tile(free)
  BY DEF SetQuicktileMode
<1> HIDE DEF restore
<1>3. CASE w.fullscreen
  BY <1>0, <1>2, <1>3
<1>4. CASE ~w.fullscreen
  <2>1. /\ free \in Win /\ free.max_mode = w.max_mode /\ free.fullscreen = FALSE
        /\ maxed \in Win /\ maxed.fullscreen = FALSE
    BY <1>0, <1>1, <1>4 DEF Win
  <2> HIDE DEF free, maxed
  <2>2. ASSUME NEW v \in Win, v.max_mode = {} PROVE Fits(tile(v))
    BY <1>1, <2>2, Constants DEF SetFrame, Win, Fits, Axis
  <2>3. unmax \in Win /\ unmax.max_mode = {}
    BY <2>1, UpdateMaximizedIs, UpdateMaximizedFits DEF Managed
  <2>4. Fits(unmax)
    BY <2>3 DEF Fits, Axis
  <2>5. Fits(max)
    <3> DEFINE v == UpdateMaximized(maxed, Axis)
    <3>1. v \in Win /\ Fits(v)
      BY <2>1, UpdateMaximizedIs, UpdateMaximizedFits DEF Managed, Axis
    <3> HIDE DEF v
    <3>2. Fits([v EXCEPT !.restore = restore])
      BY <3>1 DEF Fits, Win
    <3> QED
      BY <3>2 DEF v
  <2>6. w.max_mode = {} => Fits(back)
    <3>1. back.max_mode = w.max_mode
      BY <1>1, <2>1, Constants DEF SetFrame, Win
    <3> QED
      BY <3>1 DEF Fits, Axis
  <2>7. Fits(tile(unmax)) /\ (w.max_mode = {} => Fits(tile(free)))
    BY <2>1, <2>2, <2>3
  <2> HIDE DEF unmax, max, back, tile
  <2>8. CASE mode = "maximize"
    BY <1>2, <1>4, <2>4, <2>5, <2>8
  <2>9. CASE mode # "maximize" /\ w.max_mode # {}
    BY <1>2, <1>4, <2>4, <2>7, <2>9
  <2>10. CASE mode # "maximize" /\ w.max_mode = {}
    BY <1>2, <1>4, <2>6, <2>7, <2>10
  <2> QED
    BY <2>8, <2>9, <2>10
<1> QED
  BY <1>3, <1>4

LEMMA UpdateFullscreenFits ==
  ASSUME NEW w \in Win, NEW full \in BOOLEAN, w.contact = "none", Fits(w)
  PROVE  Fits(UpdateFullscreen(w, full))
<1> DEFINE v == [w EXCEPT !.fullscreen = full]
<1>1. /\ v \in Win /\ v.contact = "none" /\ v.fullscreen = full
  BY DEF Win
<1>2. UpdateFullscreen(w, full) =
        IF w.fullscreen = full THEN w
        ELSE IF full THEN UpdateFullscreenEnable(v) ELSE UpdateFullscreenDisable(v)
  BY <1>1 DEF UpdateFullscreen, EndMoveResize
<1> HIDE DEF v
<1>3. full => Fits(UpdateFullscreenEnable(v))
  BY <1>1, EnableIs DEF Managed, Fits
<1>4. ~full => Fits(UpdateFullscreenDisable(v))
  <2> SUFFICES ASSUME ~full PROVE Fits(UpdateFullscreenDisable(v))
    OBVIOUS
  <2>0. v.fullscreen = FALSE
    BY <1>1
  <2>1. CASE v.max_mode # {}
    <3>1. UpdateFullscreenDisable(v) = UpdateMaximized(v, v.max_mode)
      BY <2>1 DEF UpdateFullscreenDisable
    <3> QED
      BY <1>1, <2>0, <2>1, <3>1, Fields, UpdateMaximizedFits
  <2>2. CASE v.max_mode = {} /\ v.quicktiling # "none"
    <3> DEFINE x == SetQuicktileMode(v, "none")
               y == SetQuicktileMode(x, v.quicktiling)
               z == [y EXCEPT !.restore = v.restore]
    <3>1. UpdateFullscreenDisable(v) = z
      BY <2>2 DEF UpdateFullscreenDisable
    <3>2. x \in Win /\ x.fullscreen = FALSE
      BY <1>1, <2>0, SetQuicktileModeIs DEF Managed
    <3> HIDE DEF x
    <3>3. y \in Win /\ Fits(y)
      BY <1>1, <3>2, Fields, SetQuicktileModeIs, SetQuicktileModeFits DEF Managed
    <3> HIDE DEF y
    <3>4. Fits(z)
      BY <3>3 DEF Win, Fits
    <3> QED
      BY <3>1, <3>4
  <2>3. CASE v.max_mode = {} /\ v.quicktiling = "none"
    <3> DEFINE x == SetFrame(v, Rectified(v.restore))
               z == [x EXCEPT !.restore = Null]
    <3>1. UpdateFullscreenDisable(v) = z
      BY <2>3 DEF UpdateFullscreenDisable, FullscreenRestoreGeometry
    <3>2. z.max_mode = {}
      BY <1>1, <2>3 DEF SetFrame, Win
    <3> QED
      BY <3>1, <3>2 DEF Fits, Axis
  <2> QED
    BY <2>1, <2>2, <2>3
<1> QED
  BY <1>2, <1>3, <1>4

\* The client is told last that the window is maximised.
Maximized(w) == w.syn_max = Axis /\ w.syn_full = FALSE

TellsArea(e) == e.special = TRUE /\ e.size = SizedAs(Null, Area)

\* Nothing was recorded in the configures q after the event with serial n.
Recent(n, q) == q = <<>> \/ q[Len(q)].serial <= n

\* The maximise area is what was asked for last, what every event since tells
\* the client and, without a configure, what is shown.  The client has
\* acknowledged event a.
Filled(w, a) ==
  /\ w.syn_frame = Area
  /\ w.configures # <<>> => w.configures[Len(w.configures)].frame = Area
  /\ w.configures = <<>> => w.cur_frame = Area
  /\ \A i \in 1..Len(w.sent) :
       Recent(w.sent[i].serial, w.configures) => TellsArea(w.sent[i])
  /\ Recent(a.serial, w.configures) => TellsArea(a)

\* A window that is not dragged: what a commit finds.
Undragged(w, a, committed) ==
  /\ w.contact = "none" /\ Fits(w)
  /\ a.serial = w.acked
  /\ committed = TRUE => w.acked \notin Serials(w.configures)
  /\ w.must_place = TRUE =>
       w.mapped = FALSE /\ w.block = FALSE /\ w.max_mode = {} /\ w.fullscreen = FALSE
  /\ w.block = TRUE => w.acked = 0 /\ w.syn_frame = Null /\ w.mapped = FALSE

FillInv(w, a, committed) ==
  /\ Undragged(w, a, committed)
  /\ w.block = FALSE /\ Maximized(w) => Filled(w, a)

\* A configure of a maximised window asks for the maximise area.
LEMMA ConfigureFills ==
  ASSUME NEW w \in Win, SerialInv(w), NEW f \in Frame, NEW a, a.serial = w.acked,
         w.max_mode = Axis /\ w.fullscreen = FALSE => f = Area,
         NEW u, u = ConfigureGeometry(w, f)
  PROVE  Maximized(u) => Filled(u, a)
<1> SUFFICES ASSUME Maximized(u) PROVE Filled(u, a)
  OBVIOUS
<1>0. /\ w.serial \in Nat /\ w.acked \in Nat /\ w.acked <= w.serial
      /\ w.configures \in Seq(Configure) /\ w.sent \in Seq(Event)
      /\ \A i \in 1..Len(w.sent) : w.sent[i].serial <= w.serial
  BY Fields DEF SerialInv, Serials
<1>1. PICK c \in Configure :
        /\ c.serial = w.serial + 1 /\ c.frame = f
        /\ u.configures = Append(w.configures, c)
  BY ConfigureGeometryIs, SMTT(30)
<1>2. u.syn_max = w.max_mode /\ u.syn_full = w.fullscreen /\ u.syn_frame = f
  BY ConfigureGeometryIs
<1>3. PICK t \in Event :
        /\ u.sent = Append(w.sent, t) /\ t.serial = w.serial + 1
        /\ t.size = SizedAs(Null, f)
        /\ w.max_mode = Axis => t.special = TRUE
  BY ConfigureTells
<1>4. w.max_mode = Axis /\ f = Area /\ TellsArea(t)
  BY <1>2, <1>3 DEF Maximized, TellsArea
<1>5. u.configures # <<>> /\ u.configures[Len(u.configures)] = c
  <2>1. w.configures \in Seq(Configure) /\ u.configures = Append(w.configures, c)
    BY <1>1, Fields
  <2> QED
    BY <2>1
<1>6. \A i \in 1..Len(w.sent) : w.sent[i].serial \in Nat
  BY ConfigureTypes
<1>7. ASSUME NEW i \in 1..Len(u.sent), Recent(u.sent[i].serial, u.configures)
      PROVE  TellsArea(u.sent[i])
  <2>1. Len(u.sent) = Len(w.sent) + 1 /\ Len(w.sent) \in Nat
    BY <1>0, <1>3
  <2>2. CASE i \in 1..Len(w.sent)
    <3>1. u.sent[i] = w.sent[i]
      BY <1>0, <1>3, <2>2
    <3>2. w.serial + 1 <= w.sent[i].serial
      BY <1>1, <1>5, <1>7, <3>1 DEF Recent
    <3> QED
      BY <1>0, <1>6, <2>2, <3>2
  <2>3. CASE i = Len(w.sent) + 1
    BY <1>0, <1>3, <1>4, <2>3
  <2> QED
    BY <2>1, <2>2, <2>3
<1>8. ~Recent(a.serial, u.configures)
  BY <1>0, <1>1, <1>5 DEF Recent
<1> QED
  BY <1>1, <1>2, <1>4, <1>5, <1>7, <1>8 DEF Filled

LEMMA ConfigureUndragged ==
  ASSUME NEW w \in Win, SerialInv(w), NEW f \in Frame, NEW a, NEW committed,
         Undragged(w, a, committed), w.block = TRUE => f = Null,
         NEW u, u = ConfigureGeometry(w, f)
  PROVE  Undragged(u, a, committed)
<1>0. /\ w.serial \in Nat /\ w.acked \in Nat /\ w.acked <= w.serial
      /\ w.configures \in Seq(Configure) /\ Serials(w.configures) \subseteq Nat
      /\ \A n \in Serials(w.configures) : n <= w.serial
      /\ Ordered(w.configures)
  BY Fields, SerialTypes DEF SerialInv
<1>1. PICK c \in Configure :
        /\ c.serial = w.serial + 1 /\ u.configures = Append(w.configures, c)
  BY ConfigureGeometryIs, SMTT(30)
<1>2. /\ u.acked = w.acked /\ u.max_mode = w.max_mode /\ u.fullscreen = w.fullscreen
      /\ u.pending = w.pending /\ u.block = w.block /\ u.mapped = w.mapped
      /\ u.must_place = w.must_place /\ u.contact = w.contact
      /\ u.frame = w.frame /\ u.syn_frame = f
  BY ConfigureGeometryIs
<1>3. c.serial \in Nat /\ \A n \in Serials(w.configures) : n < c.serial
  BY <1>0, <1>1
<1>4. Serials(u.configures) = Serials(w.configures) \cup {c.serial}
  BY <1>0, <1>1, <1>3, AppendIs
<1>5. w.acked # c.serial
  BY <1>0, <1>1
<1>6. Fits(u)
  BY <1>2 DEF Undragged, Fits
<1> QED
  BY <1>2, <1>4, <1>5, <1>6 DEF Undragged

LEMMA SetPositionFills ==
  ASSUME NEW w \in Win, NEW a, NEW u, u = SetPosition(w)
  PROVE  /\ Serials(u.configures) = Serials(w.configures)
         /\ u.max_mode = w.max_mode /\ u.fullscreen = w.fullscreen
         /\ u.syn_max = w.syn_max /\ u.syn_full = w.syn_full
         /\ u.pending = w.pending
         /\ w.frame = Area /\ Filled(w, a) => Filled(u, a)
<1>0. w.frame \in Frame /\ w.configures \in Seq(Configure)
  BY Fields
<1> DEFINE n == Len(w.configures)
           c == w.configures[n]
           g == MovedTo(c.frame, w.frame)
           d == [c EXCEPT !.frame = g]
           q == [w.configures EXCEPT ![n] = d]
           v == [w EXCEPT !.configures = q]
<1>1. CASE n = 0
  <2>1. u = DoSetGeometry(w, w.frame) /\ w.configures = <<>>
    BY <1>0, <1>1 DEF SetPosition
  <2>2. u.cur_frame = w.frame /\ u.syn_frame = w.syn_frame
    BY <1>0, <2>1, DoSetGeometryShows
  <2>3. /\ Alike(u, w) /\ u.max_mode = w.max_mode /\ u.fullscreen = w.fullscreen
        /\ u.pending = w.pending
    BY <1>0, <2>1, DoSetGeometryIs
  <2>4. /\ u.configures = w.configures /\ u.sent = w.sent
        /\ u.syn_max = w.syn_max /\ u.syn_full = w.syn_full
    BY <2>3 DEF Alike, Keeps
  <2> QED
    BY <2>1, <2>2, <2>3, <2>4 DEF Filled
<1>2. CASE n # 0
  <2>1. n \in 1..n /\ n = Len(w.configures) /\ n \in Nat /\ w.configures # <<>>
    BY <1>0, <1>2
  <2>2. c \in Configure /\ c = w.configures[n]
    BY <1>0, <2>1
  <2>3. g \in Frame /\ (c.frame = Area /\ w.frame = Area => g = Area)
    <3>1. c.frame \in Frame
      BY <2>2 DEF Configure
    <3>2. MovedTo(Area, Area) = Area
      BY Constants DEF MovedTo, Frame
    <3> QED
      BY <1>0, <3>1, <3>2, Frames
  <2>4. u = v
    BY <1>0, <1>2 DEF SetPosition, Win
  <2> HIDE DEF g, n, c
  <2>5. d \in Configure /\ d.frame = g /\ d.serial = c.serial
    BY <2>2, <2>3 DEF Configure
  <2> HIDE DEF d
  <2>6. q \in Seq(Configure) /\ Len(q) = n /\ q[n] = d /\ q # <<>>
    BY <1>0, <2>1, <2>5
  <2>7. \A i \in 1..n : q[i].serial = w.configures[i].serial
    BY <1>0, <2>1, <2>2, <2>5
  <2> HIDE DEF q
  <2>8. /\ v.configures = q /\ v.frame = w.frame /\ v.sent = w.sent
        /\ v.syn_frame = w.syn_frame /\ v.pending = w.pending
        /\ v.max_mode = w.max_mode /\ v.fullscreen = w.fullscreen
        /\ v.syn_max = w.syn_max /\ v.syn_full = w.syn_full
    BY <2>6 DEF Win
  <2> HIDE DEF v
  <2>9. Serials(q) = Serials(w.configures)
    BY <2>1, <2>6, <2>7 DEF Serials
  <2>10. \A m : Recent(m, q) <=> Recent(m, w.configures)
    BY <2>1, <2>2, <2>5, <2>6 DEF Recent
  <2>11. w.frame = Area /\ Filled(w, a) => Filled(v, a)
    <3> SUFFICES ASSUME w.frame = Area, Filled(w, a) PROVE Filled(v, a)
      OBVIOUS
    <3>1. q[Len(q)].frame = Area
      BY <2>1, <2>2, <2>3, <2>5, <2>6 DEF Filled
    <3> QED
      BY <2>6, <2>8, <2>10, <3>1 DEF Filled
  <2> QED
    BY <2>4, <2>8, <2>9, <2>11
<1> QED
  BY <1>1, <1>2

\* What the client has been told and shows stays when modes are asked for.
LEMMA AskedFills ==
  ASSUME NEW a, NEW committed, NEW u, NEW w, FillInv(w, a, committed), Asked(u, w),
         Fits(u), w.must_place = FALSE
  PROVE  FillInv(u, a, committed)
<1>1. /\ u.sent = w.sent /\ u.configures = w.configures /\ u.acked = w.acked
      /\ u.block = w.block /\ u.syn_max = w.syn_max /\ u.syn_full = w.syn_full
      /\ u.cur_frame = w.cur_frame /\ u.syn_frame = w.syn_frame
      /\ u.mapped = w.mapped /\ u.must_place = w.must_place
      /\ u.contact \in {w.contact, "none"}
  BY DEF Asked, Keeps, Stays
<1>2. Undragged(u, a, committed)
  BY <1>1 DEF FillInv, Undragged
<1>3. Maximized(u) => Maximized(w)
  BY <1>1 DEF Maximized
<1>4. Filled(w, a) => Filled(u, a)
  BY <1>1 DEF Filled
<1> QED
  BY <1>1, <1>2, <1>3, <1>4 DEF FillInv

LEMMA ReleaseFills ==
  ASSUME NEW a, NEW committed, NEW w \in Win, SerialInv(w), FillInv(w, a, committed),
         NEW u, u = Release(w)
  PROVE  FillInv(u, a, committed) /\ u.must_place = w.must_place
<1> DEFINE v == [w EXCEPT !.pending = FALSE]
<1>0. w.block \in BOOLEAN /\ w.pending \in BOOLEAN /\ w.fullscreen \in BOOLEAN
  BY Flags
<1>1. u = IF w.block \/ ~w.pending THEN w
          ELSE IF NeedsConfigure(v) THEN ConfigureGeometry(v, v.frame)
          ELSE SetPosition(v)
  BY DEF Release
<1>2. /\ v \in Win /\ v.pending = FALSE /\ v.frame = w.frame /\ v.frame \in Frame
      /\ v.serial = w.serial /\ v.sent = w.sent /\ v.acked = w.acked
      /\ v.configures = w.configures /\ v.block = w.block
      /\ v.syn_max = w.syn_max /\ v.syn_full = w.syn_full
      /\ v.cur_frame = w.cur_frame /\ v.syn_frame = w.syn_frame
      /\ v.mapped = w.mapped /\ v.must_place = w.must_place
      /\ v.contact = w.contact
      /\ v.max_mode = w.max_mode /\ v.fullscreen = w.fullscreen
  BY DEF Win
<1> HIDE DEF v
<1>3. SerialInv(v)
  BY <1>2 DEF SerialInv
<1>4. Fits(v)
  BY <1>2 DEF Fits
<1>5. Undragged(v, a, committed)
  BY <1>2, <1>4 DEF FillInv, Undragged
<1>6. CASE w.block \/ ~w.pending
  BY <1>1, <1>6
<1>7. CASE ~(w.block \/ ~w.pending) /\ NeedsConfigure(v)
  <2>1. u = ConfigureGeometry(v, v.frame) /\ v.block = FALSE /\ w.pending = TRUE
    BY <1>0, <1>1, <1>2, <1>7
  <2>2. v.max_mode = Axis /\ v.fullscreen = FALSE => v.frame = Area
    BY <1>2, <2>1 DEF FillInv, Undragged, Fits
  <2>3. a.serial = v.acked
    BY <1>5 DEF Undragged
  <2>4. Maximized(u) => Filled(u, a)
    BY <1>2, <1>3, <2>1, <2>2, <2>3, ConfigureFills
  <2>5. Undragged(u, a, committed)
    BY <1>2, <1>3, <1>5, <2>1, ConfigureUndragged
  <2>6. u.must_place = v.must_place
    BY <1>2, <2>1, ConfigureGeometryIs
  <2> QED
    BY <1>2, <2>4, <2>5, <2>6 DEF FillInv
<1>8. CASE ~(w.block \/ ~w.pending) /\ ~NeedsConfigure(v)
  <2>1. u = SetPosition(v) /\ v.block = FALSE /\ w.pending = TRUE
    BY <1>0, <1>1, <1>2, <1>8
  <2>2. v.max_mode = v.syn_max /\ v.fullscreen = v.syn_full
    BY <1>8 DEF NeedsConfigure
  <2>3. /\ Serials(u.configures) = Serials(v.configures)
        /\ u.max_mode = v.max_mode /\ u.fullscreen = v.fullscreen
        /\ u.syn_max = v.syn_max /\ u.syn_full = v.syn_full
        /\ u.pending = v.pending
        /\ v.frame = Area /\ Filled(v, a) => Filled(u, a)
    BY <1>2, <2>1, SetPositionFills
  <2>4. /\ u.syn_frame = v.syn_frame /\ u.mapped = v.mapped
        /\ u.must_place = v.must_place /\ u.contact = v.contact
        /\ u.block = v.block /\ u.acked = v.acked
    BY <1>2, <2>1, SetPositionAligns
  <2>5. Fits(u)
    BY <1>2, <2>3 DEF Fits
  <2>6. Undragged(u, a, committed)
    BY <1>5, <2>3, <2>4, <2>5 DEF Undragged
  <2>7. Maximized(u) => Filled(v, a) /\ v.frame = Area
    <3> SUFFICES ASSUME Maximized(u) PROVE Filled(v, a) /\ v.frame = Area
      OBVIOUS
    <3>1. v.max_mode = Axis /\ v.fullscreen = FALSE /\ Maximized(w)
      BY <1>2, <2>2, <2>3 DEF Maximized
    <3>2. Filled(w, a) /\ w.frame = Area
      BY <1>2, <2>1, <3>1 DEF FillInv, Undragged, Fits
    <3>3. Filled(v, a)
      BY <1>2, <3>2 DEF Filled
    <3> QED
      BY <1>2, <3>2, <3>3
  <2> QED
    BY <1>2, <2>3, <2>4, <2>6, <2>7 DEF FillInv
<1> QED
  BY <1>6, <1>7, <1>8

\* Scenarios without dragging.
Steady == Without({"early", "move", "resize"})

AreaInv == Steady => FillInv(win, client.event, client.committed)

LEMMA StepFill ==
  ASSUME AreaInv, NEW w, Step(w),
         Steady /\ FillInv(win, client.event, client.committed)
           => FillInv(w, client.event, client.committed)
  PROVE  AreaInv'
<1>1. win' = w /\ client' = client /\ events' = events
  BY DEF Step
<1>2. Steady' = Steady
  BY <1>1 DEF Steady, Without
<1> QED
  BY <1>1, <1>2 DEF AreaInv

\* Modes are asked for before the first commit, or once it is mapped.
LEMMA AskedReleaseFills ==
  ASSUME XdgInv, FillInv(win, client.event, client.committed),
         NEW u, Asked(u, win), Fits(u), win.block \/ win.mapped
  PROVE  FillInv(Release(u), client.event, client.committed)
<1>1. win.must_place = FALSE
  BY Facts, Flags DEF FillInv, Undragged
<1>2. FillInv(u, client.event, client.committed)
  BY <1>1, AskedFills
<1>3. Good(u, client.committed, events)
  BY Facts, AskedAlike, AlikeIsGood
<1>4. u \in Win /\ SerialInv(u)
  BY <1>3 DEF Good
<1> QED
  BY <1>2, <1>4, ReleaseFills

LEMMA MaximizeRequestFill ==
  ASSUME XdgInv, AreaInv, NEW on \in BOOLEAN, HandleMaximizeRequest(on)
  PROVE  AreaInv'
<1> DEFINE a == client.event
           m == IF on THEN Axis ELSE {}
           w == Release(UpdateMaximized(win, m))
           c == ConfigureGeometry(w, w.syn_frame)
           end == IF w.max_mode = win.max_mode THEN c ELSE w
<1>1. Step(end) /\ InTime
  BY DEF HandleMaximizeRequest
<1>2. m \in SUBSET Axis
  OBVIOUS
<1> HIDE DEF m
<1> SUFFICES ASSUME Steady, FillInv(win, a, client.committed)
             PROVE  FillInv(end, a, client.committed)
  BY <1>1, StepFill
<1>3. win.block \/ win.mapped
  BY <1>1 DEF InTime, Steady, Without
<1>4. Asked(UpdateMaximized(win, m), win) /\ Fits(UpdateMaximized(win, m))
  BY <1>2, Facts, UpdateMaximizedIs, ManagedAsked, UpdateMaximizedFits
  DEF FillInv, Undragged
<1>5. FillInv(w, a, client.committed)
  BY <1>3, <1>4, AskedReleaseFills
<1>6. Good(w, client.committed, events) /\ (w.pending => w.block)
  BY <1>4, Facts, ReleaseAskedIsGood
<1> HIDE DEF w
<1>7. /\ w \in Win /\ SerialInv(w) /\ ModeInv(w) /\ w.syn_frame \in Frame
      /\ w.block \in BOOLEAN /\ a.serial = w.acked /\ Undragged(w, a, client.committed)
  BY <1>5, <1>6, Fields, Flags DEF Good, FillInv, Undragged
<1>8. w.block = TRUE => w.syn_frame = Null
  BY <1>7 DEF Undragged
<1>9. Undragged(c, a, client.committed)
  BY <1>7, <1>8, ConfigureUndragged
<1>10. w.block = FALSE => (Maximized(c) => Filled(c, a))
  <2> SUFFICES ASSUME w.block = FALSE PROVE Maximized(c) => Filled(c, a)
    OBVIOUS
  <2>1. w.max_mode = w.syn_max /\ w.fullscreen = w.syn_full
    BY <1>6, <1>7 DEF ModeInv
  <2>2. w.max_mode = Axis /\ w.fullscreen = FALSE => w.syn_frame = Area
    BY <1>5, <2>1 DEF FillInv, Maximized, Filled
  <2> QED
    BY <1>7, <2>2, ConfigureFills
<1>11. c.block = w.block
  BY <1>7, ConfigureGeometryIs
<1> HIDE DEF c
<1> QED
  BY <1>5, <1>9, <1>10, <1>11 DEF FillInv

\* e tells the client the size and the mode of w.
Says(e, w) ==
  /\ e.size = SizedAs(Null, w.syn_frame)
  /\ w.syn_max = Axis => e.special = TRUE

LEMMA SendTells ==
  ASSUME NEW w \in Win, NEW u, u = Send(w)
  PROVE  /\ \E e \in Event :
              u.sent = Append(w.sent, e) /\ Says(e, w)
         /\ u.configures = w.configures /\ u.acked = w.acked
         /\ u.syn_max = w.syn_max /\ u.syn_full = w.syn_full
         /\ u.max_mode = w.max_mode /\ u.fullscreen = w.fullscreen
         /\ u.pending = w.pending /\ u.block = w.block
         /\ Stays(u, w) /\ u.contact = w.contact /\ u.frame = w.frame
<1> DEFINE s == Send(w)
<1>1. PICK e \in Event :
        /\ e.size = SizedAs(Null, w.syn_frame)
        /\ w.syn_max = Axis => e.special = TRUE
        /\ s.sent = Append(w.sent, e)
        /\ s.configures = w.configures /\ s.acked = w.acked
        /\ s.syn_max = w.syn_max /\ s.syn_full = w.syn_full
        /\ s.max_mode = w.max_mode /\ s.fullscreen = w.fullscreen
        /\ s.pending = w.pending /\ s.block = w.block
        /\ Stays(s, w) /\ s.contact = w.contact /\ s.frame = w.frame
  BY SendIs
<1> HIDE DEF s
<1>2. u = s
  BY DEF s
<1> QED
  BY <1>1, <1>2 DEF Says

LEMMA SendFills ==
  ASSUME NEW a, NEW committed, NEW w \in Win, FillInv(w, a, committed),
         w.block = FALSE, NEW u, u = Send(w)
  PROVE  FillInv(u, a, committed)
<1>0. w.sent \in Seq(Event)
  BY Fields
<1>1. PICK e \in Event :
        u.sent = Append(w.sent, e) /\ Says(e, w)
  BY SendTells
<1>2. /\ u.configures = w.configures /\ u.acked = w.acked
      /\ u.syn_max = w.syn_max /\ u.syn_full = w.syn_full
      /\ u.max_mode = w.max_mode /\ u.fullscreen = w.fullscreen
      /\ u.pending = w.pending /\ u.block = w.block
      /\ Stays(u, w) /\ u.contact = w.contact /\ u.frame = w.frame
  BY SendTells
<1>3. Fits(u)
  BY <1>2 DEF FillInv, Undragged, Fits
<1>4. Undragged(u, a, committed)
  BY <1>2, <1>3 DEF FillInv, Undragged, Stays
<1>5. ASSUME Maximized(u) PROVE Filled(u, a)
  <2>1. Filled(w, a) /\ TellsArea(e)
    <3>1. Filled(w, a) /\ w.syn_max = Axis
      BY <1>2, <1>5 DEF FillInv, Maximized
    <3> QED
      BY <1>1, <3>1 DEF Says, Filled, TellsArea
  <2>2. ASSUME NEW i \in 1..Len(u.sent), Recent(u.sent[i].serial, u.configures)
        PROVE  TellsArea(u.sent[i])
    <3>1. Len(u.sent) = Len(w.sent) + 1 /\ Len(w.sent) \in Nat
      BY <1>0, <1>1
    <3>2. CASE i \in 1..Len(w.sent)
      <4>1. u.sent[i] = w.sent[i]
        BY <1>0, <1>1, <3>2
      <4> QED
        BY <1>2, <2>1, <2>2, <3>2, <4>1 DEF Filled
    <3>3. CASE i = Len(w.sent) + 1
      BY <1>0, <1>1, <2>1, <3>3
    <3> QED
      BY <3>1, <3>2, <3>3
  <2> QED
    BY <1>2, <2>1, <2>2 DEF Filled, Stays
<1> QED
  BY <1>4, <1>5 DEF FillInv

LEMMA ModesFill ==
  ASSUME XdgInv, AreaInv, Modes
  PROVE  AreaInv'
<1> DEFINE a == client.event
           Fine == Steady /\ FillInv(win, a, client.committed)
<1>0. win \in Win /\ (FillInv(win, a, client.committed) =>
                        Fits(win) /\ win.contact = "none")
  BY Facts DEF FillInv, Undragged
<1>1. ASSUME NEW u, Asked(u, win), Fine => Fits(u) /\ (win.block \/ win.mapped),
             Step(Release(u))
      PROVE  AreaInv'
  BY <1>1, AskedReleaseFills, StepFill
<1>2. ASSUME NEW on \in BOOLEAN, HandleMaximizeRequest(on) PROVE AreaInv'
  BY <1>2, MaximizeRequestFill
<1>3. ASSUME NEW on \in BOOLEAN, HandleFullscreenRequest(on) PROVE AreaInv'
  <2> DEFINE u == UpdateFullscreen(win, on)
  <2>1. Step(Release(u)) /\ InTime
    BY <1>3 DEF HandleFullscreenRequest
  <2>2. Fine => win.block \/ win.mapped
    BY <2>1 DEF InTime, Steady, Without
  <2>3. Asked(u, win) /\ (Fine => Fits(u))
    BY <1>0, UpdateFullscreenIs, UpdateFullscreenFits
  <2> HIDE DEF u
  <2> QED
    BY <1>1, <2>1, <2>2, <2>3
<1>4. ASSUME NEW axes \in SUBSET Axis, MaximizeOp(axes) PROVE AreaInv'
  <2> DEFINE m == IF axes = Axis THEN (IF win.cur_max = Axis THEN {} ELSE Axis)
                  ELSE (win.cur_max \ axes) \cup (axes \ win.cur_max)
             u == UpdateMaximized(win, m)
  <2>1. Step(Release(u)) /\ win.mapped
    BY <1>4 DEF MaximizeOp
  <2>2. m \in SUBSET Axis
    BY <1>0, Fields
  <2> HIDE DEF m
  <2>3. Asked(u, win) /\ (Fine => Fits(u))
    BY <1>0, <2>2, UpdateMaximizedIs, ManagedAsked, UpdateMaximizedFits
  <2> HIDE DEF u
  <2> QED
    BY <1>1, <2>1, <2>3
<1>5. ASSUME FullScreenOp PROVE AreaInv'
  <2> DEFINE full == ~win.cur_full
             u == UpdateFullscreen(win, full)
  <2>1. Step(Release(u)) /\ win.mapped
    BY <1>5 DEF FullScreenOp
  <2>2. full \in BOOLEAN
    OBVIOUS
  <2> HIDE DEF full
  <2>3. Asked(u, win) /\ (Fine => Fits(u))
    BY <1>0, <2>2, UpdateFullscreenIs, UpdateFullscreenFits
  <2> HIDE DEF u
  <2> QED
    BY <1>1, <2>1, <2>3
<1>6. ASSUME NEW mode \in {"left", "maximize"}, QuickTileWindow(mode) PROVE AreaInv'
  <2> DEFINE u == SetQuicktileMode(win, mode)
  <2>1. Step(Release(u)) /\ win.mapped
    BY <1>6 DEF QuickTileWindow
  <2>2. Asked(u, win) /\ (Fine => Fits(u))
    BY <1>0, SetQuicktileModeIs, ManagedAsked, SetQuicktileModeFits
  <2> HIDE DEF u
  <2> QED
    BY <1>1, <2>1, <2>2
<1>7. ASSUME ActiveChanged PROVE AreaInv'
  <2> DEFINE u == SendUnrecorded(win)
  <2>1. Step(u)
    BY <1>7 DEF ActiveChanged
  <2>2. Fine => FillInv(u, a, client.committed)
    <3>1. CASE win.block
      BY <3>1 DEF SendUnrecorded
    <3>2. CASE ~win.block
      <4>1. u = Send(win) /\ win.block = FALSE
        BY <1>0, <3>2, Flags DEF SendUnrecorded
      <4> QED
        BY <1>0, <4>1, SendFills
    <3> QED
      BY <3>1, <3>2
  <2> HIDE DEF u
  <2> QED
    BY <2>1, <2>2, StepFill
<1> QED
  BY <1>2, <1>3, <1>4, <1>5, <1>6, <1>7 DEF Modes

\* There is no dragging in these scenarios.
LEMMA DraggingFill ==
  ASSUME XdgInv, AreaInv, Dragging
  PROVE  AreaInv'
<1>1. events' = events
  BY DEF Dragging, StartMove, MoveStep, StartResize, ResizeStep, Finish, Step
<1>2. ~Steady \/ win.contact # "none"
  BY DEF Dragging, StartMove, MoveStep, StartResize, ResizeStep, Finish, Can,
         Steady, Without
<1>3. Steady => win.contact = "none"
  BY DEF AreaInv, FillInv, Undragged
<1> QED
  BY <1>1, <1>2, <1>3 DEF AreaInv, Steady, Without

\* The commit for the last configure of a maximised window shows it in the
\* maximise area, and no other commit moves it away from there.
LEMMA ApplyFills ==
  ASSUME NEW committed \in BOOLEAN, NEW E, NEW a \in Event,
         NEW w, Good(w, committed, E), FillInv(w, a, committed),
         w.block = FALSE, w.pending = FALSE, NEW size \in Frame,
         committed = TRUE => a.special = FALSE,
         committed = FALSE /\ TellsArea(a) => SizedAs(Area, size) = Area,
         NEW end, end = ApplyPendingGeometry(w, size)
  PROVE  FillInv(end, a, TRUE) /\ end.block = FALSE
<1> DEFINE match == Matching(w) # {}
           i == CHOOSE i \in Matching(w) : TRUE
           from == IF match THEN w.configures[i].frame ELSE w.cur_frame
           f == SizedAs(from, size)
           first == IF Valid(w.syn_frame) THEN w
                    ELSE [w EXCEPT !.syn_frame = size, !.frame = f]
           rest == IF match THEN LaterConfigures(w.configures, i) ELSE w.configures
           u == [first EXCEPT !.configures = rest]
           shown == DoSetGeometry(u, f)
           applied == [shown EXCEPT !.cur_max = w.configures[i].max,
                                    !.cur_full = w.configures[i].full]
           last(q) == q[Len(q)]
<1>0. /\ w \in Win /\ w.cur_frame \in Frame /\ w.frame \in Frame
      /\ w.configures \in Seq(Configure) /\ w.syn_frame \in Frame
      /\ w.acked \in Nat /\ ~IsResize(w) /\ SerialInv(w)
      /\ Undragged(w, a, committed) /\ a.serial = w.acked
  BY Fields DEF Good, FillInv, Undragged, IsResize
<1>1. end = IF f = w.cur_frame /\ ~match THEN w ELSE IF match THEN applied ELSE shown
  BY <1>0 DEF ApplyPendingGeometry
<1>2. match => /\ i \in 1..Len(w.configures) /\ w.configures[i].serial = w.acked
               /\ w.configures[i] \in Configure
  <2>1. match => i \in Matching(w)
    OBVIOUS
  <2>2. \A j \in Matching(w) : j \in 1..Len(w.configures)
                               /\ w.configures[j].serial = w.acked
    BY DEF Matching
  <2> QED
    BY <1>0, <2>1, <2>2, ConfigureTypes
<1> HIDE DEF i
<1>3. from \in Frame
  BY <1>0, <1>2 DEF Configure
<1>4. match => LeftAfter(rest, w.configures, i)
  BY <1>0, <1>2, SerialTypes, LaterIs DEF SerialInv
<1>5. rest \in Seq(Configure)
  BY <1>0, <1>2 DEF LaterConfigures
<1>6. w.acked \notin Serials(rest)
  <2>1. CASE match
    BY <1>0, <1>2, <1>4, <2>1 DEF LeftAfter
  <2>2. CASE ~match
    BY <1>0, <2>2, MatchingIs
  <2> QED
    BY <2>1, <2>2
<1>7. match => committed = FALSE
  BY <1>0, MatchingIs DEF Undragged
<1>8. Maximized(w) => Filled(w, a)
  BY DEF FillInv
\* The configures run out with the commit for the last one, or had before.
<1>9. ASSUME Maximized(w), rest = <<>>
      PROVE  /\ f = Area /\ TellsArea(a)
             /\ \A j \in 1..Len(w.sent) : TellsArea(w.sent[j])
  <2>1. CASE match
    <3>1. i = Len(w.configures) /\ w.configures # <<>>
      BY <1>0, <1>2, <1>4, <1>9, <2>1 DEF LeftAfter
    <3>2. last(w.configures).serial = w.acked /\ from = last(w.configures).frame
      BY <1>2, <2>1, <3>1
    <3>3. TellsArea(a) /\ from = Area
      BY <1>0, <1>8, <1>9, <3>1, <3>2 DEF Filled, Recent
    <3>4. f = Area
      BY <1>7, <2>1, <3>3
    <3>5. \A j \in 1..Len(w.sent) : w.acked <= w.sent[j].serial
      <4>1. \A n \in Serials(w.sent) : w.acked < n
        BY <1>0 DEF SerialInv
      <4>2. \A j \in 1..Len(w.sent) : w.sent[j].serial \in Serials(w.sent)
        BY DEF Serials
      <4>3. \A j \in 1..Len(w.sent) : w.sent[j].serial \in Nat
        BY <1>0, ConfigureTypes
      <4> QED
        BY <1>0, <4>1, <4>2, <4>3
    <3>6. \A j \in 1..Len(w.sent) : Recent(w.sent[j].serial, w.configures)
      BY <3>2, <3>5 DEF Recent
    <3> QED
      BY <1>8, <1>9, <3>3, <3>4, <3>6 DEF Filled
  <2>2. CASE ~match
    <3>1. w.configures = <<>>
      BY <1>9, <2>2
    <3>2. \A n : Recent(n, w.configures)
      BY <3>1 DEF Recent
    <3>3. /\ TellsArea(a) /\ from = Area
          /\ \A j \in 1..Len(w.sent) : TellsArea(w.sent[j])
      BY <1>8, <1>9, <2>2, <3>1, <3>2 DEF Filled
    <3>4. committed = FALSE
      BY <3>3 DEF TellsArea
    <3> QED
      BY <3>3, <3>4
  <2> QED
    BY <2>1, <2>2
<1>10. ASSUME Maximized(w), rest # <<>>
       PROVE  /\ last(rest).frame = Area
              /\ \A n : Recent(n, rest) => Recent(n, w.configures)
  <2>1. last(rest) = last(w.configures) /\ w.configures # <<>>
    <3>1. CASE match
      BY <1>4, <1>10, <3>1 DEF LeftAfter
    <3>2. CASE ~match
      BY <1>10, <3>2
    <3> QED
      BY <3>1, <3>2
  <2> HIDE DEF rest
  <2> QED
    BY <1>8, <1>10, <2>1 DEF Filled, Recent
<1> HIDE DEF match, from, rest
<1>11. f \in Frame
  BY <1>3, Frames
<1> HIDE DEF f
<1>12. /\ first \in Win /\ first.sent = w.sent /\ first.acked = w.acked
       /\ first.syn_max = w.syn_max /\ first.syn_full = w.syn_full
       /\ first.max_mode = w.max_mode /\ first.fullscreen = w.fullscreen
       /\ first.pending = w.pending /\ first.block = w.block
       /\ first.mapped = w.mapped /\ first.must_place = w.must_place
       /\ first.contact = w.contact
       /\ Valid(w.syn_frame) => first.syn_frame = w.syn_frame
  BY <1>0, <1>11 DEF Win
<1> HIDE DEF first
<1>13. /\ u \in Win /\ u.configures = rest
       /\ u.sent = w.sent /\ u.acked = w.acked
       /\ u.syn_max = w.syn_max /\ u.syn_full = w.syn_full
       /\ u.max_mode = w.max_mode /\ u.fullscreen = w.fullscreen
       /\ u.pending = w.pending /\ u.block = w.block
       /\ u.mapped = w.mapped /\ u.must_place = w.must_place
       /\ u.contact = w.contact /\ u.syn_frame = first.syn_frame
  BY <1>5, <1>12 DEF Win
<1> HIDE DEF u
<1>14. /\ shown \in Win /\ shown.configures = rest /\ shown.cur_frame = f
       /\ shown.sent = w.sent /\ shown.acked = w.acked
       /\ shown.syn_max = w.syn_max /\ shown.syn_full = w.syn_full
       /\ shown.max_mode = w.max_mode /\ shown.fullscreen = w.fullscreen
       /\ shown.pending = w.pending /\ shown.block = w.block
       /\ shown.mapped = w.mapped /\ shown.must_place = w.must_place
       /\ shown.contact = w.contact /\ shown.syn_frame = first.syn_frame
  <2>1. /\ Alike(shown, u) /\ shown.pending = u.pending
        /\ shown.max_mode = u.max_mode /\ shown.fullscreen = u.fullscreen
    BY <1>11, <1>13, DoSetGeometryIs
  <2>2. /\ shown.cur_frame = f /\ shown.syn_frame = u.syn_frame
        /\ shown.mapped = u.mapped /\ shown.must_place = u.must_place
        /\ shown.contact = u.contact
    BY <1>11, <1>13, DoSetGeometryShows
  <2> HIDE DEF shown
  <2> QED
    BY <1>13, <2>1, <2>2 DEF Alike, Keeps
<1> HIDE DEF shown
<1>15. /\ applied.configures = rest /\ applied.cur_frame = f
       /\ applied.sent = w.sent /\ applied.acked = w.acked
       /\ applied.syn_max = w.syn_max /\ applied.syn_full = w.syn_full
       /\ applied.max_mode = w.max_mode /\ applied.fullscreen = w.fullscreen
       /\ applied.pending = w.pending /\ applied.block = w.block
       /\ applied.mapped = w.mapped /\ applied.must_place = w.must_place
       /\ applied.contact = w.contact /\ applied.syn_frame = first.syn_frame
  BY <1>14 DEF Win
<1> HIDE DEF applied
<1>16. ASSUME NEW x, x.configures = rest, x.cur_frame = f, x.sent = w.sent,
              x.acked = w.acked, x.syn_max = w.syn_max, x.syn_full = w.syn_full,
              x.max_mode = w.max_mode, x.fullscreen = w.fullscreen,
              x.pending = w.pending, x.block = w.block, x.mapped = w.mapped,
              x.must_place = w.must_place, x.contact = w.contact,
              x.syn_frame = first.syn_frame
       PROVE  FillInv(x, a, TRUE)
  <2>1. Fits(x)
    BY <1>16 DEF Fits
  <2>2. Undragged(x, a, TRUE)
    BY <1>0, <1>6, <1>16, <2>1 DEF Undragged
  <2>3. ASSUME Maximized(x) PROVE Filled(x, a)
    <3>1. Maximized(w)
      BY <1>16, <2>3 DEF Maximized
    <3>2. x.syn_frame = Area
      BY <1>8, <1>12, <1>16, <3>1, AreaAssumption DEF Filled
    <3>3. CASE rest = <<>>
      BY <1>9, <1>16, <3>1, <3>2, <3>3 DEF Filled
    <3>4. CASE rest # <<>>
      BY <1>8, <1>10, <1>16, <3>1, <3>2, <3>4 DEF Filled
    <3> QED
      BY <3>3, <3>4
  <2> QED
    BY <2>2, <2>3 DEF FillInv
<1>17. CASE f = w.cur_frame /\ ~match
  <2>1. end = w /\ w.configures = rest
    BY <1>1, <1>17 DEF rest
  <2>2. Undragged(w, a, TRUE)
    BY <1>0, <1>6, <2>1 DEF Undragged
  <2> QED
    BY <1>8, <2>1, <2>2 DEF FillInv
<1>18. CASE match
  BY <1>1, <1>15, <1>16, <1>18
<1>19. CASE ~match /\ f # w.cur_frame
  BY <1>1, <1>14, <1>16, <1>19
<1> QED
  BY <1>17, <1>18, <1>19

LEMMA PlaceFills ==
  ASSUME NEW a, NEW E, NEW w, Good(w, TRUE, E), FillInv(w, a, TRUE),
         w.block = FALSE, NEW end, end = Place(w)
  PROVE  FillInv(end, a, TRUE) /\ end.must_place = FALSE /\ end.block = FALSE
<1> DEFINE u == [w EXCEPT !.must_place = FALSE]
           f == MovedTo(w.cur_frame, Placed)
           v == SetFrame(u, f)
<1>0. w \in Win /\ w.must_place \in BOOLEAN /\ f \in Frame
  BY Fields, Flags, Frames, Constants DEF Good
<1>1. end = IF w.must_place /\ ~SamePos(w.cur_frame, Placed) THEN Release(v) ELSE u
  BY DEF Place, SetFrameGeometry
<1> HIDE DEF f
<1>2. /\ u \in Win /\ u.configures = w.configures /\ u.frame = w.frame
      /\ u.sent = w.sent /\ u.acked = w.acked
      /\ u.syn_max = w.syn_max /\ u.syn_full = w.syn_full
      /\ u.max_mode = w.max_mode /\ u.fullscreen = w.fullscreen
      /\ u.cur_frame = w.cur_frame /\ u.syn_frame = w.syn_frame
      /\ u.contact = w.contact /\ u.block = w.block /\ u.mapped = w.mapped
      /\ u.pending = w.pending /\ u.must_place = FALSE /\ u.serial = w.serial
  BY <1>0 DEF Win
<1> HIDE DEF u
<1>3. FillInv(u, a, TRUE)
  <2>1. Fits(u)
    BY <1>2 DEF Fits, FillInv, Undragged
  <2>2. Undragged(u, a, TRUE)
    BY <1>2, <2>1 DEF FillInv, Undragged
  <2>3. Filled(w, a) => Filled(u, a)
    BY <1>2 DEF Filled
  <2> QED
    BY <1>2, <2>2, <2>3 DEF FillInv, Maximized
<1>4. CASE w.must_place /\ ~SamePos(w.cur_frame, Placed)
  <2>1. Asked(v, u) /\ v \in Win /\ v.max_mode = u.max_mode
    BY <1>0, <1>2, SetFrameIs, ManagedAsked, ZenonT(30) DEF Managed
  <2>2. v.serial = w.serial /\ v.sent = w.sent /\ v.acked = w.acked
        /\ v.configures = w.configures /\ v.block = u.block
        /\ v.must_place = u.must_place
    BY <1>2, <2>1 DEF Asked, Keeps, Stays
  <2> HIDE DEF v
  <2>3. SerialInv(v)
    BY <2>2 DEF Good, SerialInv
  <2>4. u.max_mode = {}
    BY <1>0, <1>2, <1>4 DEF FillInv, Undragged
  <2>5. Fits(v)
    BY <2>1, <2>4 DEF Fits, Axis
  <2>6. FillInv(v, a, TRUE)
    BY <1>2, <1>3, <2>1, <2>5, AskedFills
  <2>7. /\ FillInv(Release(v), a, TRUE) /\ Release(v).must_place = v.must_place
        /\ Release(v).block = v.block
    BY <2>1, <2>3, <2>6, ReleaseFills, ReleaseAligns
  <2> QED
    BY <1>1, <1>2, <1>4, <2>2, <2>7
<1>5. CASE ~(w.must_place /\ ~SamePos(w.cur_frame, Placed))
  BY <1>1, <1>2, <1>3, <1>5
<1> QED
  BY <1>4, <1>5

LEMMA CommitFill ==
  ASSUME XdgInv, AreaInv, NEW n \in ClientSize, HandleCommit(n)
  PROVE  AreaInv'
<1> DEFINE a == client.event
           told == a.size
           size == [b \in Axis |->
                      [at |-> 0, len |-> IF told[b].len > 0 /\ ~client.committed
                                         THEN told[b].len ELSE n]]
           applied == ApplyPendingGeometry(win, size)
           placed == Place(applied)
           u == [placed EXCEPT !.mapped = TRUE]
<1>0. /\ client \in [event : Event, committed : BOOLEAN] /\ a \in Event
      /\ client.committed \in BOOLEAN /\ told \in Frame /\ n \in Nat
  BY XdgAssumption DEF XdgInv, Event
<1>1. /\ win' = u /\ client' = [client EXCEPT !.committed = TRUE]
      /\ events' = events /\ win.acked > 0
      /\ client.committed => ~a.special
  BY DEF HandleCommit
<1>2. client'.event = a /\ client'.committed = TRUE
  BY <1>0, <1>1
<1> SUFFICES ASSUME FillInv(win, a, client.committed)
             PROVE  FillInv(u, a, TRUE)
  BY <1>1, <1>2 DEF AreaInv, Steady, Without
<1>3. size \in Frame
  BY <1>0 DEF Frame
<1>4. client.committed = FALSE /\ TellsArea(a) => SizedAs(Area, size) = Area
  <2> SUFFICES ASSUME client.committed = FALSE, told = SizedAs(Null, Area)
               PROVE  SizedAs(Area, size) = Area
    BY DEF TellsArea
  <2>1. \A b \in Axis : told[b].len = Area[b].len /\ Area[b].len > 0
    BY AreaAssumption DEF SizedAs, Valid
  <2>2. \A b \in Axis : size[b].len = Area[b].len
    BY <2>1
  <2> HIDE DEF size
  <2>3. Area \in Frame
    BY Constants
  <2> QED
    BY <2>2, <2>3 DEF SizedAs, Frame
<1> HIDE DEF size
<1>5. win.block = FALSE /\ win.pending = FALSE
  BY <1>1, Facts, Flags DEF FillInv, Undragged
<1>6. client.committed = TRUE => a.special = FALSE
  BY <1>0, <1>1 DEF Event
<1>7. FillInv(applied, a, TRUE) /\ applied.block = FALSE
  BY <1>0, <1>3, <1>4, <1>5, <1>6, Facts, ApplyFills, ZenonT(30)
<1>8. Good(applied, TRUE, events) /\ (applied.pending => applied.block)
  BY <1>3, Facts, ApplyIsGood
<1> HIDE DEF applied
<1>9. FillInv(placed, a, TRUE) /\ placed.must_place = FALSE /\ placed.block = FALSE
  BY <1>7, <1>8, PlaceFills
<1>10. placed \in Win
  BY <1>8, PlaceIsGood DEF Good
<1> HIDE DEF placed
<1>11. /\ u.configures = placed.configures /\ u.frame = placed.frame
       /\ u.sent = placed.sent /\ u.acked = placed.acked
       /\ u.syn_max = placed.syn_max /\ u.syn_full = placed.syn_full
       /\ u.max_mode = placed.max_mode /\ u.fullscreen = placed.fullscreen
       /\ u.cur_frame = placed.cur_frame /\ u.syn_frame = placed.syn_frame
       /\ u.contact = placed.contact /\ u.block = placed.block
       /\ u.pending = placed.pending /\ u.must_place = placed.must_place
  BY <1>10 DEF Win
<1> HIDE DEF u
<1>12. Fits(u)
  BY <1>9, <1>11 DEF Fits, FillInv, Undragged
<1>13. Undragged(u, a, TRUE)
  BY <1>9, <1>11, <1>12 DEF FillInv, Undragged
<1>14. Filled(placed, a) => Filled(u, a)
  BY <1>11 DEF Filled
<1> QED
  BY <1>9, <1>11, <1>13, <1>14 DEF FillInv, Maximized

\* The first commit releases what was asked for before it.
LEMMA FirstCommitFill ==
  ASSUME XdgInv, AreaInv, HandleFirstCommit
  PROVE  AreaInv'
<1> DEFINE a == client.event
           m == UpdateMaximized(win, win.max_mode)
           b == win.max_mode = {} /\ ~win.fullscreen
           w == [m EXCEPT !.must_place = b, !.block = FALSE]
           v == [w EXCEPT !.pending = FALSE]
           r == Release(w)
           end == IF r.configures = <<>>
                  THEN ConfigureGeometry(r, Unsized(r.cur_frame)) ELSE r
<1>1. Step(end) /\ win.block
  BY DEF HandleFirstCommit
<1> SUFFICES ASSUME FillInv(win, a, client.committed)
             PROVE  FillInv(end, a, client.committed)
  BY <1>1, StepFill
<1>2. /\ win \in Win /\ win.max_mode \in SUBSET Axis /\ win.block = TRUE
      /\ Undragged(win, a, client.committed) /\ win.fullscreen \in BOOLEAN
  BY <1>1, Facts, Fields, Flags DEF FillInv
<1>3. Managed(m, win) /\ Fits(m) /\ Good(m, client.committed, events)
  BY <1>2, Facts, UpdateMaximizedIs, UpdateMaximizedFits, ManagedAsked, AlikeIsGood
  DEF Undragged
<1>4. b => m.max_mode = {} /\ m.fullscreen = FALSE
  BY <1>2 DEF UpdateMaximized
<1>5. m.pending = FALSE => m.max_mode = {} \/ m.fullscreen = TRUE
  <2>1. CASE win.max_mode = {} \/ win.fullscreen = TRUE
    BY <1>2, <2>1 DEF UpdateMaximized
  <2>2. CASE win.max_mode # {} /\ win.fullscreen = FALSE
    <3> DEFINE g == [c \in Axis |-> IF c \in win.max_mode THEN Area[c]
                                                         ELSE win.frame[c]]
    <3>1. m = SetFrame(win, g)
      BY <2>2 DEF UpdateMaximized
    <3>2. g \in Frame
      BY <1>2, Fields, Constants, MixedFrame
    <3> HIDE DEF g
    <3> QED
      BY <1>2, <3>1, <3>2, SetFrameIs
  <2> QED
    BY <1>2, <2>1, <2>2
<1>6. b \in BOOLEAN
  OBVIOUS
<1> HIDE DEF m, b
<1>7. /\ m \in Win /\ m.acked = win.acked /\ m.configures = win.configures
      /\ m.syn_frame = win.syn_frame /\ m.mapped = win.mapped
      /\ m.contact \in {win.contact, "none"}
  BY <1>3 DEF Managed, Keeps, Stays
<1>8. /\ w \in Win /\ w.block = FALSE /\ w.configures = m.configures
      /\ w.serial = m.serial /\ w.sent = m.sent /\ w.acked = m.acked
      /\ w.syn_max = m.syn_max /\ w.syn_full = m.syn_full
      /\ w.syn_frame = m.syn_frame /\ w.mapped = m.mapped
      /\ w.contact = m.contact /\ w.must_place = b
      /\ w.frame = m.frame /\ w.pending = m.pending
      /\ w.max_mode = m.max_mode /\ w.fullscreen = m.fullscreen
  BY <1>6, <1>7 DEF Win
<1> HIDE DEF w
<1>9. SerialInv(w)
  BY <1>3, <1>8 DEF Good, SerialInv
<1>10. Undragged(w, a, client.committed)
  <2>1. Fits(w)
    BY <1>3, <1>8 DEF Fits
  <2> QED
    BY <1>2, <1>4, <1>7, <1>8, <2>1 DEF Undragged
<1>11. w.syn_frame = Null /\ w.frame \in Frame /\ w.pending \in BOOLEAN
       /\ w.fullscreen \in BOOLEAN /\ a.serial = w.acked
  BY <1>2, <1>7, <1>8, <1>10, Fields, Flags DEF Undragged
<1>12. CASE w.pending = TRUE
  <2>1. /\ v \in Win /\ v.frame = w.frame /\ v.syn_frame = w.syn_frame
        /\ v.serial = w.serial /\ v.sent = w.sent /\ v.acked = w.acked
        /\ v.configures = w.configures /\ v.block = FALSE
        /\ v.max_mode = w.max_mode /\ v.fullscreen = w.fullscreen
        /\ v.mapped = w.mapped /\ v.must_place = w.must_place
        /\ v.contact = w.contact /\ v.pending = FALSE
    BY <1>8 DEF Win
  <2>2. r = IF NeedsConfigure(v) THEN ConfigureGeometry(v, v.frame) ELSE SetPosition(v)
    BY <1>8, <1>12 DEF Release
  <2> HIDE DEF v
  <2>3. NeedsConfigure(v)
    <3>1. ~Valid(v.frame) \/ ~SameSize(v.frame, v.syn_frame)
      BY <1>11, <2>1 DEF Valid, SameSize, Null, Frame, Axis
    <3> QED
      BY <3>1 DEF NeedsConfigure
  <2>4. r = ConfigureGeometry(v, v.frame)
    BY <2>2, <2>3
  <2>5. SerialInv(v)
    BY <1>9, <2>1 DEF SerialInv
  <2>6. Undragged(v, a, client.committed)
    <3>1. Fits(v)
      BY <2>1 DEF Fits
    <3> QED
      BY <1>10, <2>1, <3>1 DEF Undragged
  <2>7. v.max_mode = Axis /\ v.fullscreen = FALSE => v.frame = Area
    BY <1>10, <1>12, <2>1 DEF Undragged, Fits
  <2>8. v.frame \in Frame /\ a.serial = v.acked
    BY <1>11, <2>1
  <2>9. Maximized(r) => Filled(r, a)
    BY <2>1, <2>4, <2>5, <2>7, <2>8, ConfigureFills
  <2>10. Undragged(r, a, client.committed)
    BY <2>1, <2>4, <2>5, <2>6, <2>8, ConfigureUndragged
  <2>11. r.configures # <<>>
    <3> DEFINE c == ConfigureGeometry(v, v.frame)
    <3>1. PICK e \in Configure : c.configures = Append(v.configures, e)
      BY <2>1, <2>8, ConfigureGeometryIs
    <3>2. v.configures \in Seq(Configure)
      BY <2>1, Fields
    <3> HIDE DEF c, r
    <3>3. c.configures # <<>>
      BY <3>1, <3>2
    <3> QED
      BY <2>4, <3>3 DEF c
  <2> QED
    BY <2>9, <2>10, <2>11 DEF FillInv
<1>13. CASE w.pending = FALSE
  <2> DEFINE c == ConfigureGeometry(w, Unsized(w.cur_frame))
  <2>1. r = w
    BY <1>13 DEF Release
  <2>2. w.max_mode = {} \/ w.fullscreen = TRUE
    BY <1>5, <1>8, <1>13
  <2>3. ~Maximized(w)
    <3>1. m.max_mode = m.syn_max /\ m.fullscreen = m.syn_full
      BY <1>3, <1>8, <1>13 DEF Good, ModeInv
    <3> QED
      BY <1>8, <2>2, <3>1 DEF Maximized, Axis
  <2>4. FillInv(w, a, client.committed)
    BY <1>10, <2>3 DEF FillInv
  <2>5. Unsized(w.cur_frame) \in Frame
    BY <1>8, Fields, Frames
  <2>6. w.max_mode = Axis /\ w.fullscreen = FALSE => Unsized(w.cur_frame) = Area
    BY <2>2 DEF Axis
  <2>7. Maximized(c) => Filled(c, a)
    BY <1>8, <1>9, <1>11, <2>5, <2>6, ConfigureFills
  <2>8. Undragged(c, a, client.committed)
    BY <1>8, <1>9, <1>10, <2>5, ConfigureUndragged
  <2>9. FillInv(c, a, client.committed)
    BY <2>7, <2>8 DEF FillInv
  <2> QED
    BY <2>1, <2>4, <2>9
<1> QED
  BY <1>11, <1>12, <1>13

LEMMA AckFill ==
  ASSUME XdgInv, AreaInv, NEW k \in 1..Len(win.sent), AckConfigure(k)
  PROVE  AreaInv'
<1> DEFINE a == client.event
           e == win.sent[k]
           n == e.serial
           r == SubSeq(win.sent, k + 1, Len(win.sent))
           u == [win EXCEPT !.acked = n, !.sent = r]
<1>0. win \in Win /\ win.sent \in Seq(Event) /\ e \in Event /\ n \in Nat
      /\ Len(win.sent) \in Nat
  BY Facts, Fields, ConfigureTypes
<1>1. /\ win' = u /\ client' = [event |-> e, committed |-> FALSE]
      /\ events' = events /\ ~win.block
  BY DEF AckConfigure
<1>2. r \in Seq(Event) /\ Len(r) = Len(win.sent) - k
      /\ \A i \in 1..Len(r) : r[i] = win.sent[i + k]
  BY <1>0
<1>3. client'.event = e /\ client'.committed = FALSE
  BY <1>1
<1> HIDE DEF r, n
<1> SUFFICES ASSUME FillInv(win, a, client.committed) PROVE FillInv(u, e, FALSE)
  BY <1>1, <1>3 DEF AreaInv, Steady, Without
<1>4. /\ u.configures = win.configures /\ u.frame = win.frame
      /\ u.sent = r /\ u.acked = n
      /\ u.syn_max = win.syn_max /\ u.syn_full = win.syn_full
      /\ u.max_mode = win.max_mode /\ u.fullscreen = win.fullscreen
      /\ u.cur_frame = win.cur_frame /\ u.syn_frame = win.syn_frame
      /\ u.contact = win.contact /\ u.block = win.block /\ u.mapped = win.mapped
      /\ u.pending = win.pending /\ u.must_place = win.must_place
  BY <1>0, <1>2 DEF Win
<1> HIDE DEF u
<1>5. win.block = FALSE
  BY <1>0, <1>1, Flags
<1>6. Fits(u)
  BY <1>4 DEF Fits, FillInv, Undragged
<1>7. Undragged(u, e, FALSE)
  BY <1>4, <1>5, <1>6 DEF FillInv, Undragged, n
<1>8. ASSUME Maximized(u) PROVE Filled(u, e)
  <2>1. Filled(win, a)
    BY <1>4, <1>5, <1>8 DEF FillInv, Maximized
  <2>2. \A i \in 1..Len(win.sent) :
          Recent(win.sent[i].serial, win.configures) => TellsArea(win.sent[i])
    BY <2>1 DEF Filled
  <2>3. \A i \in 1..Len(r) : i + k \in 1..Len(win.sent)
    BY <1>0, <1>2
  <2>4. \A i \in 1..Len(r) : Recent(r[i].serial, win.configures) => TellsArea(r[i])
    BY <1>2, <2>2, <2>3
  <2>5. Recent(e.serial, win.configures) => TellsArea(e)
    BY <2>2
  <2> HIDE DEF e
  <2> QED
    BY <1>4, <2>1, <2>4, <2>5 DEF Filled
<1> QED
  BY <1>7, <1>8 DEF FillInv

LEMMA UnmapFill ==
  ASSUME XdgInv, AreaInv, Unmap
  PROVE  AreaInv'
<1> DEFINE a == client.event
           u == [win EXCEPT !.mapped = FALSE, !.contact = "none"]
<1>1. win' = u /\ client' = client /\ events' = events /\ win.mapped
  BY DEF Unmap
<1>2. win \in Win
  BY Facts
<1>3. /\ u.configures = win.configures /\ u.frame = win.frame
      /\ u.sent = win.sent /\ u.acked = win.acked
      /\ u.syn_max = win.syn_max /\ u.syn_full = win.syn_full
      /\ u.max_mode = win.max_mode /\ u.fullscreen = win.fullscreen
      /\ u.cur_frame = win.cur_frame /\ u.syn_frame = win.syn_frame
      /\ u.contact = "none" /\ u.block = win.block /\ u.mapped = FALSE
      /\ u.pending = win.pending /\ u.must_place = win.must_place
  BY <1>2 DEF Win
<1> HIDE DEF u
<1> SUFFICES ASSUME FillInv(win, a, client.committed)
             PROVE  FillInv(u, a, client.committed)
  BY <1>1 DEF AreaInv, Steady, Without
<1>4. Fits(u)
  BY <1>3 DEF Fits, FillInv, Undragged
<1>5. Undragged(u, a, client.committed)
  BY <1>3, <1>4 DEF FillInv, Undragged
<1>6. Filled(win, a) => Filled(u, a)
  BY <1>3 DEF Filled
<1> QED
  BY <1>3, <1>5, <1>6 DEF FillInv, Maximized

LEMMA InitFill ==
  Init => AreaInv
<1> SUFFICES ASSUME Init PROVE FillInv(win, client.event, client.committed)
  BY DEF AreaInv
<1>1. /\ win.configures = <<>> /\ win.contact = "none" /\ win.mapped = FALSE
      /\ win.pending = FALSE /\ win.acked = 0 /\ win.block = TRUE
      /\ win.must_place = FALSE /\ win.syn_frame = Null
      /\ client.event = NoEvent /\ NoEvent.serial = 0
  BY DEF Init, NoEvent
<1>2. Serials(<<>>) = {}
  BY DEF Serials
<1> QED
  BY <1>1, <1>2 DEF FillInv, Undragged, Fits

LEMMA NextFill ==
  XdgInv /\ AreaInv /\ [Next]_vars => AreaInv'
<1> SUFFICES ASSUME XdgInv, AreaInv, [Next]_vars PROVE AreaInv'
  OBVIOUS
<1>1. CASE Modes
  BY <1>1, ModesFill
<1>2. CASE Dragging
  BY <1>2, DraggingFill
<1>3. CASE HandleFirstCommit
  BY <1>3, FirstCommitFill
<1>4. CASE Ack
  BY <1>4, AckFill DEF Ack
<1>5. CASE Commit
  BY <1>5, CommitFill DEF Commit
<1>6. CASE Unmap
  BY <1>6, UnmapFill
<1>7. CASE UNCHANGED vars
  BY <1>7 DEF vars, AreaInv, Steady, Without
<1> QED
  BY <1>1, <1>2, <1>3, <1>4, <1>5, <1>6, <1>7 DEF Next

\* A window that is shown as maximised covers the maximise area, however its
\* requests, acknowledgements and commits were interleaved.
THEOREM MaximizedFillsArea == Spec => []MaximizedFills
<1>1. XdgInv /\ AreaInv => MaximizedFills
  <2> SUFFICES ASSUME XdgInv, AreaInv, Settled, Without({"move", "resize"}),
                      win.cur_max = Axis, ~win.cur_full
               PROVE  win.cur_frame = Area
    BY DEF MaximizedFills
  <2>1. Steady /\ win.mapped /\ win.configures = <<>>
    BY DEF Settled, Steady, Without
  <2>2. FillInv(win, client.event, client.committed) /\ win.block = FALSE
    BY <2>1, Facts, Flags DEF AreaInv, FillInv, Undragged
  <2>3. Maximized(win)
    BY <2>1, Facts, Flags DEF Good, ModeInv, Maximized
  <2> QED
    BY <2>1, <2>2, <2>3 DEF FillInv, Filled
<1> QED
  BY <1>1, InitFill, NextFill, ConfiguresInOrder, PTL DEF Spec

\* What is shown once no configure is on its way to the client is what window
\* management asked for last: modes, position and, when maximised, the area.
THEOREM AskedForIsShown == Spec => []ShownAsAsked
<1>1. ModesApplied /\ PositionApplied /\ MaximizedFills => ShownAsAsked
  BY DEF ShownAsAsked
<1> QED
  BY <1>1, ModesShown, PositionKept, MaximizedFillsArea, PTL

-----------------------------------------------------------------------------
(* Leaving the special modes.                                              *)

\* Every request is one of window management and comes when the last one has
\* been answered; the client keeps to the sizes it is told.
Unhurried ==
  Without({"client_modes", "repeat", "client_size", "move", "resize", "hasty"})

\* The requests are for modes of this kind only.
Only(kind) == events \cap {"maximize", "tile", "fullscreen"} = {kind}

\* Event e tells the client the size of the configure it was sent with, or the
\* one that is shown if it was sent before.
Tells(e, w) ==
  IF w.configures = <<>> THEN SameSize(e.size, w.cur_frame)
  ELSE /\ e.serial <= w.configures[1].serial
       /\ SameSize(e.size, IF e.serial = w.configures[1].serial
                           THEN w.configures[1].frame ELSE w.cur_frame)

\* a is the event the client acknowledged last; it has yet to draw for it unless
\* it has committed.
Telling(w, a, committed) ==
  /\ \A i \in 1..Len(w.sent) : Tells(w.sent[i], w)
  /\ ~committed => a.serial = w.acked /\ Tells(a, w)

\* A new window, before its first commit.
Unborn(w, committed) ==
  /\ w.block = TRUE /\ w.pending = FALSE /\ w.contact = "none" /\ Normal(w)
  /\ w.mapped = FALSE /\ w.restore = Null /\ w.frame = Null /\ w.cur_frame = Null
  /\ w.configures = <<>> /\ w.sent = <<>> /\ w.acked = 0 /\ committed = TRUE

\* After it, the window waits for its client to choose a size.
Young(w, a, committed) ==
  /\ w.block = FALSE /\ w.pending = FALSE /\ w.contact = "none" /\ Normal(w)
  /\ w.mapped = FALSE /\ w.restore = Null /\ w.frame = Null /\ ~Valid(w.syn_frame)
  /\ Len(w.configures) = 1
  /\ \A i \in 1..Len(w.sent) : w.sent[i].serial = w.configures[1].serial
  /\ ~committed => a.serial = w.acked /\ w.acked = w.configures[1].serial
  /\ committed => w.acked = 0

\* From then on at most one configure is on its way.  It has the frame that was
\* asked for; without one, that is shown.
Grown(w, a, committed) ==
  /\ w.block = FALSE /\ w.pending = FALSE /\ w.contact = "none"
  /\ w.must_place = FALSE
  /\ Valid(w.frame) /\ Valid(w.syn_frame) /\ Valid(w.cur_frame)
  /\ SameSize(w.frame, w.syn_frame)
  /\ w.configures = <<>> => w.cur_frame = w.frame
  /\ w.configures # <<>> => Len(w.configures) = 1 /\ w.configures[1].frame = w.frame
  /\ Telling(w, a, committed)

\* The restore geometry is f, the frame that the window had in normal mode.
Remembers(w, f) == w.restore = f /\ Valid(f)

\* The modes and the restore geometry that requests of one kind lead to.  In
\* normal mode a restore geometry may be left over only where it is overwritten.
Shaped(w, f, kind) ==
  /\ ~Normal(w) => Remembers(w, f)
  /\ kind = "maximize" =>
       /\ w.fullscreen = FALSE
       /\ w.quicktiling = IF w.max_mode = Axis THEN "maximize" ELSE "none"
       /\ \A x \in Axis : w.max_mode # {} /\ x \notin w.max_mode =>
                            w.frame[x] = f[x]
  /\ kind = "tile" =>
       /\ w.fullscreen = FALSE /\ w.max_mode \in {{}, Axis}
       /\ w.max_mode = Axis <=> w.quicktiling = "maximize"
       /\ Normal(w) => w.restore = Null
  /\ kind = "fullscreen" =>
       /\ w.max_mode = {} /\ w.quicktiling = "none"
       /\ Normal(w) => w.restore = Null

CalmState(kind) ==
  \/ Unborn(win, client.committed)
  \/ Young(win, client.event, client.committed)
  \/ Grown(win, client.event, client.committed) /\ Shaped(win, before, kind)

\* The inductive invariant of such behaviours.
CalmInv == Unhurried => \A kind : Only(kind) => CalmState(kind)

\* A frame is its position and its size.
LEMMA FramesEqual ==
  ASSUME NEW f \in Frame, NEW g \in Frame
  PROVE  /\ SameSize(f, g) /\ SamePos(f, g) => f = g
         /\ SameSize(f, g) => SizedAs(f, g) = f
         /\ SameSize(SizedAs(f, g), g) /\ SamePos(SizedAs(f, g), f)
         /\ SameSize(SizedAs(Null, f), f)
         /\ SameSize(MovedTo(f, g), f)
         /\ SizedAs(f, f) = f
BY DEF Frame, SameSize, SamePos, SizedAs, MovedTo, Null, Axis

LEMMA SizesEqual ==
  ASSUME NEW f \in Frame, NEW g \in Frame, SameSize(f, g)
  PROVE  /\ SameSize(g, f) /\ (Valid(f) <=> Valid(g))
         /\ \A h \in Frame : SameSize(h, f) <=> SameSize(h, g)
BY DEF SameSize, Valid

\* Telling the client something leaves alone what is kept for later.
LEMMA SendKeeps ==
  ASSUME NEW w \in Win, NEW f \in Frame
  PROVE  /\ Send(w).restore = w.restore /\ Send(w).quicktiling = w.quicktiling
         /\ ConfigureGeometry(w, f).restore = w.restore
         /\ ConfigureGeometry(w, f).quicktiling = w.quicktiling
BY DEF Win, Send, ConfigureGeometry

\* setFrameGeometry of what is asked for, when it is shown at once.
LEMMA DoSetGeometryShown ==
  ASSUME NEW w \in Win, w.pending = FALSE, NEW f \in Frame, SameSize(f, w.frame)
  PROVE  LET u == DoSetGeometry(w, f)
         IN /\ u \in Win /\ u.cur_frame = f /\ u.frame = w.frame
            /\ u.restore = w.restore /\ u.quicktiling = w.quicktiling
            /\ u.max_mode = w.max_mode /\ u.fullscreen = w.fullscreen
            /\ u.pending = FALSE /\ u.block = w.block /\ u.contact = w.contact
            /\ u.must_place = w.must_place /\ u.mapped = w.mapped
            /\ u.configures = w.configures /\ u.sent = w.sent /\ u.acked = w.acked
            /\ u.serial = w.serial /\ u.syn_frame = w.syn_frame
<1>1. w.frame \in Frame
  BY Fields
<1>2. SizedAs(w.frame, f) = w.frame
  BY <1>1, FramesEqual, SizesEqual
<1>3. DoSetGeometry(w, f) = IF w.cur_frame = f THEN w
                            ELSE [w EXCEPT !.cur_frame = f, !.frame = w.frame]
  BY <1>2 DEF DoSetGeometry, Win
<1>4. CASE w.cur_frame = f
  BY <1>3, <1>4
<1>5. CASE w.cur_frame # f
  <2> DEFINE u == [w EXCEPT !.cur_frame = f, !.frame = w.frame]
  <2>1. DoSetGeometry(w, f) = u
    BY <1>3, <1>5
  <2>2. /\ u \in Win /\ u.cur_frame = f /\ u.frame = w.frame
        /\ u.restore = w.restore /\ u.quicktiling = w.quicktiling
        /\ u.max_mode = w.max_mode /\ u.fullscreen = w.fullscreen
        /\ u.pending = FALSE /\ u.block = w.block /\ u.contact = w.contact
        /\ u.must_place = w.must_place /\ u.mapped = w.mapped
        /\ u.configures = w.configures /\ u.sent = w.sent /\ u.acked = w.acked
        /\ u.serial = w.serial /\ u.syn_frame = w.syn_frame
    BY <1>1 DEF Win
  <2> QED
    BY <2>1, <2>2
<1> QED
  BY <1>4, <1>5

\* What an update asks of a window with nothing on its way is on its way, or
\* shown, once the update is released.
LEMMA ReleaseGrown ==
  ASSUME NEW committed \in BOOLEAN, NEW E, NEW w, Good(w, committed, E),
         NEW a \in Event, Grown(w, a, committed), w.configures = <<>>,
         NEW u, Asked(u, w), Valid(u.frame)
  PROVE  LET v == Release(u)
         IN /\ Grown(v, a, committed)
            /\ v.frame = u.frame /\ v.restore = u.restore
            /\ v.quicktiling = u.quicktiling /\ v.max_mode = u.max_mode
            /\ v.fullscreen = u.fullscreen /\ v.mapped = w.mapped
<1> DEFINE o == [u EXCEPT !.pending = FALSE]
<1>0. /\ w \in Win /\ u \in Win /\ u.frame \in Frame /\ w.frame \in Frame
      /\ w.syn_frame \in Frame /\ w.cur_frame \in Frame
      /\ w.serial \in Nat /\ w.acked \in Nat /\ w.sent \in Seq(Event)
  BY Fields DEF Good, Asked
<1>1. /\ u.block = FALSE /\ u.contact = "none" /\ u.must_place = FALSE
      /\ u.mapped = w.mapped /\ u.cur_frame = w.cur_frame
      /\ u.syn_frame = w.syn_frame /\ u.configures = <<>> /\ u.sent = w.sent
      /\ u.serial = w.serial /\ u.acked = w.acked
  BY DEF Grown, Asked, Keeps, Stays
<1>2. /\ \A i \in 1..Len(w.sent) : SameSize(w.sent[i].size, w.cur_frame)
      /\ ~committed => a.serial = w.acked /\ SameSize(a.size, w.cur_frame)
  BY DEF Grown, Telling, Tells
<1>3. /\ Valid(w.cur_frame) /\ Valid(w.syn_frame) /\ SameSize(w.frame, w.syn_frame)
      /\ w.cur_frame = w.frame
  BY DEF Grown
<1>4. CASE u.pending = FALSE
  <2>1. Release(u) = u /\ u.frame = w.frame
    BY <1>1, <1>4 DEF Release, Asked
  <2>2. Grown(u, a, committed)
    BY <1>1, <1>2, <1>3, <1>4, <2>1 DEF Grown, Telling, Tells
  <2> QED
    BY <1>1, <2>1, <2>2
<1>5. CASE u.pending = TRUE
  <2>1. /\ o \in Win /\ o.pending = FALSE /\ o.frame = u.frame
        /\ o.restore = u.restore /\ o.quicktiling = u.quicktiling
        /\ o.max_mode = u.max_mode /\ o.fullscreen = u.fullscreen
        /\ o.block = FALSE /\ o.contact = "none" /\ o.must_place = FALSE
        /\ o.mapped = w.mapped /\ o.cur_frame = w.cur_frame
        /\ o.syn_frame = w.syn_frame /\ o.configures = <<>> /\ o.sent = w.sent
        /\ o.serial = w.serial /\ o.acked = w.acked
    BY <1>0, <1>1 DEF Win
  <2>2. Release(u) = IF NeedsConfigure(o) THEN ConfigureGeometry(o, o.frame)
                     ELSE SetPosition(o)
    BY <1>1, <1>5 DEF Release
  <2> HIDE DEF o
  <2>3. CASE NeedsConfigure(o)
    <3> DEFINE v == ConfigureGeometry(o, o.frame)
    <3>0. o \in Win /\ o.frame \in Frame /\ v = ConfigureGeometry(o, o.frame)
      BY <1>0, <2>1
    <3>3. v.restore = o.restore /\ v.quicktiling = o.quicktiling
      BY <3>0, SendKeeps
    <3> HIDE DEF v
    <3>1. PICK e \in Event, c \in Configure :
            /\ e.serial = o.serial + 1 /\ c.serial = o.serial + 1
            /\ c.max = o.max_mode /\ c.full = o.fullscreen /\ c.frame = o.frame
            /\ v \in Win /\ v.sent = Append(o.sent, e) /\ v.serial = o.serial + 1
            /\ v.configures = Append(o.configures, c) /\ v.acked = o.acked
            /\ v.syn_max = o.max_mode /\ v.syn_full = o.fullscreen
            /\ v.max_mode = o.max_mode /\ v.fullscreen = o.fullscreen
            /\ v.pending = o.pending /\ v.block = o.block
            /\ v.cur_frame = o.cur_frame /\ v.mapped = o.mapped
            /\ v.must_place = o.must_place /\ v.contact = o.contact
            /\ v.frame = o.frame /\ v.syn_frame = o.frame
      BY <3>0, ConfigureGeometryIs
    <3>2. PICK d \in Event :
            /\ v.sent = Append(o.sent, d) /\ d.serial = o.serial + 1
            /\ d.size = SizedAs(Null, o.frame)
            /\ o.max_mode = Axis => d.special = TRUE
      BY <3>0, ConfigureTells, ZenonT(30)
    <3>4. Len(v.configures) = 1 /\ v.configures[1] = c /\ v.configures # <<>>
      BY <2>1, <3>1
    <3>5. /\ Len(v.sent) = Len(w.sent) + 1 /\ v.sent[Len(w.sent) + 1] = d
          /\ \A i \in 1..Len(w.sent) : v.sent[i] = w.sent[i]
      BY <1>0, <2>1, <3>2
    <3>6. \A i \in 1..Len(w.sent) :
            w.sent[i].serial \in Nat /\ w.sent[i].serial <= w.serial
      <4>1. \A i \in 1..Len(w.sent) : w.sent[i].serial \in Serials(w.sent)
        BY DEF Serials
      <4>2. SerialInv(w) /\ Serials(w.sent) \subseteq Nat
        BY <1>0, SerialTypes DEF Good
      <4> QED
        BY <4>1, <4>2 DEF SerialInv
    <3>7. w.acked <= w.serial
      BY DEF Good, SerialInv
    <3>8. SameSize(d.size, c.frame)
      BY <1>0, <2>1, <3>1, <3>2, FramesEqual
    <3>9. \A i \in 1..Len(v.sent) : Tells(v.sent[i], v)
      <4> SUFFICES ASSUME NEW i \in 1..Len(v.sent) PROVE Tells(v.sent[i], v)
        OBVIOUS
      <4>1. CASE i \in 1..Len(w.sent)
        <5>1. v.sent[i] = w.sent[i] /\ w.sent[i].serial < c.serial
          BY <1>0, <2>1, <3>1, <3>5, <3>6, <4>1
        <5>2. w.sent[i].serial <= c.serial /\ w.sent[i].serial # c.serial
          BY <1>0, <2>1, <3>1, <3>6, <4>1, <5>1
        <5> QED
          BY <1>2, <2>1, <3>1, <3>4, <4>1, <5>1, <5>2 DEF Tells
      <4>2. CASE i = Len(w.sent) + 1
        BY <1>0, <2>1, <3>1, <3>2, <3>4, <3>5, <3>8, <4>2 DEF Tells
      <4> QED
        BY <1>0, <3>5, <4>1, <4>2
    <3>10. ~committed => a.serial = v.acked /\ Tells(a, v)
      <4> SUFFICES ASSUME ~committed PROVE a.serial = v.acked /\ Tells(a, v)
        OBVIOUS
      <4>1. a.serial = w.acked /\ a.serial <= c.serial /\ a.serial # c.serial
        BY <1>0, <1>2, <2>1, <3>1, <3>7
      <4> QED
        BY <1>2, <2>1, <3>1, <3>4, <4>1 DEF Tells
    <3>11. SameSize(v.frame, v.syn_frame)
      BY <2>1, <3>1 DEF SameSize
    <3>12. Grown(v, a, committed)
      BY <1>3, <2>1, <3>1, <3>4, <3>9, <3>10, <3>11 DEF Grown, Telling
    <3>13. Release(u) = v
      BY <2>2, <2>3, <3>0
    <3> QED
      BY <2>1, <3>1, <3>3, <3>12, <3>13
  <2>4. CASE ~NeedsConfigure(o)
    <3> DEFINE v == DoSetGeometry(o, o.frame)
    <3>1. Release(u) = v
      BY <2>1, <2>2, <2>4 DEF SetPosition
    <3>2. SameSize(o.frame, o.syn_frame)
      BY <2>4 DEF NeedsConfigure
    <3>3. SameSize(o.frame, o.frame)
      BY DEF SameSize
    <3>4. /\ v \in Win /\ v.cur_frame = o.frame /\ v.frame = o.frame
          /\ v.restore = o.restore /\ v.quicktiling = o.quicktiling
          /\ v.max_mode = o.max_mode /\ v.fullscreen = o.fullscreen
          /\ v.pending = FALSE /\ v.block = o.block /\ v.contact = o.contact
          /\ v.must_place = o.must_place /\ v.mapped = o.mapped
          /\ v.configures = o.configures /\ v.sent = o.sent /\ v.acked = o.acked
          /\ v.serial = o.serial /\ v.syn_frame = o.syn_frame
      BY <1>0, <2>1, <3>3, DoSetGeometryShown, ZenonT(30)
    <3> HIDE DEF v
    <3>5. SameSize(w.cur_frame, o.frame)
      BY <1>3, <2>1, <3>2 DEF SameSize
    <3>6. /\ \A i \in 1..Len(w.sent) : SameSize(w.sent[i].size, o.frame)
          /\ ~committed => SameSize(a.size, o.frame)
      BY <1>2, <3>5 DEF SameSize
    <3>7. Telling(v, a, committed)
      BY <1>2, <2>1, <3>4, <3>6 DEF Telling, Tells
    <3>8. Grown(v, a, committed)
      BY <1>3, <2>1, <3>2, <3>4, <3>7 DEF Grown
    <3> QED
      BY <2>1, <3>1, <3>4, <3>8
  <2> QED
    BY <2>3, <2>4
<1>6. u.pending \in BOOLEAN
  BY <1>0, Flags
<1> QED
  BY <1>4, <1>5, <1>6

-----------------------------------------------------------------------------
(* What the handlers make of the restore geometry.                         *)

\* Members of a window that are set.
LEMMA SetRestoreMakes ==
  ASSUME NEW w \in Win, NEW f \in Frame, NEW u,
         u = [w EXCEPT !.restore = f]
  PROVE  /\ u \in Win /\ u.restore = f /\ u.frame = w.frame
         /\ u.max_mode = w.max_mode /\ u.quicktiling = w.quicktiling
         /\ u.fullscreen = w.fullscreen /\ u.contact = w.contact
BY DEF Win

LEMMA SetTilingMakes ==
  ASSUME NEW w \in Win, NEW q \in {"none", "left", "maximize"}, NEW u,
         u = [w EXCEPT !.quicktiling = q]
  PROVE  /\ u \in Win /\ u.restore = w.restore /\ u.frame = w.frame
         /\ u.max_mode = w.max_mode /\ u.quicktiling = q
         /\ u.fullscreen = w.fullscreen /\ u.contact = w.contact
BY DEF Win

LEMMA SetFrameMakes ==
  ASSUME NEW w \in Win, NEW f \in Frame, NEW u,
         u = SetFrame(w, f)
  PROVE  /\ u \in Win /\ u.restore = w.restore /\ u.frame = f
         /\ u.max_mode = w.max_mode /\ u.quicktiling = w.quicktiling
         /\ u.fullscreen = w.fullscreen /\ u.contact = w.contact
BY DEF Win, SetFrame

\* maximizeRestore of a window that is neither full screen nor dragged.
LEMMA MaximizeRestoreMakes ==
  ASSUME NEW w \in Win, w.fullscreen = FALSE, w.contact = "none", NEW f \in Frame,
         Valid(f),
         f = [a \in Axis |-> IF a \in w.max_mode THEN w.restore[a] ELSE w.frame[a]]
  PROVE  LET u == MaximizeRestore(w)
         IN /\ u \in Win /\ u.frame = f /\ u.max_mode = {}
            /\ u.fullscreen = FALSE /\ u.contact = "none"
            /\ u.quicktiling = w.quicktiling
            /\ u.restore = IF w.quicktiling = "none" THEN Null ELSE w.restore
<1> DEFINE v == [SetFrame(w, Rectified(f)) EXCEPT !.max_mode = {}]
<1>1. Rectified(f) = f
  BY DEF Rectified
<1>2. /\ v \in Win /\ v.frame = f /\ v.max_mode = {} /\ v.fullscreen = FALSE
      /\ v.contact = "none" /\ v.quicktiling = w.quicktiling
      /\ v.restore = w.restore
  BY <1>1 DEF Win, SetFrame
<1>3. MaximizeRestore(w) = SetRestoreGeometry(v, Null)
  BY DEF MaximizeRestore
<1> HIDE DEF v
<1>4. MaximizeRestore(w) = IF w.quicktiling # "none" THEN v
                           ELSE [v EXCEPT !.restore = Null]
  BY <1>2, <1>3 DEF SetRestoreGeometry, IsMove
<1>5. CASE w.quicktiling # "none"
  BY <1>2, <1>4, <1>5
<1>6. CASE w.quicktiling = "none"
  <2> DEFINE u == MaximizeRestore(w)
  <2>1. u = [v EXCEPT !.restore = Null]
    BY <1>4, <1>6
  <2> HIDE DEF u
  <2>2. /\ u \in Win /\ u.restore = Null /\ u.frame = v.frame
        /\ u.max_mode = v.max_mode /\ u.quicktiling = v.quicktiling
        /\ u.fullscreen = v.fullscreen /\ u.contact = v.contact
    BY <1>2, <2>1, Constants, SetRestoreMakes
  <2> QED
    BY <1>2, <1>6, <2>2 DEF u
<1> QED
  BY <1>5, <1>6

\* maximize_vertically and maximize_horizontally of such a window.
LEMMA MaximizeMakes ==
  ASSUME NEW w \in Win, w.fullscreen = FALSE, w.contact = "none",
         NEW m \in SUBSET Axis, Valid(w.frame)
  PROVE  LET u == Maximize(w, m)
         IN /\ u \in Win /\ Valid(u.frame) /\ u.max_mode = m
            /\ \A x \in Axis : x \notin m => u.frame[x] = w.frame[x]
            /\ u.fullscreen = FALSE /\ u.contact = "none"
            /\ u.quicktiling = w.quicktiling
            /\ u.restore = IF w.quicktiling = "none" THEN w.frame ELSE w.restore
<1> DEFINE f == [a \in Axis |-> IF a \in m THEN Area[a] ELSE w.frame[a]]
           v == [SetFrame(w, f) EXCEPT !.max_mode = m]
<1>0. w.frame \in Frame /\ Area \in Frame /\ f \in Frame
  BY Fields, Constants, MixedFrame
<1>1. Valid(f) /\ \A x \in Axis : x \notin m => f[x] = w.frame[x]
  BY AreaAssumption DEF Valid
<1>2. Maximize(w, m) = SetRestoreGeometry(v, w.frame)
  BY DEF Maximize
<1> HIDE DEF f
<1>3. /\ v \in Win /\ v.frame = f /\ v.max_mode = m /\ v.fullscreen = FALSE
      /\ v.contact = "none" /\ v.quicktiling = w.quicktiling
      /\ v.restore = w.restore
  BY <1>0 DEF Win, SetFrame
<1> HIDE DEF v
<1>4. Maximize(w, m) = IF w.quicktiling # "none" THEN v
                       ELSE [v EXCEPT !.restore = w.frame]
  BY <1>2, <1>3 DEF SetRestoreGeometry, IsMove
<1>5. CASE w.quicktiling # "none"
  BY <1>1, <1>3, <1>4, <1>5
<1>6. CASE w.quicktiling = "none"
  <2> DEFINE u == [v EXCEPT !.restore = w.frame]
  <2>1. /\ u \in Win /\ u.frame = f /\ u.max_mode = m /\ u.fullscreen = FALSE
        /\ u.contact = "none" /\ u.quicktiling = w.quicktiling
        /\ u.restore = w.frame
    BY <1>0, <1>3 DEF Win
  <2> HIDE DEF u
  <2>2. Maximize(w, m) = u
    BY <1>4, <1>6 DEF u
  <2> QED
    BY <1>1, <1>6, <2>1, <2>2
<1> QED
  BY <1>5, <1>6

\* w is neither full screen nor dragged, and f is its frame in normal mode.
Maximizable(w, f) ==
  /\ w \in Win /\ w.fullscreen = FALSE /\ w.contact = "none"
  /\ Valid(f) /\ Valid(w.frame)
  /\ w.max_mode = {} => w.frame = f
  /\ w.max_mode # {} => w.restore = f
  /\ \A x \in Axis : x \notin w.max_mode => w.frame[x] = f[x]

\* update_maximized leads from one maximised mode of w to another, m, through f.
\* The restore geometry is overwritten unless the window is tiled.
MaximizedTo(u, w, m, f) ==
  /\ u \in Win /\ Valid(u.frame) /\ u.max_mode = m
  /\ u.fullscreen = FALSE /\ u.contact = "none"
  /\ \A x \in Axis : x \notin m => u.frame[x] = f[x]
  /\ m = {} => u.frame = f
  /\ m = w.max_mode => u.quicktiling = w.quicktiling /\ u.restore = w.restore
  /\ m # w.max_mode =>
       /\ u.quicktiling = IF m = Axis THEN "maximize" ELSE "none"
       /\ w.quicktiling = "none" => u.restore = IF m = {} THEN Null ELSE f
       /\ w.quicktiling # "none" => u.restore = w.restore

LEMMA UpdateMaximizedMakes ==
  ASSUME NEW m \in SUBSET Axis, NEW f \in Frame, NEW w, Maximizable(w, f)
  PROVE  MaximizedTo(UpdateMaximized(w, m), w, m, f)
<1> USE DEF Maximizable
<1>0. w.frame \in Frame /\ w.restore \in Frame /\ w.max_mode \in SUBSET Axis
  BY Fields
<1>1. [a \in Axis |-> IF a \in w.max_mode THEN w.restore[a] ELSE w.frame[a]] = f
  BY <1>0 DEF Frame
<1>2. CASE m = w.max_mode
  <2> DEFINE g == [a \in Axis |-> IF a \in m THEN Area[a] ELSE w.frame[a]]
  <2>1. UpdateMaximized(w, m) = IF m = {} THEN w ELSE SetFrame(w, g)
    BY <1>2 DEF UpdateMaximized
  <2>2. g \in Frame /\ Valid(g) /\ \A x \in Axis : x \notin m => g[x] = w.frame[x]
    BY <1>0, Constants, MixedFrame, AreaAssumption, ZenonT(30) DEF Valid
  <2> HIDE DEF g
  <2>3. CASE m = {}
    BY <1>2, <2>1, <2>3 DEF MaximizedTo
  <2>4. CASE m # {}
    <3> DEFINE u == UpdateMaximized(w, m)
    <3>1. u = SetFrame(w, g)
      BY <2>1, <2>4
    <3> HIDE DEF u
    <3>2. /\ u \in Win /\ u.restore = w.restore /\ u.frame = g
          /\ u.max_mode = w.max_mode /\ u.quicktiling = w.quicktiling
          /\ u.fullscreen = w.fullscreen /\ u.contact = w.contact
      BY <2>2, <3>1, SetFrameMakes
    <3> QED
      BY <1>2, <2>2, <2>4, <3>2 DEF u, MaximizedTo
  <2> QED
    BY <2>3, <2>4
<1>3. CASE m # w.max_mode
  <2> DEFINE from == IF w.max_mode # {} /\ m # {}
                     THEN [MaximizeRestore(w) EXCEPT !.restore = w.restore]
                     ELSE w
             to == IF m = {} THEN MaximizeRestore(from) ELSE Maximize(from, m)
             q == IF m = Axis THEN "maximize" ELSE "none"
  <2>1. UpdateMaximized(w, m) = [to EXCEPT !.quicktiling = q]
    BY <1>3 DEF UpdateMaximized
  <2>2. q \in {"none", "left", "maximize"}
    OBVIOUS
  <2> HIDE DEF q
  <2>3. CASE m = {}
    <3>1. to = MaximizeRestore(w)
      BY <2>3
    <3> HIDE DEF to
    <3>2. /\ to \in Win /\ to.frame = f /\ to.max_mode = {} /\ to.fullscreen = FALSE
          /\ to.contact = "none" /\ to.quicktiling = w.quicktiling
          /\ to.restore = IF w.quicktiling = "none" THEN Null ELSE w.restore
      BY <1>1, <3>1, MaximizeRestoreMakes
    <3> DEFINE u == UpdateMaximized(w, m)
    <3>3. u = [to EXCEPT !.quicktiling = q]
      BY <2>1
    <3> HIDE DEF u
    <3>4. /\ u \in Win /\ u.restore = to.restore /\ u.frame = to.frame
          /\ u.max_mode = to.max_mode /\ u.quicktiling = q
          /\ u.fullscreen = to.fullscreen /\ u.contact = to.contact
      BY <2>2, <3>2, <3>3, SetTilingMakes
    <3> QED
      BY <1>3, <2>3, <3>2, <3>4 DEF q, u, MaximizedTo
  <2>4. CASE m # {}
    <3>1. /\ from \in Win /\ from.frame = f /\ from.fullscreen = FALSE
          /\ from.contact = "none" /\ from.quicktiling = w.quicktiling
          /\ from.restore = w.restore
      <4>1. CASE w.max_mode = {}
        BY <4>1
      <4>2. CASE w.max_mode # {}
        <5> DEFINE v == MaximizeRestore(w)
        <5>1. /\ v \in Win /\ v.frame = f /\ v.fullscreen = FALSE
              /\ v.contact = "none" /\ v.quicktiling = w.quicktiling
          BY <1>1, MaximizeRestoreMakes
        <5>2. from = [v EXCEPT !.restore = w.restore]
          BY <2>4, <4>2
        <5> HIDE DEF v, from
        <5>3. /\ from \in Win /\ from.restore = w.restore /\ from.frame = v.frame
              /\ from.max_mode = v.max_mode /\ from.quicktiling = v.quicktiling
              /\ from.fullscreen = v.fullscreen /\ from.contact = v.contact
          BY <1>0, <5>1, <5>2, SetRestoreMakes
        <5> QED
          BY <5>1, <5>3
      <4> QED
        BY <4>1, <4>2
    <3>2. to = Maximize(from, m)
      BY <2>4
    <3> HIDE DEF from, to
    <3>3. /\ to \in Win /\ Valid(to.frame) /\ to.max_mode = m
          /\ \A x \in Axis : x \notin m => to.frame[x] = from.frame[x]
          /\ to.fullscreen = FALSE /\ to.contact = "none"
          /\ to.quicktiling = from.quicktiling
          /\ to.restore = IF from.quicktiling = "none" THEN from.frame
                                                       ELSE from.restore
      BY <3>1, <3>2, MaximizeMakes
    <3> DEFINE u == UpdateMaximized(w, m)
    <3>4. u = [to EXCEPT !.quicktiling = q]
      BY <2>1
    <3> HIDE DEF u
    <3>5. /\ u \in Win /\ u.restore = to.restore /\ u.frame = to.frame
          /\ u.max_mode = to.max_mode /\ u.quicktiling = q
          /\ u.fullscreen = to.fullscreen /\ u.contact = to.contact
      BY <2>2, <3>3, <3>4, SetTilingMakes
    <3> QED
      BY <1>3, <2>4, <3>1, <3>3, <3>5 DEF q, u, MaximizedTo
  <2> QED
    BY <2>3, <2>4
<1> QED
  BY <1>2, <1>3

\* The frame in normal mode, as the next handler finds it.
NormalFrame(w, f) == IF Normal(w) THEN w.frame ELSE f

\* Requests to maximise, on any axes.
LEMMA MaximizeShapes ==
  ASSUME NEW w \in Win, w.contact = "none", NEW m \in SUBSET Axis, NEW f \in Frame,
         Valid(w.frame), Shaped(w, f, "maximize")
  PROVE  LET u == UpdateMaximized(w, m)
         IN /\ Shaped(u, NormalFrame(w, f), "maximize") /\ Valid(u.frame)
            /\ ~Normal(w) /\ Normal(u) => u.frame = f
<1> DEFINE u == UpdateMaximized(w, m)
           g == NormalFrame(w, f)
<1>0. w.frame \in Frame /\ w.max_mode \in SUBSET Axis /\ Axis # {}
  BY Fields DEF Axis
<1>1. /\ w.fullscreen = FALSE
      /\ w.quicktiling = IF w.max_mode = Axis THEN "maximize" ELSE "none"
      /\ Normal(w) <=> w.max_mode = {}
  BY <1>0 DEF Shaped, Normal
<1>2. /\ g \in Frame /\ Valid(g) /\ (w.max_mode = {} => w.frame = g)
      /\ w.max_mode # {} => w.restore = g /\ g = f
      /\ \A x \in Axis : x \notin w.max_mode => w.frame[x] = g[x]
  BY <1>0, <1>1 DEF Shaped, Remembers, NormalFrame
<1> HIDE DEF g
<1>3. /\ u \in Win /\ Valid(u.frame) /\ u.max_mode = m
      /\ u.fullscreen = FALSE /\ u.contact = "none"
      /\ \A x \in Axis : x \notin m => u.frame[x] = g[x]
      /\ m = {} => u.frame = g
      /\ m = w.max_mode => u.quicktiling = w.quicktiling /\ u.restore = w.restore
      /\ m # w.max_mode =>
           /\ u.quicktiling = IF m = Axis THEN "maximize" ELSE "none"
           /\ w.quicktiling = "none" => u.restore = IF m = {} THEN Null ELSE g
           /\ w.quicktiling # "none" => u.restore = w.restore
  <2>1. Maximizable(w, g)
    BY <1>1, <1>2 DEF Maximizable
  <2>2. MaximizedTo(u, w, m, g)
    BY <1>2, <2>1, UpdateMaximizedMakes
  <2> HIDE DEF u
  <2> QED
    BY <2>2 DEF MaximizedTo
<1> HIDE DEF u
<1>4. u.quicktiling = IF m = Axis THEN "maximize" ELSE "none"
  BY <1>1, <1>3
<1>5. Normal(u) <=> m = {}
  BY <1>0, <1>3, <1>4 DEF Normal
<1>6. m # {} => u.restore = g
  BY <1>0, <1>1, <1>2, <1>3
<1>7. Shaped(u, g, "maximize")
  BY <1>2, <1>3, <1>4, <1>5, <1>6 DEF Shaped, Remembers
<1>8. ~Normal(w) /\ Normal(u) => u.frame = f
  BY <1>1, <1>2, <1>3, <1>5
<1> QED
  BY <1>3, <1>7, <1>8 DEF u, g

\* Requests to tile, to the left or over the whole area.
LEMMA TileShapes ==
  ASSUME NEW w \in Win, w.contact = "none", NEW mode \in {"left", "maximize"},
         NEW f \in Frame, Valid(w.frame), w.cur_frame = w.frame,
         w.cur_max = w.max_mode, Shaped(w, f, "tile")
  PROVE  LET u == SetQuicktileMode(w, mode)
         IN /\ Shaped(u, NormalFrame(w, f), "tile") /\ Valid(u.frame)
            /\ ~Normal(w) /\ Normal(u) => u.frame = f
<1> DEFINE u == SetQuicktileMode(w, mode)
           g == NormalFrame(w, f)
           r == RestoreForTile(w)
           free == [w EXCEPT !.restore = r, !.quicktiling = "none"]
           maxed == [free EXCEPT !.quicktiling = "maximize"]
<1>0. /\ w.frame \in Frame /\ w.max_mode \in SUBSET Axis /\ Axis # {}
      /\ w.quicktiling \in {"none", "left", "maximize"}
  BY Fields DEF Axis
<1>1. /\ w.fullscreen = FALSE /\ w.max_mode \in {{}, Axis}
      /\ w.max_mode = Axis <=> w.quicktiling = "maximize"
      /\ Normal(w) <=> w.quicktiling = "none"
  BY <1>0 DEF Shaped, Normal
<1>2. g \in Frame /\ Valid(g) /\ r = g /\ (~Normal(w) => g = f /\ w.restore = g)
  <2>1. CASE Normal(w)
    <3>1. w.restore = Null /\ ~Valid(Null)
      BY <2>1 DEF Shaped, Null, Valid, Axis
    <3> QED
      BY <1>0, <2>1, <3>1 DEF NormalFrame, RestoreForTile
  <2>2. CASE ~Normal(w)
    <3>1. w.restore = f /\ Valid(f)
      BY <2>2 DEF Shaped, Remembers
    <3> QED
      BY <2>2, <3>1 DEF NormalFrame, RestoreForTile
  <2> QED
    BY <2>1, <2>2
<1>3. /\ ~w.fullscreen /\ mode = "maximize" /\ w.cur_max = Axis =>
           u = UpdateMaximized(free, {})
      /\ ~w.fullscreen /\ mode = "maximize" /\ w.cur_max # Axis =>
           u = [UpdateMaximized(maxed, Axis) EXCEPT !.restore = r]
      /\ ~w.fullscreen /\ mode # "maximize" /\ w.max_mode # {} /\ mode # "none" =>
           u = [SetFrame(UpdateMaximized(free, {}), Tile)
                  EXCEPT !.quicktiling = mode, !.restore = r]
      /\ ~w.fullscreen /\ mode # "maximize" /\ w.max_mode = {}
           /\ mode \in {"none", w.quicktiling} =>
           u = [SetFrame(free, r) EXCEPT !.restore = Null]
      /\ ~w.fullscreen /\ mode # "maximize" /\ w.max_mode = {}
           /\ mode \notin {"none", w.quicktiling} =>
           u = [SetFrame(free, Tile) EXCEPT !.quicktiling = mode, !.restore = r]
  BY DEF SetQuicktileMode
<1> HIDE DEF g, u, r
<1>4. /\ free \in Win /\ free.frame = w.frame /\ free.restore = g
      /\ free.quicktiling = "none" /\ free.max_mode = w.max_mode
      /\ free.fullscreen = FALSE /\ free.contact = "none"
  BY <1>1, <1>2 DEF Win
<1> HIDE DEF free
<1>5. /\ maxed \in Win /\ maxed.frame = w.frame /\ maxed.restore = g
      /\ maxed.quicktiling = "maximize" /\ maxed.max_mode = w.max_mode
      /\ maxed.fullscreen = FALSE /\ maxed.contact = "none"
  BY <1>4, SetTilingMakes
<1> HIDE DEF maxed
<1>6. ASSUME NEW v \in Win, v.fullscreen = FALSE, v.frame = Tile, v.max_mode = {},
             v.restore = r, v.quicktiling = mode, mode = "left", v = u
      PROVE  /\ Shaped(u, g, "tile") /\ Valid(u.frame)
             /\ ~Normal(w) /\ Normal(u) => u.frame = f
  <2>1. ~Normal(u)
    BY <1>6 DEF Normal
  <2> QED
    BY <1>0, <1>2, <1>6, <2>1, AreaAssumption DEF Shaped, Remembers
<1>7. ASSUME NEW v \in Win, v.fullscreen = FALSE, v.frame = g, v.max_mode = {},
             v.restore = Null, v.quicktiling = "none", v = u
      PROVE  /\ Shaped(u, g, "tile") /\ Valid(u.frame)
             /\ ~Normal(w) /\ Normal(u) => u.frame = f
  <2>1. Normal(u)
    BY <1>7 DEF Normal
  <2> QED
    BY <1>0, <1>2, <1>7, <2>1 DEF Shaped
<1>8. ASSUME w.max_mode = Axis
      PROVE  LET v == UpdateMaximized(free, {})
             IN /\ v \in Win /\ v.frame = g /\ v.max_mode = {}
                /\ v.fullscreen = FALSE /\ v.contact = "none"
                /\ v.quicktiling = "none" /\ v.restore = Null
  <2>1. ~Normal(w)
    BY <1>0, <1>8 DEF Normal
  <2>2. Maximizable(free, g) /\ {} \in SUBSET Axis /\ {} # free.max_mode
    BY <1>0, <1>2, <1>4, <1>8 DEF Maximizable
  <2> DEFINE v == UpdateMaximized(free, {})
  <2>3. MaximizedTo(v, free, {}, g)
    BY <1>2, <2>2, UpdateMaximizedMakes
  <2> HIDE DEF v
  <2>4. v.quicktiling = "none" /\ v.restore = Null /\ v.frame = g
    BY <1>0, <1>4, <2>2, <2>3 DEF MaximizedTo
  <2> QED
    BY <2>3, <2>4 DEF v, MaximizedTo
<1>9. CASE mode = "maximize" /\ w.max_mode = Axis
  <2>1. u = UpdateMaximized(free, {})
    BY <1>1, <1>3, <1>9
  <2> QED
    BY <1>7, <1>8, <1>9, <2>1 DEF u, g
<1>10. CASE mode = "maximize" /\ w.max_mode = {}
  <2> DEFINE v == UpdateMaximized(maxed, Axis)
  <2>1. u = [v EXCEPT !.restore = r]
    BY <1>0, <1>1, <1>3, <1>10
  <2>2. Maximizable(maxed, w.frame) /\ Axis \in SUBSET Axis /\ Axis # maxed.max_mode
    BY <1>0, <1>5, <1>10 DEF Maximizable
  <2>3. /\ v \in Win /\ Valid(v.frame) /\ v.max_mode = Axis
        /\ v.fullscreen = FALSE /\ v.contact = "none" /\ v.quicktiling = "maximize"
    <3>1. MaximizedTo(v, maxed, Axis, w.frame)
      BY <1>0, <2>2, UpdateMaximizedMakes
    <3> HIDE DEF v
    <3> QED
      BY <2>2, <3>1 DEF MaximizedTo
  <2> HIDE DEF v
  <2>4. /\ u \in Win /\ u.restore = r /\ u.frame = v.frame
        /\ u.max_mode = v.max_mode /\ u.quicktiling = v.quicktiling
        /\ u.fullscreen = v.fullscreen /\ u.contact = v.contact
    BY <1>2, <2>1, <2>3, SetRestoreMakes
  <2>5. ~Normal(u)
    BY <1>0, <2>3, <2>4 DEF Normal
  <2>6. Shaped(u, g, "tile")
    BY <1>2, <2>3, <2>4, <2>5 DEF Shaped, Remembers
  <2> QED
    BY <2>3, <2>4, <2>5, <2>6 DEF u, g
<1>11. CASE mode = "left" /\ w.max_mode = Axis
  <2> DEFINE v == UpdateMaximized(free, {})
             t == SetFrame(v, Tile)
  <2>0. Tile \in Frame /\ t = SetFrame(v, Tile)
    BY Constants
  <2>1. u = [t EXCEPT !.quicktiling = mode, !.restore = r]
    BY <1>0, <1>1, <1>3, <1>11
  <2>2. v \in Win /\ v.max_mode = {} /\ v.fullscreen = FALSE
    BY <1>8, <1>11
  <2> HIDE DEF v, t
  <2>3. t \in Win /\ t.max_mode = {} /\ t.fullscreen = FALSE /\ t.frame = Tile
    <3>1. /\ t \in Win /\ t.restore = v.restore /\ t.frame = Tile
          /\ t.max_mode = v.max_mode /\ t.quicktiling = v.quicktiling
          /\ t.fullscreen = v.fullscreen /\ t.contact = v.contact
      BY <2>0, <2>2, SetFrameMakes
    <3> QED
      BY <2>2, <3>1
  <2>4. /\ u \in Win /\ u.fullscreen = FALSE /\ u.frame = Tile /\ u.max_mode = {}
        /\ u.restore = r /\ u.quicktiling = mode
    BY <1>2, <2>1, <2>3 DEF Win
  <2> QED
    BY <1>6, <1>11, <2>4 DEF u, g
<1>12. CASE mode = "left" /\ w.max_mode = {} /\ w.quicktiling = "left"
  <2> DEFINE t == SetFrame(free, r)
  <2>1. u = [t EXCEPT !.restore = Null]
    BY <1>1, <1>3, <1>12
  <2>2. /\ t \in Win /\ t.max_mode = {} /\ t.fullscreen = FALSE /\ t.frame = g
        /\ t.quicktiling = "none"
    BY <1>2, <1>4, <1>12, SetFrameMakes
  <2> HIDE DEF t
  <2>3. /\ u \in Win /\ u.restore = Null /\ u.frame = t.frame
        /\ u.max_mode = t.max_mode /\ u.quicktiling = t.quicktiling
        /\ u.fullscreen = t.fullscreen /\ u.contact = t.contact
    BY <2>1, <2>2, Constants, SetRestoreMakes
  <2> QED
    BY <1>7, <2>2, <2>3 DEF u, g
<1>13. CASE mode = "left" /\ w.max_mode = {} /\ w.quicktiling # "left"
  <2> DEFINE t == SetFrame(free, Tile)
  <2>0. Tile \in Frame /\ t = SetFrame(free, Tile)
    BY Constants
  <2>1. u = [t EXCEPT !.quicktiling = mode, !.restore = r]
    BY <1>1, <1>3, <1>13
  <2> HIDE DEF t
  <2>2. t \in Win /\ t.max_mode = {} /\ t.fullscreen = FALSE /\ t.frame = Tile
    <3>1. /\ t \in Win /\ t.restore = free.restore /\ t.frame = Tile
          /\ t.max_mode = free.max_mode /\ t.quicktiling = free.quicktiling
          /\ t.fullscreen = free.fullscreen /\ t.contact = free.contact
      BY <1>4, <2>0, SetFrameMakes
    <3> QED
      BY <1>4, <1>13, <3>1
  <2>3. /\ u \in Win /\ u.fullscreen = FALSE /\ u.frame = Tile /\ u.max_mode = {}
        /\ u.restore = r /\ u.quicktiling = mode
    BY <1>2, <2>1, <2>2 DEF Win
  <2> QED
    BY <1>6, <1>13, <2>3 DEF u, g
<1> QED
  BY <1>1, <1>9, <1>10, <1>11, <1>12, <1>13

\* Requests to cover the screen, and no more to.
LEMMA FullscreenShapes ==
  ASSUME NEW w \in Win, w.contact = "none", NEW full \in BOOLEAN,
         NEW f \in Frame, Valid(w.frame), Shaped(w, f, "fullscreen")
  PROVE  LET u == UpdateFullscreen(w, full)
         IN /\ Shaped(u, NormalFrame(w, f), "fullscreen") /\ Valid(u.frame)
            /\ ~Normal(w) /\ Normal(u) => u.frame = f
<1> DEFINE u == UpdateFullscreen(w, full)
           g == NormalFrame(w, f)
           v == [w EXCEPT !.fullscreen = full]
<1>0. w.frame \in Frame /\ w.restore \in Frame /\ w.fullscreen \in BOOLEAN
  BY Fields, Flags
<1>1. /\ w.max_mode = {} /\ w.quicktiling = "none"
      /\ Normal(w) <=> w.fullscreen = FALSE
  BY <1>0 DEF Shaped, Normal
<1>2. /\ g \in Frame /\ Valid(g)
      /\ w.fullscreen = FALSE => g = w.frame /\ w.restore = Null
      /\ w.fullscreen = TRUE => g = f /\ w.restore = g
  BY <1>0, <1>1 DEF Shaped, Remembers, NormalFrame
<1> HIDE DEF g
<1>3. /\ v \in Win /\ v.fullscreen = full /\ v.frame = w.frame
      /\ v.restore = w.restore /\ v.max_mode = {} /\ v.quicktiling = "none"
      /\ v.contact = "none"
  BY <1>1 DEF Win
<1>4. u = IF w.fullscreen = full THEN w
          ELSE IF full THEN UpdateFullscreenEnable(EndMoveResize(v))
                       ELSE UpdateFullscreenDisable(EndMoveResize(v))
  BY DEF UpdateFullscreen
<1> HIDE DEF v, u
<1>5. EndMoveResize(v) = v
  BY <1>3 DEF EndMoveResize
<1>6. CASE w.fullscreen = full
  <2>1. u = w
    BY <1>4, <1>6
  <2>2. Shaped(w, g, "fullscreen")
    BY <1>1, <1>2 DEF Shaped, Remembers
  <2> QED
    BY <2>1, <2>2 DEF u, g
<1>7. CASE w.fullscreen = FALSE /\ full = TRUE
  <2> DEFINE o == [v EXCEPT !.restore = v.frame]
  <2>1. ~Valid(v.restore)
    BY <1>2, <1>3, <1>7 DEF Null, Valid, Axis
  <2>2. u = SetFrame(o, Screen)
    BY <1>3, <1>4, <1>5, <1>7, <2>1 DEF UpdateFullscreenEnable, Win
  <2>3. /\ o \in Win /\ o.restore = v.frame /\ o.frame = v.frame
        /\ o.max_mode = v.max_mode /\ o.quicktiling = v.quicktiling
        /\ o.fullscreen = v.fullscreen /\ o.contact = v.contact
    BY <1>0, <1>3, SetRestoreMakes
  <2> HIDE DEF o
  <2>4. /\ u \in Win /\ u.restore = o.restore /\ u.frame = Screen
        /\ u.max_mode = o.max_mode /\ u.quicktiling = o.quicktiling
        /\ u.fullscreen = o.fullscreen /\ u.contact = o.contact
    <3>1. Screen \in Frame
      BY Constants
    <3> QED
      BY <2>2, <2>3, <3>1, SetFrameMakes
  <2>5. u.fullscreen = TRUE /\ u.restore = g /\ ~Normal(u)
    BY <1>2, <1>3, <1>7, <2>3, <2>4 DEF Normal
  <2>6. Shaped(u, g, "fullscreen")
    BY <1>2, <1>3, <2>3, <2>4, <2>5 DEF Shaped, Remembers
  <2> QED
    BY <2>4, <2>5, <2>6, AreaAssumption DEF u, g
<1>8. CASE w.fullscreen = TRUE /\ full = FALSE
  <2> DEFINE o == SetFrame(v, g)
  <2>1. u = [o EXCEPT !.restore = Null]
    BY <1>2, <1>3, <1>4, <1>5, <1>8
    DEF UpdateFullscreenDisable, FullscreenRestoreGeometry, Rectified
  <2>2. /\ o \in Win /\ o.restore = v.restore /\ o.frame = g
        /\ o.max_mode = v.max_mode /\ o.quicktiling = v.quicktiling
        /\ o.fullscreen = v.fullscreen /\ o.contact = v.contact
    BY <1>2, <1>3, SetFrameMakes
  <2> HIDE DEF o
  <2>3. /\ u \in Win /\ u.restore = Null /\ u.frame = o.frame
        /\ u.max_mode = o.max_mode /\ u.quicktiling = o.quicktiling
        /\ u.fullscreen = o.fullscreen /\ u.contact = o.contact
    BY <2>1, <2>2, Constants, SetRestoreMakes
  <2>4. Normal(u)
    BY <1>3, <1>8, <2>2, <2>3 DEF Normal
  <2>5. Shaped(u, g, "fullscreen")
    BY <1>3, <2>2, <2>3, <2>4 DEF Shaped
  <2> QED
    BY <1>2, <1>8, <2>2, <2>3, <2>4, <2>5 DEF u, g
<1> QED
  BY <1>0, <1>6, <1>7, <1>8

-----------------------------------------------------------------------------
(* The steps of unhurried behaviours.                                      *)

\* A request, with an answer to all earlier ones.
LEMMA RequestCalm ==
  ASSUME XdgInv, NEW kind, win.configures = <<>>,
         Grown(win, client.event, client.committed),
         NEW u, Asked(u, win), Valid(u.frame),
         Shaped(u, NormalFrame(win, before), kind),
         ~Normal(win) /\ Normal(u) => u.frame = before, Step(Release(u))
  PROVE  /\ CalmState(kind)'
         /\ ~Normal(win) /\ Normal(win') => win'.frame = before
<1> DEFINE v == Release(u)
<1>1. client.committed \in BOOLEAN /\ client.event \in Event
  BY DEF XdgInv
<1>2. Good(win, client.committed, events)
  BY Facts
<1>3. /\ Grown(v, client.event, client.committed)
      /\ v.frame = u.frame /\ v.restore = u.restore
      /\ v.quicktiling = u.quicktiling /\ v.max_mode = u.max_mode
      /\ v.fullscreen = u.fullscreen /\ v.mapped = win.mapped
  BY <1>1, <1>2, ReleaseGrown
<1>4. win' = v /\ client' = client /\ before' = NormalFrame(win, before)
  BY DEF Step, NormalFrame
<1> HIDE DEF v
<1>5. Normal(v) <=> Normal(u)
  BY <1>3 DEF Normal
<1>6. Shaped(v, NormalFrame(win, before), kind)
  BY <1>3, <1>5 DEF Shaped, Remembers
<1>7. CalmState(kind)'
  BY <1>3, <1>4, <1>6 DEF CalmState
<1> QED
  BY <1>3, <1>4, <1>5, <1>7

\* What is asked of a window that is shown is asked with nothing on its way.
LEMMA CalmFacts ==
  ASSUME XdgInv, Unhurried, NEW kind, Only(kind), CalmState(kind)
  PROVE  /\ kind \in {"maximize", "tile", "fullscreen"}
         /\ \A k \in {"maximize", "tile", "fullscreen"} : k \in events => k = kind
         /\ events \cap {"client_modes", "repeat", "client_size", "move", "resize",
                         "hasty"} = {}
         /\ win.contact = "none"
         /\ \A k : Can(k) /\ win.mapped =>
              /\ k \in events /\ win.configures = <<>>
              /\ Grown(win, client.event, client.committed)
              /\ Shaped(win, before, kind)
              /\ win.cur_frame = win.frame /\ Valid(win.frame)
              /\ win.cur_max = win.max_mode
<1>1. events \cap {"client_modes", "repeat", "client_size", "move", "resize",
                   "hasty"} = {}
  BY DEF Unhurried, Without
<1>2. events \cap {"maximize", "tile", "fullscreen"} = {kind}
  BY DEF Only
<1>3. win.contact = "none" /\ win.pending = FALSE
  BY DEF CalmState, Unborn, Young, Grown
<1>4. ASSUME NEW k, Can(k), win.mapped
      PROVE  /\ k \in events /\ win.configures = <<>>
             /\ Grown(win, client.event, client.committed)
             /\ Shaped(win, before, kind)
             /\ win.cur_frame = win.frame /\ Valid(win.frame)
             /\ win.cur_max = win.max_mode
  <2>1. k \in events /\ win.configures = <<>>
    BY <1>1, <1>4 DEF Can
  <2>2. Grown(win, client.event, client.committed) /\ Shaped(win, before, kind)
    BY <1>4 DEF CalmState, Unborn, Young
  <2>3. win.cur_frame = win.frame /\ Valid(win.frame)
    BY <2>1, <2>2 DEF Grown
  <2>4. win.cur_max = win.max_mode
    BY <1>3, <2>1, Facts DEF Good, ModeInv
  <2> QED
    BY <2>1, <2>2, <2>3, <2>4
<1> QED
  BY <1>1, <1>2, <1>3, <1>4

LEMMA MaximizeOpCalm ==
  ASSUME XdgInv, Unhurried, NEW kind, Only(kind), CalmState(kind),
         NEW axes \in SUBSET Axis, MaximizeOp(axes)
  PROVE  /\ CalmState(kind)'
         /\ ~Normal(win) /\ Normal(win') => win'.frame = before
<1> DEFINE m == IF axes = Axis THEN (IF win.cur_max = Axis THEN {} ELSE Axis)
                ELSE (win.cur_max \ axes) \cup (axes \ win.cur_max)
           u == UpdateMaximized(win, m)
<1>1. Can("maximize") /\ win.mapped /\ Step(Release(u))
  BY DEF MaximizeOp
<1>2. m \in SUBSET Axis
  BY Facts, Fields
<1> HIDE DEF m
<1>3. /\ kind = "maximize" /\ win.configures = <<>> /\ win.contact = "none"
      /\ Grown(win, client.event, client.committed) /\ Shaped(win, before, kind)
      /\ Valid(win.frame)
  BY <1>1, CalmFacts
<1>4. win \in Win /\ before \in Frame
  BY Facts DEF XdgInv
<1>5. Asked(u, win)
  BY <1>2, <1>4, UpdateMaximizedIs, ManagedAsked
<1>6. /\ Shaped(u, NormalFrame(win, before), "maximize") /\ Valid(u.frame)
      /\ ~Normal(win) /\ Normal(u) => u.frame = before
  BY <1>2, <1>3, <1>4, MaximizeShapes
<1> HIDE DEF u
<1> QED
  BY <1>1, <1>3, <1>5, <1>6, RequestCalm

LEMMA QuickTileCalm ==
  ASSUME XdgInv, Unhurried, NEW kind, Only(kind), CalmState(kind),
         NEW mode \in {"left", "maximize"}, QuickTileWindow(mode)
  PROVE  /\ CalmState(kind)'
         /\ ~Normal(win) /\ Normal(win') => win'.frame = before
<1> DEFINE u == SetQuicktileMode(win, mode)
<1>1. Can("tile") /\ win.mapped /\ Step(Release(u))
  BY DEF QuickTileWindow
<1>3. /\ kind = "tile" /\ win.configures = <<>> /\ win.contact = "none"
      /\ Grown(win, client.event, client.committed) /\ Shaped(win, before, kind)
      /\ Valid(win.frame) /\ win.cur_frame = win.frame
      /\ win.cur_max = win.max_mode
  BY <1>1, CalmFacts
<1>4. win \in Win /\ before \in Frame
  BY Facts DEF XdgInv
<1>5. Asked(u, win)
  BY <1>4, SetQuicktileModeIs, ManagedAsked
<1>6. /\ Shaped(u, NormalFrame(win, before), "tile") /\ Valid(u.frame)
      /\ ~Normal(win) /\ Normal(u) => u.frame = before
  BY <1>3, <1>4, TileShapes
<1> HIDE DEF u
<1> QED
  BY <1>1, <1>3, <1>5, <1>6, RequestCalm

LEMMA FullScreenOpCalm ==
  ASSUME XdgInv, Unhurried, NEW kind, Only(kind), CalmState(kind), FullScreenOp
  PROVE  /\ CalmState(kind)'
         /\ ~Normal(win) /\ Normal(win') => win'.frame = before
<1> DEFINE full == ~win.cur_full
           u == UpdateFullscreen(win, full)
<1>1. Can("fullscreen") /\ win.mapped /\ Step(Release(u))
  BY DEF FullScreenOp
<1>2. full \in BOOLEAN
  OBVIOUS
<1> HIDE DEF full
<1>3. /\ kind = "fullscreen" /\ win.configures = <<>> /\ win.contact = "none"
      /\ Grown(win, client.event, client.committed) /\ Shaped(win, before, kind)
      /\ Valid(win.frame)
  BY <1>1, CalmFacts
<1>4. win \in Win /\ before \in Frame
  BY Facts DEF XdgInv
<1>5. Asked(u, win)
  BY <1>2, <1>4, UpdateFullscreenIs
<1>6. /\ Shaped(u, NormalFrame(win, before), "fullscreen") /\ Valid(u.frame)
      /\ ~Normal(win) /\ Normal(u) => u.frame = before
  BY <1>2, <1>3, <1>4, FullscreenShapes
<1> HIDE DEF u
<1> QED
  BY <1>1, <1>3, <1>5, <1>6, RequestCalm

\* A step that leaves the modes and the frame to restore alone.
LEMMA SameShape ==
  ASSUME NEW w, NEW u, NEW f, NEW kind, Shaped(w, f, kind),
         u.frame = w.frame, u.restore = w.restore, u.quicktiling = w.quicktiling,
         u.max_mode = w.max_mode, u.fullscreen = w.fullscreen
  PROVE  /\ Shaped(u, f, kind) /\ Shaped(u, NormalFrame(w, f), kind)
         /\ Normal(u) <=> Normal(w)
<1>1. Normal(u) <=> Normal(w)
  BY DEF Normal
<1>2. Normal(w) => w.max_mode = {}
  BY DEF Normal
<1> QED
  BY <1>1, <1>2 DEF Shaped, Remembers, NormalFrame

\* An event that is not recorded tells the size that is shown.
LEMMA ActiveChangedCalm ==
  ASSUME XdgInv, Unhurried, NEW kind, Only(kind), CalmState(kind), ActiveChanged
  PROVE  CalmState(kind)' /\ (Normal(win') <=> Normal(win))
<1>1. Step(SendUnrecorded(win)) /\ win.configures = <<>>
  BY CalmFacts DEF ActiveChanged, Can
<1>2. win \in Win /\ client.event \in Event /\ client.committed \in BOOLEAN
  BY Facts DEF XdgInv
<1>3. CASE Unborn(win, client.committed)
  <2>1. win' = win /\ client' = client
    BY <1>1, <1>3 DEF Step, SendUnrecorded, Unborn
  <2> QED
    BY <1>3, <2>1 DEF CalmState
<1>4. CASE Grown(win, client.event, client.committed) /\ Shaped(win, before, kind)
  <2> DEFINE u == Send(win)
  <2>1. win' = u /\ client' = client /\ before' = NormalFrame(win, before)
    BY <1>1, <1>4 DEF Step, SendUnrecorded, Grown, NormalFrame
  <2>2. u.restore = win.restore /\ u.quicktiling = win.quicktiling
    BY <1>2, Constants, SendKeeps
  <2>12. u = Send(win)
    OBVIOUS
  <2>13. win \in Win
    BY <1>2
  <2> HIDE DEF u
  <2>3. PICK e \in Event :
          /\ e.serial = win.serial + 1 /\ e.size = SizedAs(Null, win.syn_frame)
          /\ win.syn_max = Axis => e.special = TRUE
          /\ u \in Win /\ u.sent = Append(win.sent, e) /\ u.serial = win.serial + 1
          /\ u.configures = win.configures /\ u.acked = win.acked
          /\ u.cur_max = win.cur_max /\ u.cur_full = win.cur_full
          /\ u.syn_max = win.syn_max /\ u.syn_full = win.syn_full
          /\ u.max_mode = win.max_mode /\ u.fullscreen = win.fullscreen
          /\ u.pending = win.pending /\ u.block = win.block
          /\ Stays(u, win) /\ u.contact = win.contact /\ u.frame = win.frame
    BY <2>12, <2>13, SendIs
  <2>4. /\ u.cur_frame = win.cur_frame /\ u.syn_frame = win.syn_frame
        /\ u.must_place = win.must_place
    BY <2>3 DEF Stays
  <2>5. SameSize(e.size, win.cur_frame)
    <3>1. win.syn_frame \in Frame /\ win.frame \in Frame
      BY <1>2, Fields
    <3>2. SameSize(e.size, win.syn_frame)
      BY <2>3, <3>1, FramesEqual
    <3>3. SameSize(win.frame, win.syn_frame) /\ win.cur_frame = win.frame
      BY <1>1, <1>4 DEF Grown
    <3> QED
      BY <3>2, <3>3 DEF SameSize
  <2>6. /\ Len(u.sent) = Len(win.sent) + 1 /\ u.sent[Len(win.sent) + 1] = e
        /\ \A i \in 1..Len(win.sent) : u.sent[i] = win.sent[i]
        /\ Len(win.sent) \in Nat
    BY <1>2, <2>3, Fields
  <2>7. /\ \A i \in 1..Len(win.sent) : SameSize(win.sent[i].size, win.cur_frame)
        /\ ~client.committed => /\ client.event.serial = win.acked
                                /\ SameSize(client.event.size, win.cur_frame)
    BY <1>1, <1>4 DEF Grown, Telling, Tells
  <2>8. \A i \in 1..Len(u.sent) : SameSize(u.sent[i].size, win.cur_frame)
    BY <2>5, <2>6, <2>7
  <2>9. Telling(u, client.event, client.committed)
    BY <1>1, <2>3, <2>4, <2>7, <2>8 DEF Telling, Tells
  <2>10. Grown(u, client.event, client.committed)
    BY <1>1, <1>4, <2>3, <2>4, <2>9 DEF Grown
  <2>11. Shaped(u, NormalFrame(win, before), kind) /\ (Normal(u) <=> Normal(win))
    BY <1>4, <2>2, <2>3, SameShape
  <2> QED
    BY <2>1, <2>10, <2>11 DEF CalmState
<1>5. ~Young(win, client.event, client.committed)
  BY <1>1 DEF Young
<1> QED
  BY <1>3, <1>4, <1>5 DEF CalmState

\* A configure without a size for a window that has not been drawn.
LEMMA ConfigureYoung ==
  ASSUME NEW w \in Win, NEW z \in Frame, ~Valid(z), NEW u,
         u = ConfigureGeometry(w, z), NEW a,
         w.block = FALSE, w.pending = FALSE, w.contact = "none", Normal(w),
         w.mapped = FALSE, w.restore = Null, w.frame = Null,
         w.configures = <<>>, w.sent = <<>>, w.acked = 0
  PROVE  Young(u, a, TRUE)
<1>1. u.restore = w.restore /\ u.quicktiling = w.quicktiling
  BY SendKeeps
<1>2. PICK e \in Event, c \in Configure :
         /\ e.serial = w.serial + 1 /\ c.serial = w.serial + 1
         /\ c.max = w.max_mode /\ c.full = w.fullscreen /\ c.frame = z
         /\ u \in Win /\ u.sent = Append(w.sent, e) /\ u.serial = w.serial + 1
         /\ u.configures = Append(w.configures, c) /\ u.acked = w.acked
         /\ u.syn_max = w.max_mode /\ u.syn_full = w.fullscreen
         /\ u.max_mode = w.max_mode /\ u.fullscreen = w.fullscreen
         /\ u.pending = w.pending /\ u.block = w.block
         /\ u.cur_frame = w.cur_frame /\ u.mapped = w.mapped
         /\ u.must_place = w.must_place /\ u.contact = w.contact
         /\ u.frame = w.frame /\ u.syn_frame = z
  BY ConfigureGeometryIs
<1>3. /\ Len(u.configures) = 1 /\ u.configures[1] = c
      /\ Len(u.sent) = 1 /\ u.sent[1] = e
  BY <1>2
<1>4. \A i \in 1..Len(u.sent) : u.sent[i].serial = u.configures[1].serial
  BY <1>2, <1>3
<1>5. Normal(u)
  BY <1>1, <1>2 DEF Normal
<1> QED
  BY <1>1, <1>2, <1>3, <1>4, <1>5 DEF Young

\* The first commit asks the client for its size.
LEMMA FirstCommitCalm ==
  ASSUME XdgInv, NEW kind, CalmState(kind), HandleFirstCommit
  PROVE  CalmState(kind)' /\ (Normal(win') <=> Normal(win))
<1> DEFINE placed == [UpdateMaximized(win, win.max_mode) EXCEPT
                        !.must_place = win.max_mode = {} /\ ~win.fullscreen,
                        !.block = FALSE]
           w == Release(placed)
           z == Unsized(w.cur_frame)
           u == ConfigureGeometry(w, z)
<1>1. Step(IF w.configures = <<>> THEN u ELSE w) /\ win.block
  BY DEF HandleFirstCommit
<1>2. /\ win.pending = FALSE /\ win.contact = "none" /\ Normal(win)
      /\ win.mapped = FALSE /\ win.restore = Null /\ win.frame = Null
      /\ win.cur_frame = Null /\ win.configures = <<>> /\ win.sent = <<>>
      /\ win.acked = 0 /\ client.committed = TRUE
  BY <1>1 DEF CalmState, Unborn, Young, Grown
<1>3. win \in Win /\ win.max_mode = {} /\ win.fullscreen \in BOOLEAN /\ ~win.fullscreen
  BY <1>2, Facts, Flags DEF Normal
<1>4. UpdateMaximized(win, win.max_mode) = win
  BY <1>3 DEF UpdateMaximized
<1>5. /\ placed \in Win /\ placed.block = FALSE /\ placed.pending = FALSE
      /\ placed.contact = "none" /\ placed.mapped = FALSE
      /\ placed.max_mode = {} /\ ~placed.fullscreen
      /\ placed.quicktiling = win.quicktiling /\ placed.restore = Null
      /\ placed.frame = Null /\ placed.cur_frame = Null
      /\ placed.configures = <<>> /\ placed.sent = <<>> /\ placed.acked = 0
  BY <1>2, <1>3, <1>4 DEF Win
<1> HIDE DEF placed
<1>6. w = placed
  BY <1>5 DEF Release
<1>7. Null \in Frame /\ Unsized(Null) \in Frame
  BY Constants, Frames
<1>8. z \in Frame /\ ~Valid(z)
  BY <1>5, <1>6, <1>7 DEF Unsized, Valid, Axis
<1>9. win' = u /\ client' = client
  BY <1>1, <1>5, <1>6 DEF Step
<1>10. Normal(placed)
  BY <1>2, <1>5 DEF Normal
<1>11. Young(u, client.event, TRUE)
  BY <1>5, <1>6, <1>8, <1>10, ConfigureYoung
<1> HIDE DEF u
<1>12. Normal(u)
  BY <1>11 DEF Young
<1> QED
  BY <1>2, <1>9, <1>11, <1>12 DEF CalmState

\* The client acknowledges an event, and has yet to draw for it.
LEMMA AckCalm ==
  ASSUME XdgInv, NEW kind, CalmState(kind),
         NEW k \in 1..Len(win.sent), AckConfigure(k)
  PROVE  CalmState(kind)' /\ (Normal(win') <=> Normal(win))
<1> DEFINE e == win.sent[k]
           n == e.serial
           r == SubSeq(win.sent, k + 1, Len(win.sent))
           u == [win EXCEPT !.acked = n, !.sent = r]
<1>0. win \in Win /\ win.sent \in Seq(Event) /\ e \in Event /\ n \in Nat
      /\ Len(win.sent) \in Nat
  BY Facts, Fields, ConfigureTypes
<1>1. /\ win' = u /\ client' = [event |-> e, committed |-> FALSE]
      /\ before' = before
  BY DEF AckConfigure
<1>2. r \in Seq(Event) /\ Len(r) = Len(win.sent) - k
      /\ \A i \in 1..Len(r) : r[i] = win.sent[i + k]
  BY <1>0
<1>3. client'.event = e /\ client'.committed = FALSE
  BY <1>1
<1>4. \A i \in 1..Len(r) : i + k \in 1..Len(win.sent)
  BY <1>0, <1>2
<1> HIDE DEF r, n
<1>5. /\ u.configures = win.configures /\ u.frame = win.frame
      /\ u.sent = r /\ u.acked = n /\ u.restore = win.restore
      /\ u.quicktiling = win.quicktiling
      /\ u.max_mode = win.max_mode /\ u.fullscreen = win.fullscreen
      /\ u.cur_frame = win.cur_frame /\ u.syn_frame = win.syn_frame
      /\ u.contact = win.contact /\ u.block = win.block /\ u.mapped = win.mapped
      /\ u.pending = win.pending /\ u.must_place = win.must_place
  BY <1>0, <1>2 DEF Win
<1> HIDE DEF u
<1>6. Normal(u) <=> Normal(win)
  BY <1>5 DEF Normal
<1>7. CASE Young(win, client.event, client.committed)
  <2>1. \A i \in 1..Len(win.sent) : win.sent[i].serial = win.configures[1].serial
    BY <1>7 DEF Young
  <2>2. \A i \in 1..Len(r) : r[i].serial = win.configures[1].serial
    BY <1>2, <1>4, <2>1
  <2>3. n = win.configures[1].serial
    BY <2>1 DEF n
  <2>4. Young(u, e, FALSE)
    BY <1>5, <1>6, <1>7, <2>2, <2>3 DEF Young, n
  <2> QED
    BY <1>1, <1>3, <1>6, <2>4 DEF CalmState
<1>8. CASE Grown(win, client.event, client.committed) /\ Shaped(win, before, kind)
  <2>1. \A i \in 1..Len(win.sent) : Tells(win.sent[i], win)
    BY <1>8 DEF Grown, Telling
  <2>2. \A x : Tells(x, win) => Tells(x, u)
    BY <1>5 DEF Tells
  <2>3. \A i \in 1..Len(r) : Tells(r[i], u)
    BY <1>2, <1>4, <2>1, <2>2
  <2>4. Telling(u, e, FALSE)
    BY <1>5, <2>1, <2>2, <2>3 DEF Telling, n
  <2>5. Grown(u, e, FALSE)
    BY <1>5, <1>8, <2>4 DEF Grown
  <2>6. Shaped(u, before, kind)
    BY <1>5, <1>8, SameShape
  <2> QED
    BY <1>1, <1>3, <1>6, <2>5, <2>6 DEF CalmState
<1>9. ~Unborn(win, client.committed)
  BY DEF Unborn
<1> QED
  BY <1>7, <1>8, <1>9 DEF CalmState

LEMMA UnmapCalm ==
  ASSUME XdgInv, NEW kind, CalmState(kind), Unmap
  PROVE  CalmState(kind)' /\ (Normal(win') <=> Normal(win))
<1> DEFINE u == [win EXCEPT !.mapped = FALSE, !.contact = "none"]
<1>1. win' = u /\ client' = client /\ before' = before /\ win.mapped
  BY DEF Unmap
<1>2. win \in Win
  BY Facts
<1>3. /\ u.configures = win.configures /\ u.frame = win.frame
      /\ u.sent = win.sent /\ u.acked = win.acked /\ u.restore = win.restore
      /\ u.quicktiling = win.quicktiling
      /\ u.max_mode = win.max_mode /\ u.fullscreen = win.fullscreen
      /\ u.cur_frame = win.cur_frame /\ u.syn_frame = win.syn_frame
      /\ u.contact = "none" /\ u.block = win.block
      /\ u.pending = win.pending /\ u.must_place = win.must_place
  BY <1>2 DEF Win
<1> HIDE DEF u
<1>4. Grown(win, client.event, client.committed) /\ Shaped(win, before, kind)
  BY <1>1 DEF CalmState, Unborn, Young
<1>5. \A x : Tells(x, win) => Tells(x, u)
  BY <1>3 DEF Tells
<1>6. Telling(u, client.event, client.committed)
  BY <1>3, <1>4, <1>5 DEF Grown, Telling
<1>7. Grown(u, client.event, client.committed)
  BY <1>3, <1>4, <1>6 DEF Grown
<1>8. Shaped(u, before, kind) /\ (Normal(u) <=> Normal(win))
  BY <1>3, <1>4, SameShape
<1> QED
  BY <1>1, <1>7, <1>8 DEF CalmState

\* The client has acknowledged the only configure, and every event up to it.
Due(w) ==
  /\ w.pending = FALSE /\ w.contact = "none" /\ Len(w.configures) = 1
  /\ w.configures[1].serial = w.acked
  /\ \A i \in 1..Len(w.sent) : w.sent[i].serial <= w.configures[1].serial

\* It is shown as frame f, and nothing is on its way.
Drawn(end, w, f, size) ==
  /\ end \in Win /\ end.configures = <<>> /\ end.sent = <<>>
  /\ f \in Frame /\ end.cur_frame = f /\ end.block = w.block
  /\ end.pending = FALSE /\ end.contact = "none"
  /\ end.restore = w.restore /\ end.quicktiling = w.quicktiling
  /\ end.max_mode = w.max_mode /\ end.fullscreen = w.fullscreen
  /\ end.must_place = w.must_place
  /\ Valid(w.syn_frame) /\ SameSize(f, w.frame) =>
       end.frame = w.frame /\ end.syn_frame = w.syn_frame
  /\ ~Valid(w.syn_frame) => end.frame = f /\ end.syn_frame = size

LEMMA ApplyOnly ==
  ASSUME NEW committed, NEW E, NEW w, Good(w, committed, E), Due(w),
         NEW size \in Frame
  PROVE  Drawn(ApplyPendingGeometry(w, size), w,
               SizedAs(w.configures[1].frame, size), size)
<1> DEFINE f == SizedAs(w.configures[1].frame, size)
           end == ApplyPendingGeometry(w, size)
           first == IF Valid(w.syn_frame) THEN w
                    ELSE [w EXCEPT !.syn_frame = size, !.frame = f]
           u == [first EXCEPT !.configures = <<>>]
           shown == DoSetGeometry(u, f)
           c == w.configures[1]
           applied == [shown EXCEPT !.cur_max = c.max, !.cur_full = c.full]
<1>0. /\ w \in Win /\ w.configures \in Seq(Configure) /\ c \in Configure
      /\ w.sent \in Seq(Event) /\ w.acked \in Nat /\ SerialInv(w)
      /\ w.frame \in Frame
  BY Fields, ConfigureTypes DEF Good, Due
<1>1. /\ c.frame \in Frame /\ c.max \in SUBSET Axis /\ c.full \in BOOLEAN
      /\ f \in Frame
  BY <1>0, Frames DEF Configure
<1>2. Matching(w) = {1}
  BY DEF Matching, Due
<1>3. (CHOOSE i \in Matching(w) : TRUE) = 1
  BY <1>2
<1>4. LaterConfigures(w.configures, 1) = <<>>
  BY <1>0 DEF LaterConfigures, Due
<1>5. end = applied
  BY <1>2, <1>3, <1>4 DEF ApplyPendingGeometry, IsResize, Due
<1> HIDE DEF end, f
<1>6. w.sent = <<>>
  <2> SUFFICES ASSUME w.sent # <<>> PROVE FALSE
    OBVIOUS
  <2>1. 1 \in 1..Len(w.sent)
    BY <1>0
  <2>2. w.sent[1].serial \in Serials(w.sent) /\ w.sent[1].serial \in Nat
    BY <1>0, <2>1, ConfigureTypes DEF Serials
  <2>3. w.acked < w.sent[1].serial
    BY <1>0, <2>2 DEF SerialInv
  <2> QED
    BY <1>0, <2>1, <2>2, <2>3 DEF Due
<1>7. /\ first \in Win /\ first.restore = w.restore /\ first.contact = w.contact
      /\ first.quicktiling = w.quicktiling /\ first.max_mode = w.max_mode
      /\ first.fullscreen = w.fullscreen /\ first.must_place = w.must_place
      /\ first.pending = w.pending /\ first.block = w.block /\ first.sent = w.sent
      /\ Valid(w.syn_frame) => first.frame = w.frame /\ first.syn_frame = w.syn_frame
      /\ ~Valid(w.syn_frame) => first.frame = f /\ first.syn_frame = size
  BY <1>0, <1>1, ZenonT(30) DEF Win
<1> HIDE DEF first
<1>8. /\ u \in Win /\ u.restore = w.restore /\ u.contact = w.contact
      /\ u.quicktiling = w.quicktiling /\ u.max_mode = w.max_mode
      /\ u.fullscreen = w.fullscreen /\ u.must_place = w.must_place
      /\ u.pending = FALSE /\ u.block = w.block /\ u.sent = w.sent
      /\ u.configures = <<>>
      /\ u.frame = first.frame /\ u.syn_frame = first.syn_frame
  <2> DEFINE q == <<>>
  <2>1. q \in Seq(Configure)
    OBVIOUS
  <2>2. u = [first EXCEPT !.configures = q]
    OBVIOUS
  <2> HIDE DEF q, u
  <2>3. /\ u \in Win /\ u.restore = first.restore /\ u.contact = first.contact
        /\ u.quicktiling = first.quicktiling /\ u.max_mode = first.max_mode
        /\ u.fullscreen = first.fullscreen /\ u.must_place = first.must_place
        /\ u.pending = first.pending /\ u.block = first.block
        /\ u.sent = first.sent /\ u.configures = q
        /\ u.frame = first.frame /\ u.syn_frame = first.syn_frame
    BY <1>7, <2>1, <2>2 DEF Win
  <2> QED
    BY <1>7, <2>3 DEF q, Due
<1> HIDE DEF u
<1>9. /\ shown \in Win /\ shown.restore = u.restore /\ shown.contact = u.contact
      /\ shown.quicktiling = u.quicktiling /\ shown.max_mode = u.max_mode
      /\ shown.fullscreen = u.fullscreen /\ shown.must_place = u.must_place
      /\ shown.pending = FALSE /\ shown.block = u.block /\ shown.sent = u.sent
      /\ shown.configures = u.configures /\ shown.cur_frame = f
      /\ shown.syn_frame = u.syn_frame
      /\ SameSize(f, u.frame) => shown.frame = u.frame
  <2>1. u.frame \in Frame /\ SizedAs(u.frame, f) \in Frame
    BY <1>1, <1>8, Fields, Frames
  <2>2. SameSize(f, u.frame) => SizedAs(u.frame, f) = u.frame
    BY <1>1, <2>1, FramesEqual, SizesEqual
  <2>3. CASE u.cur_frame = f
    <3>1. shown = u
      BY <2>3 DEF DoSetGeometry
    <3> QED
      BY <1>8, <2>3, <3>1
  <2>4. CASE u.cur_frame # f
    <3> DEFINE g == SizedAs(u.frame, f)
    <3>1. shown = [u EXCEPT !.cur_frame = f, !.frame = g]
      BY <1>8, <2>4 DEF DoSetGeometry, Win
    <3> HIDE DEF g
    <3>3. g \in Frame
      BY <2>1 DEF g
    <3> HIDE DEF shown
    <3>2. /\ shown \in Win /\ shown.restore = u.restore /\ shown.contact = u.contact
          /\ shown.quicktiling = u.quicktiling /\ shown.max_mode = u.max_mode
          /\ shown.fullscreen = u.fullscreen /\ shown.must_place = u.must_place
          /\ shown.pending = u.pending /\ shown.block = u.block
          /\ shown.sent = u.sent
          /\ shown.configures = u.configures /\ shown.cur_frame = f
          /\ shown.syn_frame = u.syn_frame /\ shown.frame = g
      BY <1>1, <1>8, <3>1, <3>3 DEF Win
    <3> QED
      BY <1>8, <2>2, <3>2 DEF g
  <2> QED
    BY <2>3, <2>4
<1> HIDE DEF shown
<1>10. /\ applied \in Win /\ applied.restore = shown.restore
       /\ applied.contact = shown.contact
       /\ applied.quicktiling = shown.quicktiling
       /\ applied.max_mode = shown.max_mode
       /\ applied.fullscreen = shown.fullscreen
       /\ applied.must_place = shown.must_place
       /\ applied.pending = FALSE /\ applied.block = shown.block
       /\ applied.sent = shown.sent /\ applied.configures = shown.configures
       /\ applied.cur_frame = shown.cur_frame /\ applied.frame = shown.frame
       /\ applied.syn_frame = shown.syn_frame
  BY <1>1, <1>9 DEF Win
<1> HIDE DEF applied
<1>11. SameSize(f, f)
  BY DEF SameSize
<1>12. /\ Valid(w.syn_frame) /\ SameSize(f, w.frame) =>
            end.frame = w.frame /\ end.syn_frame = w.syn_frame
       /\ ~Valid(w.syn_frame) => end.frame = f /\ end.syn_frame = size
  BY <1>5, <1>7, <1>8, <1>9, <1>10, <1>11
<1> QED
  BY <1>1, <1>5, <1>6, <1>7, <1>8, <1>9, <1>10, <1>12 DEF Drawn, Due, end, f

\* What window management has asked for stays as it is.
Carried(v, u) ==
  /\ v.frame = u.frame /\ v.restore = u.restore /\ v.quicktiling = u.quicktiling
  /\ v.max_mode = u.max_mode /\ v.fullscreen = u.fullscreen

\* A commit of the size that was told shows what is on its way, or changes
\* nothing.
LEMMA ApplyGrown ==
  ASSUME NEW committed \in BOOLEAN, ~committed, NEW E, NEW w,
         Good(w, committed, E), NEW a \in Event, Grown(w, a, committed),
         NEW size \in Frame, SameSize(size, a.size),
         NEW end, end = ApplyPendingGeometry(w, size)
  PROVE  Grown(end, a, TRUE) /\ end \in Win /\ Carried(end, w)
<1>0. /\ w \in Win /\ w.frame \in Frame /\ w.cur_frame \in Frame /\ a.size \in Frame
      /\ w.configures \in Seq(Configure) /\ w.acked \in Nat
  BY Fields DEF Good, Event
<1>1. a.serial = w.acked /\ Tells(a, w)
      /\ \A i \in 1..Len(w.sent) : Tells(w.sent[i], w)
  BY DEF Grown, Telling
<1>2. ASSUME Matching(w) = {}, SameSize(a.size, w.cur_frame) PROVE end = w
  <2>1. SameSize(w.cur_frame, size)
    BY <1>2 DEF SameSize
  <2>2. SizedAs(w.cur_frame, size) = w.cur_frame
    BY <1>0, <2>1, FramesEqual
  <2> QED
    BY <1>2, <2>2 DEF ApplyPendingGeometry
<1>3. Grown(w, a, TRUE)
  BY DEF Grown, Telling
<1>4. CASE w.configures = <<>>
  <2>1. Matching(w) = {}
    BY <1>4 DEF Matching
  <2>2. SameSize(a.size, w.cur_frame)
    BY <1>1, <1>4 DEF Tells
  <2>3. end = w
    BY <1>2, <2>1, <2>2
  <2> QED
    BY <1>0, <1>3, <2>3 DEF Carried
<1>5. CASE w.configures # <<>>
  <2> DEFINE c == w.configures[1]
  <2>1. Len(w.configures) = 1 /\ c.frame = w.frame
    BY <1>5 DEF Grown
  <2>2. CASE a.serial = c.serial
    <3> DEFINE f == SizedAs(c.frame, size)
    <3>1. SameSize(a.size, w.frame)
      BY <1>1, <1>5, <2>1, <2>2 DEF Tells
    <3>2. f = w.frame
      <4>1. SameSize(w.frame, size)
        BY <3>1 DEF SameSize
      <4> QED
        BY <1>0, <2>1, <4>1, FramesEqual
    <3>3. \A i \in 1..Len(w.sent) : w.sent[i].serial <= c.serial
      BY <1>1, <1>5 DEF Tells
    <3>4. /\ w.pending = FALSE /\ w.contact = "none" /\ Valid(w.syn_frame)
          /\ Valid(w.frame) /\ SameSize(w.frame, w.syn_frame)
          /\ w.block = FALSE /\ w.must_place = FALSE
      BY DEF Grown
    <3>5. SameSize(f, w.frame)
      BY <3>2 DEF SameSize
    <3>6. c.serial = w.acked
      BY <1>1, <2>2
    <3>7. f = SizedAs(w.configures[1].frame, size)
      OBVIOUS
    <3> HIDE DEF f
    <3>8. /\ end \in Win /\ end.configures = <<>> /\ end.sent = <<>>
          /\ f \in Frame /\ end.cur_frame = f /\ end.block = w.block
          /\ end.pending = FALSE /\ end.contact = "none"
          /\ end.restore = w.restore /\ end.quicktiling = w.quicktiling
          /\ end.max_mode = w.max_mode /\ end.fullscreen = w.fullscreen
          /\ end.must_place = w.must_place
          /\ end.frame = w.frame /\ end.syn_frame = w.syn_frame
      <4>1. Due(w)
        BY <2>1, <3>3, <3>4, <3>6 DEF Due
      <4>2. Drawn(end, w, f, size)
        BY <3>7, <4>1, ApplyOnly
      <4> QED
        BY <3>4, <3>5, <4>2 DEF Drawn
    <3>9. Telling(end, a, TRUE)
      BY <3>8 DEF Telling
    <3>10. Grown(end, a, TRUE)
      BY <3>2, <3>4, <3>8, <3>9 DEF Grown
    <3> QED
      BY <3>8, <3>10 DEF Carried
  <2>3. CASE a.serial # c.serial
    <3>1. SameSize(a.size, w.cur_frame)
      BY <1>1, <1>5, <2>3 DEF Tells
    <3>2. Matching(w) = {}
      BY <1>1, <2>1, <2>3 DEF Matching
    <3>3. end = w
      BY <1>2, <3>1, <3>2
    <3> QED
      BY <1>0, <1>3, <3>3 DEF Carried
  <2> QED
    BY <2>2, <2>3
<1> QED
  BY <1>4, <1>5

\* The released update leaves alone what it asks for.
LEMMA ReleaseCarries ==
  ASSUME NEW committed \in BOOLEAN, NEW E, NEW w, Good(w, committed, E),
         NEW a \in Event, Grown(w, a, committed), w.configures = <<>>,
         NEW u, Asked(u, w), Valid(u.frame)
  PROVE  Grown(Release(u), a, committed) /\ Carried(Release(u), u)
BY ReleaseGrown DEF Carried

\* Of that, at most the frame has changed.
Moved(end, w) ==
  /\ end \in Win
  /\ end.restore = w.restore /\ end.quicktiling = w.quicktiling
  /\ end.max_mode = w.max_mode /\ end.fullscreen = w.fullscreen
  /\ w.must_place = FALSE => end.frame = w.frame

\* Placement asks for another position, once.
LEMMA PlaceGrown ==
  ASSUME NEW t \in BOOLEAN, t, NEW E, NEW w, Good(w, t, E), NEW a \in Event,
         Grown([w EXCEPT !.must_place = FALSE], a, t),
         w.must_place => w.configures = <<>>, NEW end, end = Place(w)
  PROVE  Grown(end, a, t) /\ Moved(end, w)
<1> DEFINE x == [w EXCEPT !.must_place = FALSE]
           f == MovedTo(w.cur_frame, Placed)
           u == SetFrame(x, f)
<1>0. w \in Win /\ w.cur_frame \in Frame /\ Placed \in Frame /\ f \in Frame
  BY Fields, Frames, Constants DEF Good
<1>1. end = IF w.must_place /\ ~SamePos(w.cur_frame, Placed) THEN Release(u) ELSE x
  BY DEF Place, SetFrameGeometry
<1>2. Good(x, t, E)
  <2>1. Alike(x, w) /\ x.pending = w.pending
    BY <1>0, SetPlacedIs
  <2>2. x.pending = FALSE
    BY DEF Grown
  <2> QED
    BY <2>1, <2>2, AlikeIsGood
<1>3. /\ x \in Win /\ x.restore = w.restore /\ x.quicktiling = w.quicktiling
      /\ x.max_mode = w.max_mode /\ x.fullscreen = w.fullscreen
      /\ x.frame = w.frame /\ x.configures = w.configures
      /\ x.cur_frame = w.cur_frame
  BY <1>0 DEF Win
<1>6. Grown(x, a, t)
  OBVIOUS
<1> HIDE DEF x
<1>4. CASE w.must_place /\ ~SamePos(w.cur_frame, Placed)
  <2>1. Valid(f)
    <3>1. Valid(w.cur_frame)
      BY <1>3, <1>6 DEF Grown
    <3> QED
      BY <1>0, <3>1 DEF Valid, MovedTo
  <2> HIDE DEF f
  <2>2. Asked(u, x)
    BY <1>0, <1>3, SetFrameIs, ManagedAsked
  <2>3. /\ u.frame = f /\ u.restore = x.restore /\ u.quicktiling = x.quicktiling
        /\ u.max_mode = x.max_mode /\ u.fullscreen = x.fullscreen
    BY <1>3 DEF SetFrame, Win
  <2> HIDE DEF u
  <2>4. x.configures = <<>> /\ Valid(u.frame)
    BY <1>3, <1>4, <2>1, <2>3
  <2>5. Grown(Release(u), a, t) /\ Carried(Release(u), u)
    BY <1>2, <1>6, <2>2, <2>4, ReleaseCarries
  <2>6. end = Release(u)
    BY <1>1, <1>4
  <2>7. end \in Win
    <3>1. w.pending => w.block
      BY <1>0, <1>2, SetPlacedIs DEF Grown
    <3>2. Good(w, TRUE, E)
      BY DEF Good, AnswerInv
    <3> QED
      BY <3>1, <3>2, PlaceIsGood DEF Good
  <2> QED
    BY <1>3, <1>4, <2>3, <2>5, <2>6, <2>7 DEF Carried, Moved
<1>5. CASE ~(w.must_place /\ ~SamePos(w.cur_frame, Placed))
  BY <1>1, <1>3, <1>5, <1>6 DEF Moved
<1> QED
  BY <1>4, <1>5

\* The first buffer: the window is drawn in the size its client chose.
LEMMA ApplyYoung ==
  ASSUME NEW committed \in BOOLEAN, ~committed, NEW E, NEW w,
         Good(w, committed, E), NEW a, Young(w, a, committed),
         NEW size \in Frame, Valid(size), NEW b,
         NEW end, end = ApplyPendingGeometry(w, size)
  PROVE  /\ Grown([end EXCEPT !.must_place = FALSE], b, TRUE) /\ end \in Win
         /\ end.configures = <<>> /\ Normal(end) /\ end.restore = Null
<1> DEFINE f == SizedAs(w.configures[1].frame, size)
           x == [end EXCEPT !.must_place = FALSE]
<1>0. w \in Win /\ w.configures[1].frame \in Frame
  <2>1. w \in Win /\ 1 \in 1..Len(w.configures)
    BY DEF Good, Young
  <2> QED
    BY <2>1, ConfigureTypes DEF Configure
<1>1. Due(w)
  <2>1. \A i \in 1..Len(w.sent) : w.sent[i].serial = w.configures[1].serial
    BY DEF Young
  <2>2. \A i \in 1..Len(w.sent) : w.sent[i].serial <= w.configures[1].serial
    <3>1. w.configures[1].serial \in Nat
      BY <1>0, ConfigureTypes DEF Young
    <3> QED
      BY <2>1, <3>1
  <2> QED
    BY <2>2 DEF Due, Young
<1>2. Drawn(end, w, f, size)
  BY <1>1, ApplyOnly
<1>3. Valid(f) /\ SameSize(f, size)
  BY <1>0 DEF Valid, SizedAs, SameSize, Frame
<1> HIDE DEF f
<1>4. /\ end \in Win /\ end.configures = <<>> /\ end.sent = <<>>
      /\ end.cur_frame = f /\ end.frame = f /\ end.syn_frame = size
      /\ end.block = FALSE /\ end.pending = FALSE /\ end.contact = "none"
      /\ end.restore = Null
  BY <1>2 DEF Drawn, Young
<1>5. Normal(end)
  BY <1>2 DEF Drawn, Young, Normal
<1>6. /\ x.configures = <<>> /\ x.sent = <<>> /\ x.must_place = FALSE
      /\ x.cur_frame = f /\ x.frame = f /\ x.syn_frame = size
      /\ x.block = FALSE /\ x.pending = FALSE /\ x.contact = "none"
  BY <1>4 DEF Win
<1> HIDE DEF x
<1>7. Telling(x, b, TRUE)
  BY <1>6 DEF Telling
<1>8. Grown(x, b, TRUE)
  BY <1>3, <1>6, <1>7 DEF Grown
<1> QED
  BY <1>4, <1>5, <1>8 DEF x

\* In normal mode without a restore geometry nothing is left to remember.
LEMMA NormalShaped ==
  ASSUME NEW w, Normal(w), w.restore = Null, NEW f, NEW kind,
         w.fullscreen \in BOOLEAN
  PROVE  Shaped(w, f, kind)
BY DEF Shaped, Normal, Axis

\* A commit shows what is on its way, and the modes stay as they were asked for.
LEMMA CommitCalm ==
  ASSUME XdgInv, Unhurried, NEW kind, Only(kind), CalmState(kind),
         NEW n \in ClientSize, HandleCommit(n)
  PROVE  CalmState(kind)' /\ (Normal(win') <=> Normal(win))
<1> DEFINE a == client.event
           told == a.size
           size == [x \in Axis |->
                      [at |-> 0, len |-> IF told[x].len > 0 /\ ~client.committed
                                         THEN told[x].len ELSE n]]
           applied == ApplyPendingGeometry(win, size)
           placed == Place(applied)
           u == [placed EXCEPT !.mapped = TRUE]
<1>0. /\ win \in Win /\ Good(win, client.committed, events) /\ a \in Event
      /\ client.committed \in BOOLEAN /\ (win.pending => win.block)
  BY Facts DEF XdgInv
<1>1. /\ win' = u /\ client' = [client EXCEPT !.committed = TRUE]
      /\ before' = before /\ win.acked > 0
      /\ client.committed => "client_size" \in events
  BY DEF HandleCommit
<1>2. ~client.committed
  BY <1>1, CalmFacts
<1>3. client'.event = a /\ client'.committed = TRUE
  BY <1>1 DEF XdgInv
<1>4. told \in Frame /\ size \in Frame /\ Valid(size)
      /\ (Valid(told) => SameSize(size, told))
  <2>1. told \in Frame /\ n \in Nat /\ n > 0
    BY <1>0, XdgAssumption DEF Event
  <2>2. size \in Frame /\ Valid(size)
    BY <2>1 DEF Frame, Valid
  <2>3. Valid(told) => SameSize(size, told)
    BY <1>2 DEF Valid, SameSize
  <2> QED
    BY <2>1, <2>2, <2>3
<1> HIDE DEF size
<1>5. Good(applied, TRUE, events)
  BY <1>0, <1>4, ApplyIsGood
<1>6. /\ Grown([applied EXCEPT !.must_place = FALSE], a, TRUE)
      /\ applied.must_place => applied.configures = <<>>
      /\ applied.must_place # FALSE => Normal(applied) /\ applied.restore = Null
      /\ applied.must_place = FALSE => Shaped(applied, before, kind)
      /\ Normal(applied) <=> Normal(win)
  <2>1. CASE Young(win, a, client.committed)
    <3>1. /\ Grown([applied EXCEPT !.must_place = FALSE], a, TRUE)
          /\ applied \in Win /\ applied.configures = <<>>
          /\ Normal(applied) /\ applied.restore = Null
      BY <1>0, <1>2, <1>4, <2>1, ApplyYoung
    <3>2. Normal(win)
      BY <2>1 DEF Young
    <3> HIDE DEF applied
    <3>3. Shaped(applied, before, kind)
      BY <3>1, Flags, NormalShaped
    <3> QED
      BY <3>1, <3>2, <3>3
  <2>2. CASE Grown(win, a, client.committed) /\ Shaped(win, before, kind)
    <3>1. Valid(told)
      <4>1. /\ Tells(a, win) /\ Valid(win.cur_frame) /\ Valid(win.frame)
            /\ win.configures # <<>> => win.configures[1].frame = win.frame
        BY <1>2, <2>2 DEF Grown, Telling
      <4>2. \/ SameSize(told, win.cur_frame)
            \/ SameSize(told, win.frame)
        BY <4>1 DEF Tells
      <4>3. win.cur_frame \in Frame /\ win.frame \in Frame
        BY <1>0, Fields
      <4> QED
        BY <1>4, <4>1, <4>2, <4>3, SizesEqual
    <3>2. SameSize(size, a.size)
      BY <1>4, <3>1
    <3>3. /\ Grown(applied, a, TRUE) /\ applied \in Win
          /\ Carried(applied, win)
      BY <1>0, <1>2, <1>4, <2>2, <3>2, ApplyGrown
    <3> HIDE DEF applied
    <3>4. applied.must_place = FALSE
      BY <3>3 DEF Grown
    <3>5. [applied EXCEPT !.must_place = FALSE] = applied
      BY <3>3, <3>4 DEF Win
    <3>6. Shaped(applied, before, kind) /\ (Normal(applied) <=> Normal(win))
      BY <2>2, <3>3, SameShape DEF Carried
    <3> QED
      BY <3>3, <3>4, <3>5, <3>6
  <2>3. ~Unborn(win, client.committed)
    BY <1>2 DEF Unborn
  <2> QED
    BY <2>1, <2>2, <2>3 DEF CalmState
<1> HIDE DEF applied
<1>7. Grown(placed, a, TRUE) /\ Moved(placed, applied)
  <2>1. PICK t \in BOOLEAN : t = TRUE
    OBVIOUS
  <2>2. t \in BOOLEAN /\ t /\ Good(applied, t, events)
    BY <1>5, <2>1
  <2>3. /\ Grown([applied EXCEPT !.must_place = FALSE], a, t)
        /\ applied.must_place => applied.configures = <<>>
    BY <1>6, <2>1
  <2>4. Grown(placed, a, t) /\ Moved(placed, applied)
    BY <1>0, <2>2, <2>3, PlaceGrown
  <2> QED
    BY <2>1, <2>4
<1> HIDE DEF placed
<1>8. /\ u \in Win /\ u.configures = placed.configures /\ u.frame = placed.frame
      /\ u.sent = placed.sent /\ u.acked = placed.acked
      /\ u.restore = placed.restore /\ u.quicktiling = placed.quicktiling
      /\ u.max_mode = placed.max_mode /\ u.fullscreen = placed.fullscreen
      /\ u.cur_frame = placed.cur_frame /\ u.syn_frame = placed.syn_frame
      /\ u.contact = placed.contact /\ u.block = placed.block
      /\ u.pending = placed.pending /\ u.must_place = placed.must_place
  BY <1>7 DEF Win, Moved
<1> HIDE DEF u
<1>9. \A x : Tells(x, placed) => Tells(x, u)
  BY <1>8 DEF Tells
<1>10. Telling(u, a, TRUE)
  BY <1>7, <1>8, <1>9 DEF Grown, Telling
<1>11. Grown(u, a, TRUE)
  BY <1>7, <1>8, <1>10 DEF Grown
<1>12. Normal(u) <=> Normal(win)
  BY <1>6, <1>7, <1>8 DEF Normal, Moved
<1>13. Shaped(u, before, kind)
  <2>1. CASE applied.must_place = FALSE
    BY <1>6, <1>7, <1>8, <2>1, SameShape DEF Moved
  <2>2. CASE applied.must_place # FALSE
    <3>1. Normal(u) /\ u.restore = Null /\ u.fullscreen \in BOOLEAN
      BY <1>6, <1>7, <1>8, <1>12, <2>2, Flags DEF Moved
    <3> QED
      BY <3>1, NormalShaped
  <2> QED
    BY <2>1, <2>2
<1> QED
  BY <1>1, <1>3, <1>11, <1>12, <1>13 DEF CalmState

LEMMA ModesCalm ==
  ASSUME XdgInv, Unhurried, NEW kind, Only(kind), CalmState(kind), Modes
  PROVE  /\ CalmState(kind)'
         /\ ~Normal(win) /\ Normal(win') => win'.frame = before
<1>1. /\ "client_modes" \notin events /\ "repeat" \notin events
  BY CalmFacts
<1>2. ASSUME NEW on \in BOOLEAN,
             HandleMaximizeRequest(on) \/ HandleFullscreenRequest(on)
      PROVE  FALSE
  BY <1>1, <1>2 DEF HandleMaximizeRequest, HandleFullscreenRequest, Can
<1>3. ASSUME NEW axes \in (SUBSET Axis) \ {{}}, MaximizeOp(axes)
      PROVE  /\ CalmState(kind)'
             /\ ~Normal(win) /\ Normal(win') => win'.frame = before
  BY <1>3, MaximizeOpCalm
<1>4. CASE FullScreenOp
  BY <1>4, FullScreenOpCalm
<1>5. ASSUME NEW mode \in {"left", "maximize"}, QuickTileWindow(mode)
      PROVE  /\ CalmState(kind)'
             /\ ~Normal(win) /\ Normal(win') => win'.frame = before
  BY <1>5, QuickTileCalm
<1>6. CASE ActiveChanged
  BY <1>6, ActiveChangedCalm
<1> QED
  BY <1>2, <1>3, <1>4, <1>5, <1>6 DEF Modes

\* Nothing is dragged.
LEMMA NoneDragged ==
  ASSUME XdgInv, Unhurried, NEW kind, Only(kind), CalmState(kind)
  PROVE  ~Dragging
<1>1. "move" \notin events /\ "resize" \notin events /\ win.contact = "none"
  BY CalmFacts
<1>2. ~StartMove
  BY <1>1 DEF StartMove, Can
<1>3. \A p \in Pos : ~MoveStep(p)
  BY <1>1 DEF MoveStep, Can
<1>4. \A c \in {"top_left", "bottom_right"} : ~StartResize(c)
  BY <1>1 DEF StartResize, Can
<1>5. \A n \in ClientSize : ~ResizeStep(n)
  BY <1>1 DEF ResizeStep, Can
<1>6. \A cancel \in BOOLEAN, edge \in {"none", "left", "maximize"} :
        ~Finish(cancel, edge)
  BY <1>1 DEF Finish
<1> QED
  BY <1>2, <1>3, <1>4, <1>5, <1>6 DEF Dragging

LEMMA StepCalm ==
  ASSUME XdgInv, Unhurried, NEW kind, Only(kind), CalmState(kind), Next
  PROVE  /\ CalmState(kind)'
         /\ ~Normal(win) /\ Normal(win') => win'.frame = before
<1>1. CASE Modes
  BY <1>1, ModesCalm
<1>2. CASE Dragging
  BY <1>2, NoneDragged
<1>3. CASE HandleFirstCommit
  BY <1>3, FirstCommitCalm
<1>4. CASE Ack
  BY <1>4, AckCalm DEF Ack
<1>5. CASE Commit
  BY <1>5, CommitCalm DEF Commit
<1>6. CASE Unmap
  BY <1>6, UnmapCalm
<1> QED
  BY <1>1, <1>2, <1>3, <1>4, <1>5, <1>6 DEF Next

LEMMA InitCalm ==
  Init => CalmInv
<1> SUFFICES ASSUME Init, NEW kind PROVE CalmState(kind)
  BY DEF CalmInv
<1>1. Unborn(win, client.committed)
  BY DEF Init, Unborn, Normal
<1> QED
  BY <1>1 DEF CalmState

\* The events of a behaviour stay the same.
LEMMA EventsStay ==
  [Next]_vars => events' = events
<1> SUFFICES ASSUME [Next]_vars PROVE events' = events
  OBVIOUS
<1>1. CASE Modes
  BY <1>1 DEF Modes, HandleMaximizeRequest, HandleFullscreenRequest, MaximizeOp,
              FullScreenOp, QuickTileWindow, ActiveChanged, Step
<1>2. CASE Dragging
  BY <1>2 DEF Dragging, StartMove, MoveStep, StartResize, ResizeStep, Finish, Step
<1>3. CASE HandleFirstCommit
  BY <1>3 DEF HandleFirstCommit, Step
<1>4. CASE Ack
  BY <1>4 DEF Ack, AckConfigure
<1>5. CASE Commit
  BY <1>5 DEF Commit, HandleCommit
<1>6. CASE Unmap
  BY <1>6 DEF Unmap
<1>7. CASE UNCHANGED vars
  BY <1>7 DEF vars
<1> QED
  BY <1>1, <1>2, <1>3, <1>4, <1>5, <1>6, <1>7 DEF Next

LEMMA NextCalm ==
  XdgInv /\ CalmInv /\ [Next]_vars => CalmInv'
<1> SUFFICES ASSUME XdgInv, CalmInv, [Next]_vars, Unhurried', NEW kind, Only(kind)'
             PROVE  CalmState(kind)'
  BY DEF CalmInv
<1>1. Unhurried /\ Only(kind)
  BY EventsStay DEF Unhurried, Only, Without
<1>2. CalmState(kind)
  BY <1>1 DEF CalmInv
<1>3. CASE Next
  BY <1>1, <1>2, <1>3, StepCalm
<1>4. CASE UNCHANGED vars
  BY <1>2, <1>4 DEF vars, CalmState
<1> QED
  BY <1>3, <1>4

\* Modes of a single kind.
LEMMA SingleKind ==
  ASSUME Cardinality(events \cap {"maximize", "tile", "fullscreen"}) = 1
  PROVE  \E kind : Only(kind)
<1> DEFINE S == {"maximize", "tile", "fullscreen"}
           T == events \cap S
<1>1. IsFiniteSet(T)
  <2>1. IsFiniteSet({}) /\ {} \cup {"maximize"} = {"maximize"}
        /\ {"maximize"} \cup {"tile"} = {"maximize", "tile"}
        /\ {"maximize", "tile"} \cup {"fullscreen"} = S
    BY FS_EmptySet
  <2>2. IsFiniteSet({"maximize"})
    BY <2>1, FS_AddElement
  <2>3. IsFiniteSet({"maximize", "tile"})
    BY <2>1, <2>2, FS_AddElement
  <2>4. IsFiniteSet(S)
    BY <2>1, <2>3, FS_AddElement
  <2> HIDE DEF S
  <2>5. T \subseteq S
    OBVIOUS
  <2> QED
    BY <2>4, <2>5, FS_Subset
<1>2. Cardinality(T) = 1
  OBVIOUS
<1> HIDE DEF T
<1>3. \E kind : T = {kind}
  BY <1>1, <1>2, FS_Singleton
<1> QED
  BY <1>3 DEF T, Only

\* A window that leaves its last special mode gets back the frame it had before
\* it entered one, however its client delays and skips its answers.
THEOREM NormalAgain == Spec => ReturnsToNormal
<1>1. XdgInv /\ CalmInv /\ [Next]_vars =>
        [(/\ Without({"client_modes", "repeat", "client_size", "move", "resize",
                      "hasty"})
          /\ Cardinality(events \cap {"maximize", "tile", "fullscreen"}) = 1
          /\ ~Normal(win) /\ Normal(win'))
         => win'.frame = before]_vars
  <2> SUFFICES ASSUME XdgInv, CalmInv, Next, Unhurried,
                      Cardinality(events \cap {"maximize", "tile", "fullscreen"}) = 1,
                      ~Normal(win), Normal(win')
               PROVE  win'.frame = before
    BY DEF Unhurried
  <2>1. PICK kind : Only(kind)
    BY SingleKind
  <2>2. CalmState(kind)
    BY <2>1 DEF CalmInv
  <2> QED
    BY <2>1, <2>2, StepCalm
<1> QED
  BY <1>1, InitCalm, NextCalm, ConfiguresInOrder, PTL DEF Spec, ReturnsToNormal
=============================================================================
