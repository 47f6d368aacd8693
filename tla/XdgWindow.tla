----------------------------- MODULE XdgWindow -----------------------------
(***************************************************************************)
(* An xdg-shell toplevel: the geometry and the modes window management     *)
(* asks for are sent to the client in configure events and take effect     *)
(* when the client has acknowledged them and commits a buffer.             *)
(*                                                                         *)
(* win holds the members of win::wayland::window and its control:          *)
(*   frame, max_mode, fullscreen, pending   geometry_update                *)
(*   block                                  geometry_update.block is held  *)
(*                                          until the first commit         *)
(*   restore, quicktiling                   restore_geometries.maximize    *)
(*   contact, mov_init, mov_geo             move_resize; contact is "none" *)
(*                                          when it is not enabled         *)
(*   syn_frame, syn_max, syn_full           synced_geometry                *)
(*   configures, acked                      pending_configures and         *)
(*                                          acked_configure                *)
(*   cur_frame, cur_max, cur_full           what is shown: frameGeometry,  *)
(*                                          maximizeMode, fullscreen       *)
(*   must_place, mapped                                                    *)
(* and what it has sent: serial is the last serial, sent are the configure *)
(* events the client has neither acknowledged nor passed over.             *)
(***************************************************************************)
EXTENDS GeometryModes, Sequences, FiniteSets

CONSTANTS
  Pos,          \* the frames whose positions windows are dragged to
  ClientSize,   \* the lengths the client chooses by itself
  Scenarios,    \* the sets of event kinds that behaviours are made of
  MaxSerial,    \* how many configure events are sent
  CalmSerial    \* how many are sent when nothing is asked for in haste

EventKind ==
  {"client_modes", "repeat", "early", "skip", "client_size", "maximize", "tile",
   "fullscreen", "move", "resize", "activate", "hasty"}

ASSUME XdgAssumption ==
  /\ Pos \subseteq Frame
  /\ ClientSize \subseteq Nat \ {0}
  /\ Scenarios \subseteq SUBSET EventKind
  /\ MaxSerial \in Nat /\ CalmSerial \in Nat

VARIABLES
  win,
  client,     \* the last configure event it acknowledged, and whether it has
              \* committed since
  before,     \* history: the window's last frame in normal mode with
              \* nothing pending
  unsized,    \* history: since it is mapped, the window has been asked for a
              \* size that is not valid
  events      \* the kinds of events in this behaviour

vars == <<win, client, before, unsized, events>>

Contact == {"none", "center", "top_left", "bottom_right"}
Configure == [serial : Nat, frame : Frame, max : SUBSET Axis, full : BOOLEAN]
Event == [serial : Nat, size : Frame, special : BOOLEAN]

TypeOK ==
  /\ win \in
       [frame : Frame, max_mode : SUBSET Axis, fullscreen : BOOLEAN,
        pending : BOOLEAN, block : BOOLEAN, restore : Frame,
        quicktiling : {"none", "left", "maximize"}, contact : Contact,
        mov_init : Frame, mov_geo : Frame, syn_frame : Frame,
        syn_max : SUBSET Axis, syn_full : BOOLEAN,
        configures : Seq(Configure), acked : Nat, cur_frame : Frame,
        cur_max : SUBSET Axis, cur_full : BOOLEAN, must_place : BOOLEAN,
        mapped : BOOLEAN, serial : Nat, sent : Seq(Event)]
  /\ win.pending => win.block
  /\ client \in [event : Event, committed : BOOLEAN]
  /\ before \in Frame
  /\ unsized \in BOOLEAN
  /\ events \in Scenarios

-----------------------------------------------------------------------------
(* From the update to the configure event.                                 *)

\* Mutant: only a new size is worth a configure event.
NeedsConfigureForSize(w) ==
  ~Valid(w.frame) \/ ~SameSize(w.frame, w.syn_frame)

NeedsConfigure(w) ==
  \/ w.max_mode # w.syn_max
  \/ w.fullscreen # w.syn_full
  \/ ~Valid(w.frame)
  \/ ~SameSize(w.frame, w.syn_frame)

\* toplevel->configure with the synced size and xdg_surface_states.
Send(w) ==
  [w EXCEPT !.serial = @ + 1,
            !.sent = Append(@, [serial |-> w.serial + 1,
                                size |-> SizedAs(Null, w.syn_frame),
                                special |-> w.syn_full \/ w.syn_max = Axis])]

ConfigureGeometry(w, f) ==
  LET synced == [w EXCEPT !.syn_frame = f, !.syn_max = w.max_mode,
                          !.syn_full = w.fullscreen]
      asked == [serial |-> w.serial + 1, frame |-> f, max |-> w.max_mode,
                full |-> w.fullscreen]
  IN [Send(synced) EXCEPT !.configures = Append(@, asked)]

\* The configure lambda of create_toplevel_window: an event that
\* pending_configures does not know of.
SendUnrecorded(w) == IF w.block THEN w ELSE Send(w)

DoSetGeometry(w, f) ==
  IF w.cur_frame = f THEN w
  ELSE [w EXCEPT !.cur_frame = f,
                 !.frame = IF w.pending THEN @ ELSE SizedAs(@, f)]

\* setFrameGeometry without a change of size or mode: a configure that is on
\* its way takes the new position along.
SetPosition(w) ==
  LET n == Len(w.configures)
  IN IF n = 0 THEN DoSetGeometry(w, w.frame)
     ELSE [w EXCEPT !.configures[n].frame = MovedTo(@, w.frame)]

\* block_geometry_updates(win, false) and the setFrameGeometry it calls.
Release(w) ==
  LET v == [w EXCEPT !.pending = FALSE]
  IN IF w.block \/ ~w.pending THEN w
     ELSE IF NeedsConfigure(v) THEN ConfigureGeometry(v, v.frame)
     ELSE SetPosition(v)

SetFrameGeometry(w, f) == Release(SetFrame(w, f))

-----------------------------------------------------------------------------
(* Requests of the client and of the user.                                 *)

Bound == IF "hasty" \in events THEN MaxSerial ELSE CalmSerial

\* Something of this kind may happen; while the client has not yet answered the
\* last request, in the scenarios with "hasty" only.
Can(kind) ==
  /\ kind \in events
  /\ win.configures = <<>> \/ "hasty" \in events
  /\ win.serial + 2 < Bound

\* Between its first commit and its first buffer a client asks for modes only in
\* the scenarios with "early".
InTime == win.block \/ win.mapped \/ "early" \in events

Normal(w) == w.max_mode = {} /\ w.quicktiling = "none" /\ ~w.fullscreen

\* The step of a handler that leaves the window as w.
Step(w) ==
  /\ win' = w
  /\ before' = IF Normal(win) /\ win.configures = <<>> THEN win.frame ELSE before
  /\ unsized' = (unsized \/ (win.mapped /\ ~Valid(w.syn_frame)))
  /\ UNCHANGED <<client, events>>

\* handle_maximize_request: "No change, still send a configure event with
\* current geometry."
HandleMaximizeRequest(on) ==
  LET w == Release(UpdateMaximized(win, IF on THEN Axis ELSE {}))
      same == w.max_mode = win.max_mode
  IN /\ Can(IF same THEN "repeat" ELSE "client_modes") /\ InTime
     /\ Step(IF same THEN ConfigureGeometry(w, w.syn_frame) ELSE w)

HandleFullscreenRequest(full) ==
  /\ Can("client_modes") /\ InTime
  /\ win.fullscreen # full
  /\ Step(Release(UpdateFullscreen(win, full)))

\* performWindowOperation toggles what is shown, not what was asked for.
MaximizeOp(axes) ==
  /\ Can("maximize") /\ win.mapped
  /\ Step(Release(UpdateMaximized(win,
        IF axes = Axis THEN (IF win.cur_max = Axis THEN {} ELSE Axis)
        ELSE (win.cur_max \ axes) \cup (axes \ win.cur_max))))

FullScreenOp ==
  /\ Can("fullscreen") /\ win.mapped
  /\ win.fullscreen = win.cur_full
  /\ Step(Release(UpdateFullscreen(win, ~win.cur_full)))

QuickTileWindow(mode) ==
  /\ Can("tile") /\ win.mapped
  /\ Step(Release(SetQuicktileMode(win, mode)))

\* activeChanged
ActiveChanged ==
  /\ Can("activate")
  /\ Step(SendUnrecorded(win))

-----------------------------------------------------------------------------
(* Interactive moves and resizes.                                          *)

\* start_move_resize.  A full screen window stays on the only screen.
StartMove ==
  LET w == Release(EndMoveResize(win))
      plain == w.cur_max # Axis /\ w.quicktiling = "none" /\ ~w.fullscreen
      started == [w EXCEPT !.contact = "center",
                           !.restore = IF plain THEN w.cur_frame ELSE @,
                           !.mov_init = w.cur_frame, !.mov_geo = w.cur_frame]
  IN /\ Can("move") /\ win.mapped
     /\ ~w.cur_full
     /\ Step(SendUnrecorded(started))

\* start_move_resize for a resize: leaves the maximised and the tiled mode.
StartResize(contact) ==
  LET ended == Release(EndMoveResize(win))
      w == [ended EXCEPT !.restore = ended.cur_frame]
      unmaxed == IF w.cur_max = Axis THEN Release(UpdateMaximized(w, {})) ELSE w
      untiled == IF unmaxed.quicktiling = "none" THEN unmaxed
                 ELSE Release(SetQuicktileMode(unmaxed, "none"))
      started == [untiled EXCEPT !.contact = contact, !.restore = Null,
                                 !.mov_init = untiled.cur_frame,
                                 !.mov_geo = untiled.cur_frame]
  IN /\ Can("resize") /\ win.mapped
     /\ ~w.fullscreen /\ ~w.cur_full
     /\ Step(SendUnrecorded(started))

\* move_resize of a move to the position of p: a tiled or maximised window is
\* restored once it has moved.  Left out: a window that is to be full screen and
\* is dragged before its client has answered, which is not movable and is put to
\* the maximise area.
MoveStep(p) ==
  LET geo == MovedTo(win.mov_geo, p)
      moved == SetFrameGeometry([win EXCEPT !.mov_geo = geo], geo)
      untiled == SetQuicktileMode(moved, "none")
      back == IF Valid(win.restore) THEN win.restore ELSE untiled.cur_frame
      again == MovedTo(back, p)
  IN /\ Can("move") /\ IsMove(win) /\ ~win.fullscreen
     /\ ~SamePos(p, win.mov_geo)
     /\ Step(IF \/ win.cur_full \/ moved.quicktiling = "none"
                \/ win.cur_frame = moved.frame
             THEN moved
             ELSE Release([SetFrame(untiled, again) EXCEPT !.mov_geo = again]))

\* move_resize of a resize to length n on both axes: doResizeSync.
ResizeStep(n) ==
  LET geo == [a \in Axis |->
                [at |-> IF win.contact = "top_left"
                        THEN win.mov_geo[a].at + win.mov_geo[a].len - n
                        ELSE win.mov_geo[a].at,
                 len |-> n]]
  IN /\ Can("resize") /\ IsResize(win)
     /\ geo # win.mov_geo
     /\ Step(ConfigureGeometry([win EXCEPT !.mov_geo = geo], geo))

Finish(cancel, edge) ==
  /\ win.contact # "none"
  /\ edge = "none" \/ (IsMove(win) /\ "tile" \in events /\ ~cancel)
  /\ win.serial < Bound
  /\ Step(Release(FinishMoveResize(win, cancel, edge)))

-----------------------------------------------------------------------------
(* The client.                                                             *)

\* Mutant: geometry updates stay blocked.
HandleFirstCommitBlocked ==
  LET w == UpdateMaximized(win, win.max_mode)
  IN /\ win.block
     /\ Step(IF w.configures = <<>>
             THEN ConfigureGeometry(w, Unsized(w.cur_frame)) ELSE w)

\* The first commit of the surface, without a buffer.
HandleFirstCommit ==
  LET placed == [UpdateMaximized(win, win.max_mode) EXCEPT
                   !.must_place = win.max_mode = {} /\ ~win.fullscreen,
                   !.block = FALSE]
      w == Release(placed)
  IN /\ win.block
     /\ Step(IF w.configures = <<>>
             THEN ConfigureGeometry(w, Unsized(w.cur_frame)) ELSE w)

\* ack_configure of the k-th event: handle_configure_ack.  A client may pass
\* over events ("skip") and acknowledge without having drawn since.
AckConfigure(k) ==
  /\ k \in 1..Len(win.sent)
  /\ "skip" \notin events => k = 1 /\ client.committed
  /\ ~win.block
  /\ win' = [win EXCEPT !.acked = win.sent[k].serial,
                        !.sent = SubSeq(@, k + 1, Len(@))]
  /\ client' = [event |-> win.sent[k], committed |-> FALSE]
  /\ UNCHANGED <<before, unsized, events>>

\* The loop of apply_pending_geometry: the entry of the acknowledged serial.
Matching(w) == {i \in 1..Len(w.configures) : w.configures[i].serial = w.acked}

\* Mutant: the configures before the acknowledged one are kept.
OtherConfigures(s, i) == SubSeq(s, 1, i - 1) \o SubSeq(s, i + 1, Len(s))

\* "Removes all previous pending configures including this one."
LaterConfigures(s, i) == SubSeq(s, i + 1, Len(s))

\* The resize keeps the corner that is not dragged.
Anchored(w, f) ==
  [a \in Axis |->
     [at |-> IF w.contact = "top_left"
             THEN w.mov_geo[a].at + w.mov_geo[a].len - f[a].len
             ELSE w.mov_geo[a].at,
      len |-> f[a].len]]

\* apply_pending_geometry for a buffer of the given size.
ApplyPendingGeometry(w, size) ==
  LET i == CHOOSE i \in Matching(w) : TRUE
      match == Matching(w) # {}
      f == SizedAs(IF match THEN w.configures[i].frame ELSE w.cur_frame, size)
      first == IF Valid(w.syn_frame) THEN w
               ELSE [w EXCEPT !.syn_frame = size, !.frame = f]
      rest == IF match THEN LaterConfigures(w.configures, i) ELSE w.configures
      shown == DoSetGeometry([first EXCEPT !.configures = rest],
                             IF IsResize(w) THEN Anchored(w, f) ELSE f)
  IN IF f = w.cur_frame /\ ~match THEN w
     ELSE IF match
     THEN [shown EXCEPT !.cur_max = w.configures[i].max,
                        !.cur_full = w.configures[i].full]
     ELSE shown

\* Placement of a new window: move to the chosen position.
Place(w) ==
  IF w.must_place /\ ~SamePos(w.cur_frame, Placed)
  THEN SetFrameGeometry([w EXCEPT !.must_place = FALSE],
                        MovedTo(w.cur_frame, Placed))
  ELSE [w EXCEPT !.must_place = FALSE]

\* handle_commit with a buffer.  The client uses the size it was told, or its
\* own where it was told none; it changes its size by itself in normal mode.
HandleCommit(n) ==
  LET told == client.event.size
      size == [a \in Axis |->
                 [at |-> 0, len |-> IF told[a].len > 0 /\ ~client.committed
                                    THEN told[a].len ELSE n]]
  IN /\ win.acked > 0
     /\ client.committed => /\ "client_size" \in events /\ win.mapped
                            /\ ~client.event.special
                            /\ ~SameSize(size, win.cur_frame)
     /\ win' = [Place(ApplyPendingGeometry(win, size)) EXCEPT !.mapped = TRUE]
     /\ client' = [client EXCEPT !.committed = TRUE]
     /\ UNCHANGED <<before, unsized, events>>

\* handle_commit without a buffer: unmap.
Unmap ==
  /\ win.mapped /\ client.committed
  /\ win' = [win EXCEPT !.mapped = FALSE, !.contact = "none"]
  /\ UNCHANGED <<client, before, unsized, events>>

-----------------------------------------------------------------------------
NoEvent == [serial |-> 0, size |-> Null, special |-> FALSE]

Init ==
  /\ win = [frame |-> Null, max_mode |-> {}, fullscreen |-> FALSE,
            pending |-> FALSE, block |-> TRUE, restore |-> Null,
            quicktiling |-> "none", contact |-> "none", mov_init |-> Null,
            mov_geo |-> Null, syn_frame |-> Null, syn_max |-> {},
            syn_full |-> FALSE, configures |-> <<>>, acked |-> 0,
            cur_frame |-> Null, cur_max |-> {}, cur_full |-> FALSE,
            must_place |-> FALSE, mapped |-> FALSE, serial |-> 0,
            sent |-> <<>>]
  /\ client = [event |-> NoEvent, committed |-> TRUE]
  /\ before = Null
  /\ unsized = FALSE
  /\ events \in Scenarios

Modes ==
  \/ \E on \in BOOLEAN : HandleMaximizeRequest(on) \/ HandleFullscreenRequest(on)
  \/ \E axes \in (SUBSET Axis) \ {{}} : MaximizeOp(axes)
  \/ FullScreenOp
  \/ \E mode \in {"left", "maximize"} : QuickTileWindow(mode)
  \/ ActiveChanged

Dragging ==
  \/ StartMove
  \/ \E p \in Pos : MoveStep(p)
  \/ \E c \in {"top_left", "bottom_right"} : StartResize(c)
  \/ \E n \in ClientSize : ResizeStep(n)
  \/ \E cancel \in BOOLEAN, edge \in {"none", "left", "maximize"} :
       Finish(cancel, edge)

Ack == \E k \in 1..Len(win.sent) : AckConfigure(k)
Commit == \E n \in ClientSize : HandleCommit(n)

Next == Modes \/ Dragging \/ HandleFirstCommit \/ Ack \/ Commit \/ Unmap

\* The client commits its surface, acknowledges what it was sent and draws.
Fairness ==
  /\ WF_vars(HandleFirstCommit)
  /\ WF_vars(Ack)
  /\ WF_vars(~client.committed /\ Commit)

Spec == Init /\ [][Next]_vars
FairSpec == Spec /\ Fairness

-----------------------------------------------------------------------------
(* Properties.                                                             *)

Without(kinds) == events \cap kinds = {}

\* Scenarios in which every event that the client may pass over is recorded.
Recorded == Without({"skip"}) \/ Without({"activate", "move", "resize"})

\* No configure is left behind: once the client has committed for its last
\* acknowledgement, apply_pending_geometry has removed every configure up to it.
\* It does not when a client acknowledges only the latest event and that one is
\* not in pending_configures, hence the condition.
NoneOverdue ==
  Recorded /\ client.committed =>
    \A i \in 1..Len(win.configures) : win.configures[i].serial > win.acked

\* The window is shown and no configure is on its way to the client.
Settled ==
  /\ Without({"early"})
  /\ win.mapped /\ ~win.pending /\ win.configures = <<>>

\* Once nothing is on its way, the modes that are shown are the ones that
\* window management asked for last, whatever the order of requests,
\* acknowledgements and commits was.
ModesApplied ==
  Settled => win.cur_max = win.max_mode /\ win.cur_full = win.fullscreen

\* Once nothing is on its way, a window is where the user put it: a move of a
\* window with a pending configure is not undone when that is acknowledged.
\* When the restore geometry was lost and the client is to choose its size, the
\* commit for an earlier configure overwrites the frame that was asked for.
PositionApplied ==
  Settled /\ ~unsized /\ Without({"client_modes", "repeat", "resize"})
    => SamePos(win.cur_frame, win.frame)

\* A window that is shown as maximised covers the maximise area, when it was
\* not dragged while it was being maximised.
MaximizedFills ==
  /\ Settled /\ Without({"move", "resize"})
  /\ win.cur_max = Axis /\ ~win.cur_full
  => win.cur_frame = Area

\* What is shown once nothing is on its way is what was asked for.
ShownAsAsked == ModesApplied /\ PositionApplied /\ MaximizedFills

\* A window that leaves its last special mode gets back the frame it had before
\* it entered one, when there was a single kind of mode and each request was
\* answered before the next: the restore geometry is neither lost nor stale.
\* It is stale when a request for the mode the window is in has re-sent the
\* synced position ("repeat"): a tiled window then goes back to that.
ReturnsToNormal ==
  [][(/\ Without({"client_modes", "repeat", "client_size", "move", "resize",
                  "hasty"})
      /\ Cardinality(events \cap {"maximize", "tile", "fullscreen"}) = 1
      /\ ~Normal(win) /\ Normal(win'))
     => win'.frame = before]_vars

\* Full screen that is asked for, or left, is shown unless it is taken back:
\* no configure is lost between the request and the commit that applies it.
AskedIsShown ==
  \A full \in BOOLEAN :
    Recorded /\ win.fullscreen = full
      ~> win.fullscreen # full \/ win.cur_full = full
=============================================================================
