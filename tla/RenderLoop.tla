----------------------------- MODULE RenderLoop -----------------------------
(***************************************************************************)
(* The per-output render loop of the Wayland compositor: the class         *)
(* render::wayland::output, the part of WaylandCompositor that feeds it,   *)
(* the repaint bookkeeping of Toplevel and the frame callbacks of          *)
(* Presentation.                                                           *)
(*                                                                         *)
(* KWin is one thread: an action is one handler run by the event loop from *)
(* its first line to its return.  The interleavings are those of the       *)
(* handlers: timers of several outputs, swap events, client commits,       *)
(* geometry changes, outputs that come and go.                             *)
(*                                                                         *)
(* A region is a set of cells.  An output covers the cells Geo[o] (outputs *)
(* may overlap), a window the cells vis[w]; a cell of no output is off     *)
(* screen.  A window's repaints are kept in global coordinates, as         *)
(* Toplevel::repaints() returns them.                                      *)
(***************************************************************************)
EXTENDS Naturals, Sequences, FiniteSets

CONSTANTS
  Output,           \* the AbstractWaylandOutputs
  Cell,             \* the cells of the global compositor space
  Geo,              \* AbstractOutput::geometry(), as a function on Output
  Stacking,         \* Workspace::xStackingOrder(), bottom to top
  WaylandWindow,    \* windows of class win::wayland::window; the rest are X11
  LockWindow,       \* lock screen and input method windows
  ScreenLocked,     \* WaylandServer::isScreenLocked()
  HasSwapEvent,     \* Scene::hasSwapEvent(): OpenGL yes, QPainter no
  FrameClient,      \* windows whose client asks for frame callbacks
  Place             \* the visible rects a window may take, as a function

Window == {Stacking[i] : i \in 1..Len(Stacking)}

ASSUME StackingAssumption == Stacking \in Seq(Window)
ASSUME GeoAssumption == Geo \in [Output -> SUBSET Cell]
ASSUME PlaceAssumption == Place \in [Window -> SUBSET (SUBSET Cell)]
ASSUME FlagAssumption == ScreenLocked \in BOOLEAN /\ HasSwapEvent \in BOOLEAN

VARIABLES
  outputs,          \* keys of WaylandCompositor::outputs, the enabled outputs
  outputsOn,        \* Platform::m_outputsOn
  delay_timer,      \* outputs whose delay_timer is active
  swap_pending,     \* outputs with swap_pending set
  idle,             \* outputs with idle set
  repaints_region,  \* output::repaints_region
  vis,              \* win::visible_rect(window)
  ready,            \* windows with ready_for_painting set
  repaints,         \* Toplevel::repaints()
  repaint_outputs,  \* Toplevel::repaint_outputs, as a set
  frame_callbacks,  \* windows whose client waits for wl_surface.frame
  owed              \* history: cells of an output that changed on screen and
                    \* that the output has not painted since

outputVars == <<outputs, outputsOn>>
loopVars   == <<delay_timer, swap_pending, idle, repaints_region>>
windowVars == <<vis, ready, repaints, repaint_outputs, frame_callbacks>>
vars       == <<outputs, outputsOn, delay_timer, swap_pending, idle,
                repaints_region, vis, ready, repaints, repaint_outputs,
                frame_callbacks, owed>>

TypeOK ==
  /\ outputs \in SUBSET Output
  /\ outputsOn \in BOOLEAN
  /\ delay_timer \in SUBSET Output
  /\ swap_pending \in SUBSET Output
  /\ idle \in SUBSET Output
  /\ repaints_region \in [Output -> SUBSET Cell]
  /\ \A o \in Output : repaints_region[o] \subseteq Geo[o]
  /\ vis \in [Window -> SUBSET Cell]
  /\ ready \in SUBSET Window
  /\ repaints \in [Window -> SUBSET Cell]
  /\ repaint_outputs \in [Window -> SUBSET Output]
  /\ frame_callbacks \in SUBSET Window
  /\ owed \in [Output -> SUBSET Cell]

-----------------------------------------------------------------------------
(* Regions and the windows of a frame.                                     *)

Meets(R, o) == R \cap Geo[o] # {}

\* Skipped by the lock filter of prepare_run.
Hidden(w) == ScreenLocked /\ w \notin LockWindow

Paintable(w) == w \in ready /\ ~Hidden(w)

\* Toplevel::has_pending_repaints and the override of win::wayland::window.
HasPendingRepaints(w) ==
  /\ repaints[w] # {}
  /\ w \in WaylandWindow => w \in ready

PendingOn(w, o) == HasPendingRepaints(w) /\ Meets(repaints[w], o)

\* The filter loop erases from the deque it iterates over: the window after an
\* erased one is never looked at, except that the last one is met again in the
\* stale tail.  Of a run of unpaintable windows every second one survives.
UnpaintableRun[i \in 0..Len(Stacking)] ==
  IF i = 0 THEN 0
  ELSE IF Paintable(Stacking[i]) THEN 0 ELSE UnpaintableRun[i - 1] + 1

KeptWindows ==
  {Stacking[i] : i \in {j \in 1..Len(Stacking) :
      \/ Paintable(Stacking[j])
      \/ UnpaintableRun[j] % 2 = 0 /\ j < Len(Stacking)}}

-----------------------------------------------------------------------------
(* Scheduling.                                                             *)

\* output::set_delay_timer on each output of S.
SetDelayTimer(S) == delay_timer \cup (S \ swap_pending)

\* WaylandCompositor::addRepaint(R): output::add_repaint on every output.
AddRepaint(R) ==
  /\ repaints_region' = [o \in Output |->
        IF o \in outputs THEN repaints_region[o] \cup (R \cap Geo[o])
                         ELSE repaints_region[o]]
  /\ delay_timer' = SetDelayTimer({o \in outputs : Meets(R, o)})

\* WaylandCompositor::schedule_repaint(window), its visible rect being V.
ScheduleRepaint(V) ==
  delay_timer' = IF outputsOn THEN SetDelayTimer({o \in outputs : Meets(V, o)})
                              ELSE delay_timer

\* Toplevel::add_repaint_outputs
AddRepaintOutputs(w, R) ==
  repaint_outputs' = [repaint_outputs EXCEPT ![w] =
      @ \cup {o \in outputs : Meets(R, o)}]

\* History: the cells R of window w changed on screen.
Owe(w, R) ==
  owed' = [o \in Output |->
      IF o \in outputs /\ w \in ready' /\ ~Hidden(w)
      THEN owed[o] \cup (R \cap Geo[o]) ELSE owed[o]]

-----------------------------------------------------------------------------
(* What clients and the window management do to a window.                  *)

\* Toplevel::addDamage, from a commit that also asks for a frame callback.
AddDamage(w, R) ==
  /\ R # {} /\ R \subseteq vis[w]
  /\ repaints' = [repaints EXCEPT ![w] = @ \cup R]
  /\ AddRepaintOutputs(w, vis[w])
  /\ ScheduleRepaint(vis[w])
  /\ frame_callbacks' = frame_callbacks \cup ({w} \cap FrameClient)
  /\ UNCHANGED <<outputVars, swap_pending, idle, repaints_region, vis, ready>>
  /\ Owe(w, R)

\* Toplevel::addRepaint and addLayerRepaint inside the window.
AddWindowRepaint(w, R) ==
  /\ R # {} /\ R \subseteq vis[w]
  /\ repaints' = [repaints EXCEPT ![w] = @ \cup R]
  /\ AddRepaintOutputs(w, R)
  /\ ScheduleRepaint(vis[w])
  /\ UNCHANGED <<outputVars, swap_pending, idle, repaints_region, vis, ready,
                 frame_callbacks>>
  /\ Owe(w, R)

\* Toplevel::setReadyForPainting with its addRepaintFull.
SetReadyForPainting(w) ==
  /\ w \notin ready
  /\ ready' = ready \cup {w}
  /\ repaints' = [repaints EXCEPT ![w] = @ \cup vis[w]]
  /\ AddRepaintOutputs(w, vis[w])
  /\ ScheduleRepaint(vis[w])
  /\ Owe(w, vis[w])
  /\ UNCHANGED <<outputVars, swap_pending, idle, repaints_region, vis,
                 frame_callbacks>>

\* window::do_set_geometry: layer repaints of the old and of the new place.
DoSetGeometry(w, V) ==
  /\ V # vis[w]
  /\ vis' = [vis EXCEPT ![w] = V]
  /\ repaints' = [repaints EXCEPT ![w] = @ \cup vis[w] \cup V]
  /\ AddRepaintOutputs(w, vis[w] \cup V)
  /\ ScheduleRepaint(V)
  /\ UNCHANGED <<outputVars, swap_pending, idle, repaints_region, ready,
                 frame_callbacks>>
  /\ Owe(w, vis[w] \cup V)

\* Compositor::addRepaint called by effects, the cursor or unmapped windows.
CompositorAddRepaint(R) ==
  /\ R # {}
  /\ AddRepaint(R)
  /\ owed' = [o \in Output |-> IF o \in outputs THEN owed[o] \cup (R \cap Geo[o])
                                                ELSE owed[o]]
  /\ UNCHANGED <<outputVars, swap_pending, idle, windowVars>>

-----------------------------------------------------------------------------
(* The run of an output: timerEvent, run and prepare_run.                  *)

\* Mutants: everything is reset although other outputs still have to paint the
\* window; nothing is reset.
ResetRepaintsAll(w, o) == {}
ResetRepaintsNever(w, o) == repaints[w]

\* Toplevel::resetRepaints(o) on a painted window.
ResetRepaints(w, o) ==
  LET left == repaint_outputs[w] \ {o}
  IN  IF left = {} THEN {}
      ELSE repaints[w] \ (Geo[o] \ UNION {Geo[p] : p \in left})

\* prepare_run returns early: a swap is pending or Platform has outputs off.
RunBlocked(o) ==
  /\ o \in delay_timer
  /\ o \in swap_pending \/ ~outputsOn
  /\ delay_timer' = delay_timer \ {o}
  /\ UNCHANGED <<outputVars, swap_pending, idle, repaints_region, windowVars,
                 owed>>

\* Windows with pending repaints on o, and what prepare_run passes on to the
\* other outputs these windows lie on.
RepaintingWindows(o) == {w \in Window : PendingOn(w, o)}

\* Mutant: the other outputs of a repainted window are not told.
PassedOnNothing(o, p) == {}

PassedOn(o, p) ==
  IF p \in outputs \ {o}
  THEN (UNION {repaints[w] : w \in RepaintingWindows(o)}) \cap Geo[p]
  ELSE {}

\* prepare_run finds nothing to do.
RunIdle(o) ==
  /\ o \in delay_timer
  /\ o \notin swap_pending /\ outputsOn
  /\ repaints_region[o] = {} /\ RepaintingWindows(o) = {}
  /\ delay_timer' = delay_timer \ {o}
  /\ idle' = idle \cup {o}
  /\ UNCHANGED <<outputVars, swap_pending, repaints_region, windowVars, owed>>

\* The cells of o that a frame with the windows W repaints.
FrameDamage(o, W) ==
  (repaints_region[o] \cup UNION {repaints[w] : w \in W}) \cap Geo[o]

\* Presentation::lock: the output that covers most of a window.
Coverage(w, o) == Cardinality(vis[w] \cap Geo[o])

\* Mutant: the comparison of the areas is the wrong way round.
MinOut(w) ==
  CHOOSE o \in outputs : \A p \in outputs : Coverage(w, o) <= Coverage(w, p)

MaxOut(w) ==
  CHOOSE o \in outputs : \A p \in outputs : Coverage(w, p) <= Coverage(w, o)

\* prepare_run returns true.
FrameDue(o) ==
  /\ o \in delay_timer
  /\ o \notin swap_pending /\ outputsOn
  /\ repaints_region[o] # {} \/ RepaintingWindows(o) # {}

\* A frame is painted; the backend posts it or not.  The OpenGL backends post
\* only frames with damage; posting fails while the session is inactive, the
\* last page has not flipped or the kernel rejects the commit.
RunPaint(o, posted) ==
  LET kept == KeptWindows
      rearm == IF HasSwapEvent \/ posted THEN {} ELSE {o}
  IN /\ FrameDue(o)
     /\ posted /\ HasSwapEvent => FrameDamage(o, kept) # {}
     /\ idle' = idle \ {o}
     /\ repaints_region' = [p \in Output |->
           IF p = o THEN {} ELSE repaints_region[p] \cup PassedOn(o, p)]
     /\ delay_timer' = ((delay_timer \ {o}) \cup rearm)
           \cup ({p \in outputs : PassedOn(o, p) # {}} \ swap_pending)
     /\ repaints' = [w \in Window |->
           IF w \in kept THEN ResetRepaints(w, o) ELSE repaints[w]]
     /\ repaint_outputs' = [w \in Window |->
           IF w \in kept THEN repaint_outputs[w] \ {o} ELSE repaint_outputs[w]]
     /\ swap_pending' = IF posted THEN swap_pending \cup {o} ELSE swap_pending
     /\ frame_callbacks' =
           {w \in frame_callbacks : ~(w \in kept /\ MaxOut(w) = o)}
     /\ owed' = [owed EXCEPT ![o] = @ \ FrameDamage(o, kept)]
     /\ UNCHANGED <<outputVars, vis, ready>>

\* Mutant: the swap event does not restart the timer.
SwappedNoTimer(o) ==
  /\ o \in swap_pending
  /\ swap_pending' = swap_pending \ {o}
  /\ UNCHANGED <<outputVars, delay_timer, idle, repaints_region, windowVars,
                 owed>>

\* output::swapped
Swapped(o) ==
  /\ o \in swap_pending
  /\ swap_pending' = swap_pending \ {o}
  /\ delay_timer' = delay_timer \cup {o}
  /\ UNCHANGED <<outputVars, idle, repaints_region, windowVars, owed>>

-----------------------------------------------------------------------------
(* Outputs that come and go.  A backend emits output_added or              *)
(* output_removed, lets the platform recompute m_outputsOn and calls       *)
(* Screens::updateAll, whose desktopResized ends in addRepaintFull.        *)

FullRepaint(present) ==
  repaints_region' = [o \in Output |-> IF o \in present THEN Geo[o] ELSE {}]

\* The geometry of the outputs is not empty, so addRepaintFull arms them all.
ArmAll(present) == {o \in present : Geo[o] # {}} \ swap_pending

OutputAdded(o, on) ==
  /\ o \notin outputs
  /\ outputs' = outputs \cup {o}
  /\ outputsOn' = on
  /\ idle' = idle \cup {o}
  /\ FullRepaint(outputs')
  /\ delay_timer' = delay_timer \cup ArmAll(outputs')
  /\ owed' = [p \in Output |-> IF p \in outputs' THEN Geo[p] ELSE {}]
  /\ UNCHANGED <<swap_pending, windowVars>>

\* Mutant: the windows keep their pointer to the removed output.
OutputRemovedDangling(o, on) ==
  /\ o \in outputs
  /\ outputs' = outputs \ {o}
  /\ outputsOn' = on
  /\ idle' = idle \ {o}
  /\ swap_pending' = swap_pending \ {o}
  /\ FullRepaint(outputs')
  /\ delay_timer' = (delay_timer \ {o}) \cup ArmAll(outputs')
  /\ owed' = [p \in Output |-> IF p \in outputs' THEN Geo[p] ELSE {}]
  /\ UNCHANGED windowVars

OutputRemoved(o, on) ==
  /\ o \in outputs
  /\ outputs' = outputs \ {o}
  /\ outputsOn' = on
  /\ idle' = idle \ {o}
  /\ swap_pending' = swap_pending \ {o}
  /\ repaint_outputs' = [w \in Window |-> repaint_outputs[w] \ {o}]
  /\ FullRepaint(outputs')
  /\ delay_timer' = (delay_timer \ {o}) \cup ArmAll(outputs')
  /\ owed' = [p \in Output |-> IF p \in outputs' THEN Geo[p] ELSE {}]
  /\ UNCHANGED <<vis, ready, repaints, frame_callbacks>>

-----------------------------------------------------------------------------
\* Compositor::startupWithWorkspace: all outputs get a full repaint.
Init ==
  /\ outputs \in SUBSET Output
  /\ outputsOn = TRUE
  /\ delay_timer = {o \in outputs : Geo[o] # {}}
  /\ swap_pending = {}
  /\ idle = outputs
  /\ repaints_region = [o \in Output |-> IF o \in outputs THEN Geo[o] ELSE {}]
  /\ vis \in {v \in [Window -> UNION {Place[w] : w \in Window}] :
              \A w \in Window : v[w] \in Place[w]}
  /\ ready = {}
  /\ repaints = [w \in Window |-> {}]
  /\ repaint_outputs = [w \in Window |-> {}]
  /\ frame_callbacks = {}
  /\ owed = [o \in Output |-> IF o \in outputs THEN Geo[o] ELSE {}]

Run(o) == RunBlocked(o) \/ RunIdle(o) \/ RunPaint(o, TRUE) \/ RunPaint(o, FALSE)

Change ==
  \/ \E w \in Window, R \in SUBSET Cell : AddDamage(w, R)
  \/ \E w \in Window, R \in SUBSET Cell : AddWindowRepaint(w, R)
  \/ \E w \in Window : SetReadyForPainting(w)
  \/ \E w \in Window : \E V \in Place[w] : DoSetGeometry(w, V)
  \/ \E R \in SUBSET Cell : CompositorAddRepaint(R)

Hotplug ==
  \E o \in Output, on \in BOOLEAN : OutputAdded(o, on) \/ OutputRemoved(o, on)

Loop == \E o \in Output : Run(o) \/ Swapped(o)

Next == Change \/ Hotplug \/ Loop

\* A started timer fires and a posted frame is swapped, whatever else happens.
Fairness == \A o \in Output : WF_vars(Run(o)) /\ WF_vars(Swapped(o))

Spec == Init /\ [][Next]_vars
FairSpec == Spec /\ Fairness

-----------------------------------------------------------------------------
(* Properties.                                                             *)

Armed(o) == o \in delay_timer \/ o \in swap_pending

OnScreen(w) == \E o \in outputs : Meets(vis[w], o)

\* No change is forgotten: a cell that changed on an output since the output
\* last painted it is still recorded, in the output's repaints_region or in a
\* window that has the output among its repaint_outputs ("Records all outputs
\* that still need to be repainted", toplevel.h).
NoLostDamage ==
  \A o \in outputs : \A c \in owed[o] :
    \/ c \in repaints_region[o]
    \/ \E w \in Window : /\ Paintable(w)
                        /\ c \in repaints[w]
                        /\ o \in repaint_outputs[w]

\* No wakeup is lost: while outputs are on, an output with a region to repaint
\* has its timer running or a swap event to come, and a window to repaint on
\* some output is pending on an output that will run and pass the region on.
\* A window whose visible rect left all outputs is excepted: see
\* RepaintScheduled.
NoLostWakeup ==
  outputsOn =>
    \A o \in outputs :
      /\ repaints_region[o] # {} => Armed(o)
      /\ \A w \in Window :
           Paintable(w) /\ OnScreen(w) /\ PendingOn(w, o) =>
             \E p \in outputs : Armed(p) /\ PendingOn(w, p)

\* What changed on screen gets a repaint scheduled, wherever its window is now:
\* needsRepaint is "Emitted whenever the state changes in a way, that the
\* Compositor should schedule a repaint of the scene" (toplevel.h).
RepaintScheduled ==
  outputsOn /\ (\E o \in outputs : owed[o] # {})
    => \E p \in outputs : Armed(p)

\* No pointer to a removed output survives: the render outputs and the
\* repaint_outputs of all windows name enabled outputs only.
NoDanglingOutput ==
  /\ delay_timer \cup swap_pending \cup idle \subseteq outputs
  /\ \A w \in Window : repaint_outputs[w] \subseteq outputs

\* A frame is never started while the previous one waits for its swap event:
\* the assertion of DrmBackend::present.
TimerOrSwap == delay_timer \cap swap_pending = {}

\* Every change reaches the screen: a changed cell of an output is painted
\* unless the output goes away or the platform has its outputs off.
EventuallyPainted ==
  \A o \in Output, c \in Cell :
    (c \in owed[o]) ~> \/ c \notin owed[o]
                       \/ o \notin outputs \/ ~outputsOn
                       \/ \E w \in Window : ~OnScreen(w)

\* Some output has the whole window, others may share a part of it.
OnOneOutput(w) == \E o \in outputs : vis[w] # {} /\ vis[w] \subseteq Geo[o]

\* A client whose window comes to lie within one output gets its frame callback,
\* wherever the window was when it was damaged: a window painted on another
\* output, because it is "not mostly on this output", is locked "to max_out when
\* it presents" (Presentation::lock).  A window that no output has wholly may
\* wait: damage outside max_out makes other outputs present, not max_out.
FrameCallbackDone ==
  \A w \in Window :
    /\ <>[][Loop]_vars
    /\ <>[](outputsOn /\ Paintable(w) /\ OnOneOutput(w))
    => <>[](w \notin frame_callbacks)

\* The loop comes to rest: once nothing changes any more and all windows can
\* be painted, no timer and no swap is pending for ever after, overlapping
\* outputs and windows that span outputs included.
Quiescence ==
  <>[][Loop]_vars /\ <>[](\A w \in Window : Paintable(w))
    => <>[](delay_timer = {} /\ swap_pending = {})
=============================================================================
