----------------------------- MODULE DrmBackend -----------------------------
(***************************************************************************)
(* The DRM backend in atomic mode setting with OpenGL: DrmBackend,         *)
(* DrmOutput, the DPMS part of Platform and AbstractWaylandOutput, and the *)
(* render loop they drive.  The windows are left out (Stacking is empty):  *)
(* damage comes from Compositor::addRepaint.                               *)
(*                                                                         *)
(* An element of Output is one DrmOutput object.  A connector that is      *)
(* plugged in again gets a new object; the old one may still wait for the  *)
(* page flip event of its last frame.  The kernel delivers the event of a  *)
(* posted frame at any time; the handler of the DRM file descriptor leaves *)
(* it unread while the session is inactive.                                *)
(***************************************************************************)
EXTENDS RenderLoop, Integers

CONSTANTS
  ConnectorOf,    \* DrmOutput::m_conn, as a function on Output
  OffMode,        \* the DPMS modes other than On
  Scenarios,      \* the sets of event kinds that behaviours are made of
  SwitchBound     \* how far m_pageFlipsPending may fall below zero

EventKind == {"hotplug", "disable", "dpms", "standby", "session", "quit"}

ASSUME DrmAssumption ==
  /\ "On" \notin OffMode /\ "Off" \in OffMode
  /\ Scenarios \subseteq SUBSET EventKind
  /\ SwitchBound \in Nat

\* There are no windows, and the kernel tells when a frame was shown.
Windowless == Stacking = <<>> /\ HasSwapEvent

VARIABLES
  m_outputs,          \* DrmBackend::m_outputs
  m_enabledOutputs,   \* DrmBackend::m_enabledOutputs
  enabled,            \* outputs whose Wayland interface is enabled
  dpms,               \* AbstractWaylandOutput::m_dpms
  m_dpmsModePending,  \* DrmOutput::m_dpmsModePending
  m_atomicOffPending, \* outputs with m_atomicOffPending set
  m_pageFlipPending,  \* outputs with m_pageFlipPending set
  m_deleted,          \* outputs that were torn down
  freed,              \* outputs whose object is deleted
  m_pageFlipsPending, \* DrmBackend::m_pageFlipsPending
  m_active,           \* the session is active, DrmBackend::m_active
  m_dpmsFilter,       \* Platform::m_dpmsFilter is set
  dropped,            \* history: outputs whose last frame was painted but
                      \* never posted
  phase,              \* "running", "quitting", "exited" or how it aborted
  events              \* the kinds of external events in this behaviour

flipVars == <<m_pageFlipPending, m_pageFlipsPending>>
dpmsVars == <<dpms, m_dpmsModePending, m_atomicOffPending, m_dpmsFilter>>
outVars  == <<m_outputs, m_enabledOutputs, enabled, m_deleted, freed>>
drmVars  == <<m_outputs, m_enabledOutputs, enabled, dpms, m_dpmsModePending,
              m_atomicOffPending, m_pageFlipPending, m_deleted, freed,
              m_pageFlipsPending, m_active, m_dpmsFilter, dropped, phase>>
sysVars  == <<vars, drmVars>>
allVars  == <<vars, drmVars, events>>

DpmsMode == {"On"} \cup OffMode

\* out_of_range: the uncaught exception of outputs.at in
\* WaylandCompositor::swapped; assert_enabled: Q_ASSERT in enableOutput.
Abort == {"out_of_range", "assert_enabled"}

DrmTypeOK ==
  /\ TypeOK
  /\ m_outputs \in SUBSET Output
  /\ m_enabledOutputs \in SUBSET Output
  /\ enabled \in SUBSET Output
  /\ dpms \in [Output -> DpmsMode]
  /\ m_dpmsModePending \in [Output -> DpmsMode]
  /\ m_atomicOffPending \in SUBSET Output
  /\ m_pageFlipPending \in SUBSET Output
  /\ m_deleted \in SUBSET Output
  /\ freed \in SUBSET m_deleted
  /\ m_pageFlipsPending \in Int
  /\ m_active \in BOOLEAN
  /\ m_dpmsFilter \in BOOLEAN
  /\ dropped \in SUBSET Output
  /\ phase \in {"running", "quitting", "exited"} \cup Abort
  /\ events \in Scenarios

-----------------------------------------------------------------------------
(* DPMS.                                                                   *)

AllOn(S, d) == \A o \in S : d[o] = "On"

\* Mutant: one output that is on is enough.
CheckOutputsOnAny(S, d) == m_dpmsFilter /\ ~\E o \in S : d[o] = "On"

\* Platform::checkOutputsOn with the enabled outputs S and their modes d.
CheckOutputsOn(S, d) == m_dpmsFilter /\ ~AllOn(S, d)

AddRepaintFull == AddRepaint(Cell)

\* History: addRepaintFull makes all outputs owe all their cells.
OweAll ==
  owed' = [o \in Output |-> IF o \in outputs THEN Geo[o] ELSE owed[o]]

\* DrmOutput::dpmsAtomicOff to the given mode: the two commits succeed, or the
\* error handler of doAtomicCommit falls back to the last mode.  Disabled
\* outputs do not create the input filter.
DpmsAtomicOff(o, mode, ok, isEnabled, filter) ==
  /\ dpms' = [dpms EXCEPT ![o] = IF ok THEN mode ELSE @]
  /\ m_dpmsModePending' =
        [m_dpmsModePending EXCEPT ![o] = IF ok THEN mode ELSE dpms[o]]
  /\ m_dpmsFilter' = (filter \/ (/\ isEnabled
                                 /\ ok \/ dpms[o] \notin {"On", mode}))

\* The common end of atomicDisable and of updateDpms to an off mode.
SwitchOff(o, mode, ok, isEnabled, filter) ==
  IF o \in m_pageFlipPending
  THEN /\ m_atomicOffPending' = m_atomicOffPending \cup {o}
       /\ m_dpmsModePending' = [m_dpmsModePending EXCEPT ![o] = mode]
       /\ m_dpmsFilter' = filter
       /\ UNCHANGED dpms
  ELSE /\ UNCHANGED m_atomicOffPending
       /\ DpmsAtomicOff(o, mode, ok, isEnabled, filter)

\* updateDpms(On) or atomicEnable on the outputs O, up to dpmsSetOn.
SwitchOn(O) ==
  /\ dpms' = [o \in Output |-> IF o \in O THEN "On" ELSE dpms[o]]
  /\ m_dpmsModePending' =
        [o \in Output |-> IF o \in O THEN "On" ELSE m_dpmsModePending[o]]
  /\ m_atomicOffPending' = m_atomicOffPending \ O

\* A Wayland client asks for a DPMS mode: DrmOutput::updateDpms.
RequestDpmsOn(o) ==
  /\ phase = "running" /\ "dpms" \in events
  /\ o \in m_outputs \cap enabled
  /\ m_dpmsModePending[o] # "On"
  /\ SwitchOn({o})
  /\ m_dpmsFilter' = CheckOutputsOn(m_enabledOutputs, dpms')
  /\ AddRepaintFull /\ OweAll
  /\ UNCHANGED <<outputVars, swap_pending, idle, windowVars, outVars, flipVars,
                 m_active, dropped, phase>>

RequestDpmsOff(o, mode, ok) ==
  /\ phase = "running" /\ "dpms" \in events
  /\ o \in m_outputs \cap enabled
  /\ mode = "Off" \/ "standby" \in events
  /\ mode # m_dpmsModePending[o]
  /\ SwitchOff(o, mode, ok, TRUE, m_dpmsFilter)
  /\ UNCHANGED <<vars, outVars, flipVars, m_active, dropped, phase>>

\* Platform::turnOutputsOn, on input that the DpmsInputEventFilter takes.  The
\* call is queued: where outputs are switched off at all, the filter may be gone
\* again when it comes.
TurnOutputsOn ==
  LET off == {o \in m_enabledOutputs : m_dpmsModePending[o] # "On"}
  IN /\ phase = "running"
     /\ m_dpmsFilter \/ "dpms" \in events
     /\ m_dpmsFilter' = FALSE
     /\ SwitchOn(off)
     /\ IF off = {} THEN UNCHANGED <<repaints_region, delay_timer, owed>>
                    ELSE AddRepaintFull /\ OweAll
     /\ UNCHANGED <<outputVars, swap_pending, idle, windowVars, outVars,
                    flipVars, m_active, dropped, phase>>

-----------------------------------------------------------------------------
(* Frames.                                                                 *)

\* DrmOutput::present and presentAtomically get as far as the commit.
CanPresent(o) ==
  /\ m_dpmsModePending[o] = "On"
  /\ m_active
  /\ o \notin m_pageFlipPending

\* A frame without damage on the output is not presented.  Commits of frames
\* are assumed to succeed.
DrmRunPaint(o) ==
  LET damaged == FrameDamage(o, KeptWindows) # {}
      posted == damaged /\ CanPresent(o)
  IN /\ phase = "running"
     /\ RunPaint(o, posted)
     /\ m_pageFlipPending' =
           IF posted THEN m_pageFlipPending \cup {o} ELSE m_pageFlipPending
     /\ m_pageFlipsPending' = m_pageFlipsPending + (IF posted THEN 1 ELSE 0)
     /\ dropped' = IF posted THEN dropped \ {o}
                   ELSE IF damaged THEN dropped \cup {o} ELSE dropped
     /\ UNCHANGED <<outVars, dpmsVars, m_active, phase>>

DrmRunNothing(o) ==
  /\ phase = "running"
  /\ RunBlocked(o) \/ RunIdle(o)
  /\ UNCHANGED drmVars

\* Mutant: the handler tells the compositor nothing.
CompositorSwappedNothing(o) == UNCHANGED <<vars, phase>>

\* WaylandCompositor::swapped: a missing output ends the program, a swap nobody
\* waits for is ignored.
CompositorSwapped(o) ==
  \/ /\ phase = "running" /\ o \in swap_pending
     /\ Swapped(o)
     /\ UNCHANGED phase
  \/ /\ phase = "running" /\ o \in outputs \ swap_pending
     /\ UNCHANGED <<vars, phase>>
  \/ /\ phase = "running" /\ o \notin outputs
     /\ phase' = "out_of_range"
     /\ UNCHANGED vars
  \/ /\ phase = "quitting"
     /\ UNCHANGED <<vars, phase>>

\* DrmOutput::pageFlipped: a torn down output is deleted now, an output that is
\* to go off goes off.
PageFlipped(o, ok) ==
  /\ m_pageFlipPending' = m_pageFlipPending \ {o}
  /\ freed' = IF o \in m_deleted THEN freed \cup {o} ELSE freed
  /\ IF o \in m_atomicOffPending \ m_deleted
     THEN /\ m_atomicOffPending' = m_atomicOffPending \ {o}
          /\ DpmsAtomicOff(o, m_dpmsModePending[o], ok, o \in enabled,
                           m_dpmsFilter)
     ELSE UNCHANGED dpmsVars

\* Mutant: the flips of torn down outputs are not counted off.
AtomicFlipHandlerUncounted(o, ok) ==
  /\ phase \in {"running", "quitting"}
  /\ o \in m_pageFlipPending
  /\ m_active
  /\ PageFlipped(o, ok)
  /\ m_pageFlipsPending' = m_pageFlipsPending - (IF o \in m_deleted THEN 0 ELSE 1)
  /\ CompositorSwapped(o)
  /\ UNCHANGED <<m_outputs, m_enabledOutputs, enabled, m_deleted, m_active,
                 dropped>>

\* DrmBackend::atomicFlipHandler
AtomicFlipHandler(o, ok) ==
  /\ phase \in {"running", "quitting"}
  /\ o \in m_pageFlipPending
  /\ m_active
  /\ PageFlipped(o, ok)
  /\ m_pageFlipsPending' = m_pageFlipsPending - 1
  /\ CompositorSwapped(o)
  /\ UNCHANGED <<m_outputs, m_enabledOutputs, enabled, m_deleted, m_active,
                 dropped>>

-----------------------------------------------------------------------------
(* Outputs are enabled, disabled, plugged and unplugged.                   *)

\* DrmBackend::enableOutput(output, false).
EnabledWithout(o) == m_enabledOutputs \ {o}

\* setEnabled(false): atomicDisable.
Disable(o, ok) ==
  LET rest == EnabledWithout(o)
  IN /\ phase = "running" /\ "disable" \in events
     /\ o \in m_outputs \cap enabled
     /\ enabled' = enabled \ {o}
     /\ IF o \in m_enabledOutputs
        THEN /\ m_enabledOutputs' = rest
             /\ OutputRemoved(o, AllOn(rest, dpms))
             /\ SwitchOff(o, "Off", ok, FALSE, CheckOutputsOn(rest, dpms))
             /\ UNCHANGED phase
        ELSE /\ phase' = "assert_enabled"
             /\ UNCHANGED <<vars, dpmsVars, m_enabledOutputs>>
     /\ UNCHANGED <<m_outputs, m_deleted, freed, flipVars, m_active, dropped>>

\* setEnabled(true): atomicEnable.
Enable(o) ==
  /\ phase = "running" /\ "disable" \in events
  /\ o \in m_outputs \ enabled
  /\ enabled' = enabled \cup {o}
  /\ SwitchOn({o})
  /\ IF o \notin m_enabledOutputs
     THEN /\ m_enabledOutputs' = m_enabledOutputs \cup {o}
          /\ OutputAdded(o, AllOn(m_enabledOutputs', dpms'))
          /\ m_dpmsFilter' = CheckOutputsOn(m_enabledOutputs', dpms')
          /\ UNCHANGED phase
     ELSE /\ phase' = "assert_enabled"
          /\ UNCHANGED <<vars, m_enabledOutputs, m_dpmsFilter>>
  /\ UNCHANGED <<m_outputs, m_deleted, freed, flipVars, m_active, dropped>>

\* Mutant: the object of an unplugged output is deleted at once.
TeardownAtOnce(O) ==
  /\ m_deleted' = m_deleted \cup O
  /\ freed' = freed \cup O

\* DrmOutput::teardown: an output that waits for its page flip is deleted by
\* the flip handler.
Teardown(O) ==
  /\ m_deleted' = m_deleted \cup O
  /\ freed' = freed \cup (O \ m_pageFlipPending)

\* The end of DrmBackend::updateOutputs: all connected outputs, disabled ones
\* too, become the enabled outputs.
ConnectedOutputs(connected) ==
  /\ m_outputs' = connected
  /\ m_enabledOutputs' = connected

Unplug(o) ==
  LET rest == m_outputs \ {o}
      on == AllOn(rest, dpms)
  IN /\ phase = "running" /\ "hotplug" \in events
     /\ o \in m_outputs
     /\ ConnectedOutputs(rest)
     /\ \/ OutputRemoved(o, on)
        \/ /\ o \notin outputs
           /\ outputsOn' = on
           /\ AddRepaintFull /\ OweAll
           /\ UNCHANGED <<outputs, swap_pending, idle, windowVars>>
     /\ Teardown({o})
     /\ UNCHANGED <<enabled, dpmsVars, flipVars, m_active, dropped, phase>>

Plug(o) ==
  /\ phase = "running" /\ "hotplug" \in events
  /\ o \notin m_outputs \cup m_deleted
  /\ \A p \in m_outputs : ConnectorOf[p] # ConnectorOf[o]
  /\ ConnectedOutputs(m_outputs \cup {o})
  /\ enabled' = enabled \cup {o}
  /\ OutputAdded(o, AllOn(m_outputs', dpms))
  /\ UNCHANGED <<m_deleted, freed, dpmsVars, flipVars, m_active, dropped, phase>>

\* A hot plug event that changes no connector.
UpdateOutputs ==
  /\ phase = "running" /\ "hotplug" \in events
  /\ ConnectedOutputs(m_outputs)
  /\ outputsOn' = AllOn(m_outputs, dpms)
  /\ AddRepaintFull /\ OweAll
  /\ UNCHANGED <<outputs, swap_pending, idle, windowVars, enabled, m_deleted,
                 freed, dpmsVars, flipVars, m_active, dropped, phase>>

-----------------------------------------------------------------------------
(* The session and the end.                                                *)

Deactivate ==
  /\ phase \in {"running", "quitting"} /\ "session" \in events
  /\ m_active
  /\ m_active' = FALSE
  /\ UNCHANGED <<vars, outVars, dpmsVars, flipVars, dropped, phase>>

\* Mutant: the compositor is not restarted.
ReactivateSilently ==
  /\ phase = "running" /\ "session" \in events
  /\ ~m_active /\ m_active' = TRUE
  /\ m_pageFlipsPending' = 0
  /\ UNCHANGED <<vars, outVars, dpmsVars, m_pageFlipPending, dropped, phase>>

Reactivate ==
  /\ phase \in {"running", "quitting"} /\ "session" \in events
  /\ ~m_active /\ m_active' = TRUE
  /\ m_pageFlipsPending >= -SwitchBound
  /\ m_pageFlipsPending' = 0
  /\ AddRepaintFull /\ OweAll
  /\ UNCHANGED <<outputVars, swap_pending, idle, windowVars, outVars, dpmsVars,
                 m_pageFlipPending, dropped, phase>>

\* ~ApplicationWayland: outputs off, workspace and compositor destroyed,
\* prepareShutdown tears all outputs down.
Quit ==
  /\ phase = "running" /\ "quit" \in events
  /\ phase' = "quitting"
  /\ outputs' = {} /\ outputsOn' = FALSE
  /\ delay_timer' = {} /\ swap_pending' = {} /\ idle' = {}
  /\ repaints_region' = [o \in Output |-> {}]
  /\ owed' = [o \in Output |-> {}]
  /\ Teardown(m_outputs)
  /\ UNCHANGED <<windowVars, m_outputs, m_enabledOutputs, enabled, dpmsVars,
                 flipVars, m_active, dropped>>

\* ~DrmBackend: the loop that waits for the page flips ends.
Exit ==
  /\ phase = "quitting"
  /\ m_pageFlipsPending = 0
  /\ phase' = "exited"
  /\ UNCHANGED <<vars, outVars, dpmsVars, flipVars, m_active, dropped>>

-----------------------------------------------------------------------------
DrmInit ==
  /\ Windowless /\ Init
  /\ \A o, p \in outputs : o # p => ConnectorOf[o] # ConnectorOf[p]
  /\ m_outputs = outputs /\ m_enabledOutputs = outputs /\ enabled = outputs
  /\ dpms = [o \in Output |-> "On"]
  /\ m_dpmsModePending = [o \in Output |-> "On"]
  /\ m_atomicOffPending = {} /\ m_pageFlipPending = {}
  /\ m_deleted = {} /\ freed = {}
  /\ m_pageFlipsPending = 0
  /\ m_active = TRUE /\ m_dpmsFilter = FALSE
  /\ dropped = {} /\ phase = "running"
  /\ events \in Scenarios

Damage ==
  /\ phase = "running"
  /\ \E R \in SUBSET Cell : CompositorAddRepaint(R)
  /\ UNCHANGED drmVars

Flip(o) == \E ok \in BOOLEAN : AtomicFlipHandler(o, ok)
DrmRun(o) == DrmRunPaint(o) \/ DrmRunNothing(o)

Power ==
  \/ \E o \in Output : RequestDpmsOn(o)
  \/ \E o \in Output, mode \in OffMode, ok \in BOOLEAN :
       RequestDpmsOff(o, mode, ok)
  \/ TurnOutputsOn

Configure ==
  \/ \E o \in Output, ok \in BOOLEAN : Disable(o, ok)
  \/ \E o \in Output : Enable(o) \/ Unplug(o) \/ Plug(o)
  \/ UpdateOutputs

Session == Deactivate \/ Reactivate \/ Quit \/ Exit

DrmNext ==
  /\ \/ Damage \/ Power \/ Configure \/ Session
     \/ \E o \in Output : DrmRun(o) \/ Flip(o)
  /\ UNCHANGED events

\* Timers fire, the kernel delivers page flips, an inactive session becomes
\* active again and the waiting destructor looks at its condition.
DrmFairness ==
  /\ \A o \in Output : WF_sysVars(DrmRun(o)) /\ WF_sysVars(Flip(o))
  /\ WF_sysVars(Reactivate)
  /\ WF_sysVars(Exit)

DrmSpec == DrmInit /\ [][DrmNext]_allVars
DrmFairSpec == DrmSpec /\ DrmFairness

-----------------------------------------------------------------------------
(* Properties.                                                             *)

\* A render output that waits for a swap event gets one: the page flip of its
\* last frame is still to come.  Otherwise the output is frozen for ever.
FlipForSwap == phase = "running" => swap_pending \subseteq m_pageFlipPending

\* An output is to be switched off later only while a page flip is to come that
\* does it, and only to an off mode: the assertions Q_ASSERT(m_pageFlipPending)
\* of atomicEnable and updateDpms and the one of dpmsFinishOff.
OffPendingHasFlip ==
  \A o \in m_atomicOffPending \ freed :
    o \in m_pageFlipPending /\ m_dpmsModePending[o] # "On"

\* Whoever waits for a page flip gets it: a render output for the end of its
\* frame, an output for the moment at which it is switched off.
FlipAwaited == FlipForSwap /\ OffPendingHasFlip

\* A dark output can be woken: while a composited output is off the input
\* filter that switches the outputs on again is installed.
FilterWhenOff ==
  phase = "running" =>
    \A o \in outputs : dpms[o] # "On" => m_dpmsFilter

\* The data pointer of a page flip event and the compositor's outputs never
\* refer to a deleted DrmOutput: Q_ASSERT(!m_pageFlipPending) of ~DrmOutput.
FlipTargetAlive == (m_pageFlipPending \cup outputs) \cap freed = {}

\* What is on screen is what was painted last: an output that is on and whose
\* last frame was dropped, because the session was inactive, the output was off
\* or the last page had not flipped, still has its whole geometry to repaint.
NoLostFrame ==
  "disable" \notin events => \A o \in outputs \cap dropped :
    phase = "running" /\ m_active /\ m_dpmsModePending[o] = "On"
      => repaints_region[o] = Geo[o]

\* The program ends: the destructor of DrmBackend does "wait for pageflips"
\* (drm_backend.cpp) and then returns.
ShutdownDone ==
  (phase = "quitting" /\ "session" \notin events) ~> (phase = "exited")

\* The page flip event of a removed output is handled: the output "will be
\* deleted in the page flip handler" (DrmOutput::teardown).
FlipFindsOutput == phase # "out_of_range"
=============================================================================
