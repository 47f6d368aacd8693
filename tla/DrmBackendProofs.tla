-------------------------- MODULE DrmBackendProofs --------------------------
(***************************************************************************)
(* Theorems about the render loop, for every set of outputs, windows and   *)
(* cells, every geometry and every stacking order, and about the DRM       *)
(* backend that drives it, for every number of outputs, connectors and off *)
(* modes and every kind of event.  The former are about RenderLoop's Spec, *)
(* the latter about DrmSpec, in which there are no windows.                *)
(***************************************************************************)
EXTENDS DrmBackend, TLAPS

-----------------------------------------------------------------------------
(* The render loop.                                                        *)

\* A painted window keeps only repaints it had.
LEMMA ResetRepaintsShrinks ==
  ASSUME NEW w \in Window, NEW o \in Output
  PROVE  ResetRepaints(w, o) \subseteq repaints[w]
BY DEF ResetRepaints

\* Paintable windows survive the filter loop of prepare_run.
LEMMA PaintableKept ==
  ASSUME NEW w \in Window, Paintable(w)
  PROVE  w \in KeptWindows
BY DEF KeptWindows, Window

\* Every state of the render loop is well typed.
THEOREM TypeCorrect == Spec => []TypeOK
<1>1. Init => TypeOK
  BY GeoAssumption, PlaceAssumption DEF Init, TypeOK
<1>2. TypeOK /\ [Next]_vars => TypeOK'
  <2> SUFFICES ASSUME TypeOK, [Next]_vars PROVE TypeOK'
    OBVIOUS
  <2> USE GeoAssumption, PlaceAssumption DEF TypeOK
  <2>1. ASSUME NEW w \in Window, NEW R \in SUBSET Cell, AddDamage(w, R)
        PROVE  TypeOK'
    BY <2>1 DEF AddDamage, AddRepaintOutputs, ScheduleRepaint, SetDelayTimer,
                Owe, outputVars
  <2>2. ASSUME NEW w \in Window, NEW R \in SUBSET Cell, AddWindowRepaint(w, R)
        PROVE  TypeOK'
    BY <2>2 DEF AddWindowRepaint, AddRepaintOutputs, ScheduleRepaint,
                SetDelayTimer, Owe, outputVars
  <2>3. ASSUME NEW w \in Window, SetReadyForPainting(w)
        PROVE  TypeOK'
    BY <2>3 DEF SetReadyForPainting, AddRepaintOutputs, ScheduleRepaint,
                SetDelayTimer, Owe, outputVars
  <2>4. ASSUME NEW w \in Window, NEW V \in Place[w], DoSetGeometry(w, V)
        PROVE  TypeOK'
    BY <2>4 DEF DoSetGeometry, AddRepaintOutputs, ScheduleRepaint,
                SetDelayTimer, Owe, outputVars
  <2>5. ASSUME NEW R \in SUBSET Cell, CompositorAddRepaint(R)
        PROVE  TypeOK'
    BY <2>5 DEF CompositorAddRepaint, AddRepaint, SetDelayTimer, outputVars,
                windowVars
  <2>6. ASSUME NEW o \in Output, NEW on \in BOOLEAN, OutputAdded(o, on)
        PROVE  TypeOK'
    BY <2>6 DEF OutputAdded, FullRepaint, ArmAll, windowVars
  <2>7. ASSUME NEW o \in Output, NEW on \in BOOLEAN, OutputRemoved(o, on)
        PROVE  TypeOK'
    BY <2>7 DEF OutputRemoved, FullRepaint, ArmAll
  <2>8. ASSUME NEW o \in Output, RunBlocked(o)
        PROVE  TypeOK'
    BY <2>8 DEF RunBlocked, outputVars, windowVars
  <2>9. ASSUME NEW o \in Output, RunIdle(o)
        PROVE  TypeOK'
    BY <2>9 DEF RunIdle, outputVars, windowVars
  <2>10. ASSUME NEW o \in Output, NEW posted \in BOOLEAN, RunPaint(o, posted)
         PROVE  TypeOK'
    <3>1. \A p \in Output : PassedOn(o, p) \in SUBSET Cell
      BY DEF PassedOn, RepaintingWindows
    <3>2. \A w \in Window : ResetRepaints(w, o) \in SUBSET Cell
      BY ResetRepaintsShrinks
    <3>3. \A p \in Output : PassedOn(o, p) \subseteq Geo[p]
      BY DEF PassedOn
    <3>4. (\A p \in Output : repaints_region[p] \subseteq Geo[p])'
      BY <2>10, <3>3 DEF RunPaint
    <3>5. /\ repaints_region' \in [Output -> SUBSET Cell]
          /\ repaints' \in [Window -> SUBSET Cell]
      BY <2>10, <3>1, <3>2 DEF RunPaint
    <3>6. /\ repaint_outputs' \in [Window -> SUBSET Output]
          /\ owed' \in [Output -> SUBSET Cell]
          /\ frame_callbacks' \in SUBSET Window
      BY <2>10 DEF RunPaint
    <3>7. /\ idle' \in SUBSET Output
          /\ swap_pending' \in SUBSET Output
          /\ delay_timer' \in SUBSET Output
          /\ UNCHANGED <<outputs, outputsOn, vis, ready>>
      BY <2>10 DEF RunPaint, FrameDue, outputVars
    <3>8. QED
      BY <3>4, <3>5, <3>6, <3>7
  <2>11. ASSUME NEW o \in Output, Swapped(o)
         PROVE  TypeOK'
    BY <2>11 DEF Swapped, outputVars, windowVars
  <2>12. CASE UNCHANGED vars
    BY <2>12 DEF vars
  <2>13. QED
    BY <2>1, <2>2, <2>3, <2>4, <2>5, <2>6, <2>7, <2>8, <2>9, <2>10, <2>11,
       <2>12 DEF Next, Change, Hotplug, Loop, Run
<1>3. QED
  BY <1>1, <1>2, PTL DEF Spec

-----------------------------------------------------------------------------
(* No reference to a removed output, and no timer beside a pending swap.   *)

RefInv == NoDanglingOutput /\ TimerOrSwap

LEMMA RefInvStep == TypeOK /\ RefInv /\ [Next]_vars => RefInv'
<1> SUFFICES ASSUME TypeOK, RefInv, [Next]_vars PROVE RefInv'
  OBVIOUS
<1> USE DEF TypeOK, RefInv, NoDanglingOutput, TimerOrSwap
<1>1. ASSUME NEW w \in Window, NEW R \in SUBSET Cell, AddDamage(w, R)
      PROVE  RefInv'
  BY <1>1 DEF AddDamage, AddRepaintOutputs, ScheduleRepaint, SetDelayTimer,
              outputVars
<1>2. ASSUME NEW w \in Window, NEW R \in SUBSET Cell, AddWindowRepaint(w, R)
      PROVE  RefInv'
  BY <1>2 DEF AddWindowRepaint, AddRepaintOutputs, ScheduleRepaint,
              SetDelayTimer, outputVars
<1>3. ASSUME NEW w \in Window, SetReadyForPainting(w)
      PROVE  RefInv'
  BY <1>3 DEF SetReadyForPainting, AddRepaintOutputs, ScheduleRepaint,
              SetDelayTimer, outputVars
<1>4. ASSUME NEW w \in Window, NEW V \in Place[w], DoSetGeometry(w, V)
      PROVE  RefInv'
  BY <1>4 DEF DoSetGeometry, AddRepaintOutputs, ScheduleRepaint,
              SetDelayTimer, outputVars
<1>5. ASSUME NEW R \in SUBSET Cell, CompositorAddRepaint(R)
      PROVE  RefInv'
  BY <1>5 DEF CompositorAddRepaint, AddRepaint, SetDelayTimer, outputVars,
              windowVars
<1>6. ASSUME NEW o \in Output, NEW on \in BOOLEAN, OutputAdded(o, on)
      PROVE  RefInv'
  BY <1>6 DEF OutputAdded, ArmAll, windowVars
<1>7. ASSUME NEW o \in Output, NEW on \in BOOLEAN, OutputRemoved(o, on)
      PROVE  RefInv'
  BY <1>7 DEF OutputRemoved, ArmAll
<1>8. ASSUME NEW o \in Output, RunBlocked(o)
      PROVE  RefInv'
  BY <1>8 DEF RunBlocked, outputVars, windowVars
<1>9. ASSUME NEW o \in Output, RunIdle(o)
      PROVE  RefInv'
  BY <1>9 DEF RunIdle, outputVars, windowVars
<1>10. ASSUME NEW o \in Output, NEW posted \in BOOLEAN, RunPaint(o, posted)
       PROVE  RefInv'
  <2>1. PassedOn(o, o) = {}
    BY DEF PassedOn
  <2>2. QED
    BY <1>10, <2>1 DEF RunPaint, FrameDue, outputVars
<1>11. ASSUME NEW o \in Output, Swapped(o)
       PROVE  RefInv'
  BY <1>11 DEF Swapped, outputVars, windowVars
<1>12. CASE UNCHANGED vars
  BY <1>12 DEF vars
<1>13. QED
  BY <1>1, <1>2, <1>3, <1>4, <1>5, <1>6, <1>7, <1>8, <1>9, <1>10, <1>11,
     <1>12 DEF Next, Change, Hotplug, Loop, Run

\* Neither the render outputs nor any window's repaint_outputs ever name an
\* output the backend has removed (WaylandCompositor's output_removed handler).
THEOREM NoDangling == Spec => []NoDanglingOutput
<1>1. Init => RefInv
  BY DEF Init, RefInv, NoDanglingOutput, TimerOrSwap
<1>2. QED
  BY <1>1, TypeCorrect, RefInvStep, PTL DEF Spec, RefInv

\* An output never has its delay timer running while a swap is pending, so
\* the assertion of DrmBackend::present is never reached with a pending swap.
THEOREM TimerExcludesSwap == Spec => []TimerOrSwap
<1>1. Init => RefInv
  BY DEF Init, RefInv, NoDanglingOutput, TimerOrSwap
<1>2. QED
  BY <1>1, TypeCorrect, RefInvStep, PTL DEF Spec, RefInv

-----------------------------------------------------------------------------
(* No damage is lost.  The strengthening: an output is owed only cells of  *)
(* its own geometry.                                                       *)

OwedInside == \A o \in Output : owed[o] \subseteq Geo[o]

DamageInv == NoLostDamage /\ OwedInside

\* A record of damage that a step neither removes nor weakens.
LEMMA RecordKept ==
  ASSUME TypeOK, NoLostDamage,
         outputs' = outputs, ready \subseteq ready',
         \A o \in Output : repaints_region[o] \subseteq repaints_region'[o],
         \A w \in Window : /\ repaints[w] \subseteq repaints'[w]
                           /\ repaint_outputs[w] \subseteq repaint_outputs'[w],
         NEW o \in outputs, NEW c \in owed[o]
  PROVE  \/ c \in repaints_region'[o]
         \/ \E w \in Window : /\ Paintable(w)'
                             /\ c \in repaints'[w]
                             /\ o \in repaint_outputs'[w]
BY DEF NoLostDamage, TypeOK, Paintable, Hidden

\* Damage inside a window is recorded on every output it touches.
LEMMA WindowDamage ==
  ASSUME TypeOK, DamageInv, NEW w \in Window, NEW R \in SUBSET Cell,
         NEW S \in SUBSET Cell, R \subseteq S,
         outputs' = outputs, repaints_region' = repaints_region,
         ready \subseteq ready',
         repaints' = [repaints EXCEPT ![w] = @ \cup R],
         AddRepaintOutputs(w, S), Owe(w, R)
  PROVE  DamageInv'
<1> USE GeoAssumption DEF TypeOK, DamageInv
<1>1. OwedInside'
  BY DEF Owe, OwedInside
<1>2. ASSUME NEW o \in outputs, NEW c \in owed'[o]
      PROVE  \/ c \in repaints_region'[o]
             \/ \E x \in Window : /\ Paintable(x)'
                                 /\ c \in repaints'[x]
                                 /\ o \in repaint_outputs'[x]
  <2>1. CASE c \in owed[o]
    BY <2>1, RecordKept DEF AddRepaintOutputs
  <2>2. CASE c \notin owed[o]
    <3>1. c \in R \cap Geo[o] /\ w \in ready' /\ ~Hidden(w)
      BY <2>2, <1>2 DEF Owe
    <3>2. c \in repaints'[w]
      BY <3>1
    <3>3. o \in repaint_outputs'[w]
      BY <3>1 DEF AddRepaintOutputs, Meets
    <3>4. Paintable(w)'
      BY <3>1 DEF Paintable, Hidden
    <3>5. QED
      BY <3>2, <3>3, <3>4
  <2>3. QED
    BY <2>1, <2>2
<1>3. NoLostDamage'
  BY <1>2 DEF NoLostDamage
<1>4. QED
  BY <1>1, <1>3

LEMMA DamageInvStep ==
  TypeOK /\ RefInv /\ DamageInv /\ [Next]_vars => DamageInv'
<1> SUFFICES ASSUME TypeOK, RefInv, DamageInv, [Next]_vars PROVE DamageInv'
  OBVIOUS
<1> USE GeoAssumption, PlaceAssumption
<1>1. ASSUME NEW w \in Window, NEW R \in SUBSET Cell, AddDamage(w, R)
      PROVE  DamageInv'
  BY <1>1, WindowDamage, vis[w] \in SUBSET Cell
     DEF AddDamage, outputVars, TypeOK
<1>2. ASSUME NEW w \in Window, NEW R \in SUBSET Cell, AddWindowRepaint(w, R)
      PROVE  DamageInv'
  BY <1>2, WindowDamage DEF AddWindowRepaint, outputVars
<1>3. ASSUME NEW w \in Window, SetReadyForPainting(w)
      PROVE  DamageInv'
  BY <1>3, WindowDamage, vis[w] \in SUBSET Cell
     DEF SetReadyForPainting, outputVars, TypeOK
<1>4. ASSUME NEW w \in Window, NEW V \in Place[w], DoSetGeometry(w, V)
      PROVE  DamageInv'
  <2>1. vis[w] \cup V \in SUBSET Cell
    BY DEF TypeOK
  <2>2. repaints' = [repaints EXCEPT ![w] = @ \cup (vis[w] \cup V)]
    BY <1>4 DEF DoSetGeometry, TypeOK
  <2>3. QED
    BY <1>4, <2>1, <2>2, WindowDamage DEF DoSetGeometry, outputVars
<1>5. ASSUME NEW R \in SUBSET Cell, CompositorAddRepaint(R)
      PROVE  DamageInv'
  <2>1. OwedInside'
    BY <1>5 DEF CompositorAddRepaint, DamageInv, OwedInside, TypeOK
  <2>2. ASSUME NEW o \in outputs, NEW c \in owed'[o]
        PROVE  \/ c \in repaints_region'[o]
               \/ \E w \in Window : /\ Paintable(w)'
                                   /\ c \in repaints'[w]
                                   /\ o \in repaint_outputs'[w]
    <3>1. CASE c \in owed[o]
      BY <1>5, <3>1, RecordKept DEF CompositorAddRepaint, AddRepaint,
         outputVars, windowVars, DamageInv, TypeOK
    <3>2. CASE c \notin owed[o]
      BY <1>5, <2>2, <3>2 DEF CompositorAddRepaint, AddRepaint, TypeOK
    <3>3. QED
      BY <3>1, <3>2
  <2>3. NoLostDamage'
    BY <1>5, <2>2 DEF NoLostDamage, CompositorAddRepaint, outputVars
  <2>4. QED
    BY <2>1, <2>3 DEF DamageInv
<1>6. ASSUME NEW o \in Output, NEW on \in BOOLEAN, OutputAdded(o, on)
      PROVE  DamageInv'
  BY <1>6 DEF OutputAdded, FullRepaint, DamageInv, NoLostDamage, OwedInside,
     TypeOK
<1>7. ASSUME NEW o \in Output, NEW on \in BOOLEAN, OutputRemoved(o, on)
      PROVE  DamageInv'
  BY <1>7 DEF OutputRemoved, FullRepaint, DamageInv, NoLostDamage, OwedInside,
     TypeOK
<1>8. ASSUME NEW o \in Output, NEW posted \in BOOLEAN, RunPaint(o, posted)
      PROVE  DamageInv'
  <2>1. OwedInside'
    BY <1>8 DEF RunPaint, DamageInv, OwedInside, TypeOK
  <2>2. ASSUME NEW p \in outputs, NEW c \in owed'[p]
        PROVE  \/ c \in repaints_region'[p]
               \/ \E w \in Window : /\ Paintable(w)'
                                   /\ c \in repaints'[w]
                                   /\ p \in repaint_outputs'[w]
    <3>1. c \in owed[p] /\ c \in Geo[p]
      BY <1>8, <2>2 DEF RunPaint, DamageInv, OwedInside, TypeOK
    <3>2. \/ c \in repaints_region[p]
          \/ \E w \in Window : /\ Paintable(w)
                              /\ c \in repaints[w]
                              /\ p \in repaint_outputs[w]
      BY <3>1 DEF DamageInv, NoLostDamage
    <3>3. p # o
      <4>1. SUFFICES ASSUME p = o PROVE FALSE
        OBVIOUS
      <4>2. c \notin FrameDamage(o, KeptWindows)
        BY <1>8, <2>2, <4>1 DEF RunPaint, TypeOK
      <4>3. QED
        BY <3>1, <3>2, <4>1, <4>2, PaintableKept DEF FrameDamage
    <3>4. CASE c \in repaints_region[p]
      BY <1>8, <3>3, <3>4 DEF RunPaint, TypeOK
    <3>5. ASSUME NEW w \in Window, Paintable(w), c \in repaints[w],
                 p \in repaint_outputs[w]
          PROVE  /\ Paintable(w)'
                 /\ c \in repaints'[w]
                 /\ p \in repaint_outputs'[w]
      <4>1. c \in ResetRepaints(w, o)
        BY <3>1, <3>3, <3>5 DEF ResetRepaints
      <4>2. w \in KeptWindows
        BY <3>5, PaintableKept
      <4>3. Paintable(w)'
        BY <1>8, <3>5 DEF RunPaint, Paintable, Hidden
      <4>4. QED
        BY <1>8, <3>3, <3>5, <4>1, <4>2, <4>3 DEF RunPaint
    <3>6. QED
      BY <3>2, <3>4, <3>5
  <2>3. NoLostDamage'
    BY <1>8, <2>2 DEF NoLostDamage, RunPaint, outputVars
  <2>4. QED
    BY <2>1, <2>3 DEF DamageInv
<1>9. CASE UNCHANGED <<outputs, ready, repaints_region, repaints,
                       repaint_outputs, owed>>
  BY <1>9 DEF DamageInv, NoLostDamage, OwedInside, Paintable, Hidden
<1>10. QED
  <2>1. ASSUME NEW o \in Output, RunBlocked(o) \/ RunIdle(o) \/ Swapped(o)
        PROVE  DamageInv'
    BY <1>9, <2>1 DEF RunBlocked, RunIdle, Swapped, outputVars, windowVars
  <2>2. CASE UNCHANGED vars
    BY <1>9, <2>2 DEF vars
  <2>3. QED
    BY <1>1, <1>2, <1>3, <1>4, <1>5, <1>6, <1>7, <1>8, <2>1, <2>2
       DEF Next, Change, Hotplug, Loop, Run

\* Whatever changed on an output and was not painted since is still recorded
\* for that output: resetRepaints, the passing on of repaints between outputs
\* and the removal of outputs forget nothing.
THEOREM DamageNotLost == Spec => []NoLostDamage
<1>1. Init => RefInv /\ DamageInv
  BY GeoAssumption DEF Init, RefInv, NoDanglingOutput, TimerOrSwap, DamageInv,
     NoLostDamage, OwedInside
<1>2. QED
  BY <1>1, TypeCorrect, RefInvStep, DamageInvStep, PTL DEF Spec, DamageInv

-----------------------------------------------------------------------------
(* No wakeup is lost.                                                      *)

\* What NoLostWakeup says of one window.
Waking(w) ==
  \A o \in outputs :
    Paintable(w) /\ OnScreen(w) /\ PendingOn(w, o) =>
      \E p \in outputs : Armed(p) /\ PendingOn(w, p)

\* What NoLostWakeup says of one output.
AwakeOutput(o) == repaints_region[o] # {} => Armed(o)

LEMMA WakeupParts ==
  NoLostWakeup <=>
    (outputsOn => /\ \A o \in outputs : AwakeOutput(o)
                  /\ \A w \in Window : Waking(w))
BY DEF NoLostWakeup, AwakeOutput, Waking

\* A window that a step does not touch stays awake if armed outputs stay armed.
LEMMA WakingKept ==
  ASSUME NEW w \in Window, Waking(w), outputs' = outputs,
         vis'[w] = vis[w], repaints'[w] = repaints[w],
         w \in ready' <=> w \in ready,
         \A o \in outputs : Armed(o) => Armed(o)'
  PROVE  Waking(w)'
BY DEF Waking, Paintable, Hidden, OnScreen, PendingOn, HasPendingRepaints, Meets

\* A step on window w with new repaints R inside its new visible rect V, which
\* arms every output V lies on.
LEMMA WakingDamaged ==
  ASSUME TypeOK, TypeOK', NEW w \in Window, NEW R, NEW V,
         outputsOn', outputs' = outputs, outputsOn' = outputsOn,
         swap_pending' = swap_pending, repaints_region' = repaints_region,
         vis' = [vis EXCEPT ![w] = V],
         repaints' = [repaints EXCEPT ![w] = @ \cup R],
         ready' \in {ready, ready \cup {w}},
         ScheduleRepaint(V), NoLostWakeup,
         V \subseteq R \/ (R \subseteq V /\ V = vis[w] /\ ready' = ready)
  PROVE  NoLostWakeup'
<1>1. \A o \in outputs : Armed(o) => Armed(o)'
  BY DEF Armed, ScheduleRepaint, SetDelayTimer
<1>2. \A o \in outputs : Meets(V, o) => Armed(o)'
  BY DEF Armed, ScheduleRepaint, SetDelayTimer
<1>3. \A o \in outputs' : AwakeOutput(o)'
  BY <1>1, WakeupParts DEF AwakeOutput
<1>4. ASSUME NEW x \in Window, x # w
      PROVE  Waking(x)'
  BY <1>1, <1>4, WakeupParts, WakingKept DEF TypeOK
<1>5. Waking(w)'
  <2> SUFFICES ASSUME NEW o \in outputs', (Paintable(w) /\ OnScreen(w) /\ PendingOn(w, o))'
               PROVE  \E p \in outputs' : Armed(p)' /\ PendingOn(w, p)'
    BY DEF Waking
  <2>0. vis'[w] = V /\ repaints'[w] = repaints[w] \cup R
    BY DEF TypeOK
  <2>1. w \in ready'
    BY DEF Paintable
  <2>2. CASE V \subseteq R
    <3>1. PICK q \in outputs : Meets(V, q)
      BY <2>0 DEF OnScreen, Meets
    <3>2. PendingOn(w, q)'
      BY <2>0, <2>1, <2>2, <3>1 DEF PendingOn, HasPendingRepaints, Meets
    <3>3. QED
      BY <1>2, <3>1, <3>2
  <2>3. CASE R \subseteq V /\ V = vis[w] /\ ready' = ready
    <3>1. CASE Meets(R, o)
      BY <1>2, <2>3, <3>1 DEF Meets
    <3>2. CASE ~Meets(R, o)
      <4>1. PendingOn(w, o)
        BY <2>0, <2>1, <2>3, <3>2 DEF PendingOn, HasPendingRepaints, Meets
      <4>2. Paintable(w) /\ OnScreen(w)
        BY <2>0, <2>3 DEF Paintable, Hidden, OnScreen, Meets
      <4>3. PICK p \in outputs : Armed(p) /\ PendingOn(w, p)
        BY <4>1, <4>2, WakeupParts DEF Waking
      <4>4. PendingOn(w, p)'
        BY <2>0, <2>1, <4>3 DEF PendingOn, HasPendingRepaints, Meets
      <4>5. QED
        BY <1>1, <4>3, <4>4
    <3>3. QED
      BY <3>1, <3>2
  <2>4. QED
    BY <2>2, <2>3
<1>6. (NoLostWakeup <=>
        (outputsOn => /\ \A o \in outputs : AwakeOutput(o)
                      /\ \A x \in Window : Waking(x)))'
  BY DEF NoLostWakeup, AwakeOutput, Waking
<1>7. QED
  BY <1>3, <1>4, <1>5, <1>6

LEMMA WakeupStep ==
  TypeOK /\ TypeOK' /\ RefInv /\ NoLostWakeup /\ [Next]_vars => NoLostWakeup'
<1> SUFFICES ASSUME TypeOK, TypeOK', RefInv, NoLostWakeup, [Next]_vars, outputsOn'
             PROVE  NoLostWakeup'
  BY DEF NoLostWakeup
<1> USE GeoAssumption, PlaceAssumption
<1>a. (NoLostWakeup <=>
        (outputsOn => /\ \A o \in outputs : AwakeOutput(o)
                      /\ \A x \in Window : Waking(x)))'
  BY DEF NoLostWakeup, AwakeOutput, Waking
<1>1. ASSUME NEW w \in Window, NEW R \in SUBSET Cell, AddDamage(w, R)
      PROVE  NoLostWakeup'
  <2>1. vis' = [vis EXCEPT ![w] = vis[w]]
    BY <1>1 DEF AddDamage, TypeOK
  <2>2. QED
    BY <1>1, <2>1, WakingDamaged DEF AddDamage, outputVars
<1>2. ASSUME NEW w \in Window, NEW R \in SUBSET Cell, AddWindowRepaint(w, R)
      PROVE  NoLostWakeup'
  <2>1. vis' = [vis EXCEPT ![w] = vis[w]]
    BY <1>2 DEF AddWindowRepaint, TypeOK
  <2>2. QED
    BY <1>2, <2>1, WakingDamaged DEF AddWindowRepaint, outputVars
<1>3. ASSUME NEW w \in Window, SetReadyForPainting(w)
      PROVE  NoLostWakeup'
  <2>1. vis' = [vis EXCEPT ![w] = vis[w]]
    BY <1>3 DEF SetReadyForPainting, TypeOK
  <2>2. QED
    BY <1>3, <2>1, WakingDamaged DEF SetReadyForPainting, outputVars
<1>4. ASSUME NEW w \in Window, NEW V \in Place[w], DoSetGeometry(w, V)
      PROVE  NoLostWakeup'
  <2>1. repaints' = [repaints EXCEPT ![w] = @ \cup (vis[w] \cup V)]
    BY <1>4 DEF DoSetGeometry, TypeOK
  <2>2. QED
    BY <1>4, <2>1, WakingDamaged DEF DoSetGeometry, outputVars
<1>5. ASSUME NEW R \in SUBSET Cell, CompositorAddRepaint(R)
      PROVE  NoLostWakeup'
  <2>1. \A o \in outputs : Armed(o) => Armed(o)'
    BY <1>5 DEF CompositorAddRepaint, AddRepaint, SetDelayTimer, Armed
  <2>2. \A w \in Window : Waking(w)'
    BY <1>5, <2>1, WakeupParts, WakingKept
       DEF CompositorAddRepaint, outputVars, windowVars
  <2>3. \A o \in outputs' : AwakeOutput(o)'
    BY <1>5, <2>1, WakeupParts
       DEF CompositorAddRepaint, AddRepaint, SetDelayTimer, AwakeOutput, Armed,
           Meets, outputVars, TypeOK
  <2>4. QED
    BY <1>a, <2>2, <2>3
<1>6. ASSUME NEW o \in Output, NEW on \in BOOLEAN,
             OutputAdded(o, on) \/ OutputRemoved(o, on)
      PROVE  NoLostWakeup'
  <2>1. \A p \in outputs' : Geo[p] # {} => Armed(p)'
    BY <1>6 DEF OutputAdded, OutputRemoved, ArmAll, Armed
  <2>2. \A p \in outputs' : AwakeOutput(p)'
    BY <2>1 DEF AwakeOutput, TypeOK
  <2>3. \A w \in Window : Waking(w)'
    BY <2>1 DEF Waking, PendingOn, Meets
  <2>4. QED
    BY <1>a, <2>2, <2>3
<1>7. ASSUME NEW o \in Output, RunBlocked(o) \/ Swapped(o)
      PROVE  NoLostWakeup'
  <2>1. \A p \in outputs : Armed(p) => Armed(p)'
    BY <1>7 DEF RunBlocked, Swapped, Armed, outputVars, TypeOK
  <2>2. UNCHANGED <<outputs, outputsOn, repaints_region, vis, ready, repaints>>
    BY <1>7 DEF RunBlocked, Swapped, outputVars, windowVars
  <2>3. QED
    BY <1>a, <2>1, <2>2, WakeupParts, WakingKept DEF AwakeOutput
<1>8. ASSUME NEW o \in Output, RunIdle(o)
      PROVE  NoLostWakeup'
  <2>1. \A p \in outputs : p # o /\ Armed(p) => Armed(p)'
    BY <1>8 DEF RunIdle, Armed
  <2>2. UNCHANGED <<outputs, outputsOn, repaints_region, vis, ready, repaints>>
    BY <1>8 DEF RunIdle, outputVars, windowVars
  <2>3. \A w \in Window : ~PendingOn(w, o)
    BY <1>8 DEF RunIdle, RepaintingWindows
  <2>4. \A w \in Window : Waking(w)'
    BY <2>1, <2>2, <2>3, WakeupParts
       DEF Waking, Paintable, Hidden, OnScreen, PendingOn, HasPendingRepaints, Meets
  <2>5. \A p \in outputs' : AwakeOutput(p)'
    BY <1>8, <2>1, <2>2, WakeupParts DEF RunIdle, AwakeOutput
  <2>6. QED
    BY <1>a, <2>4, <2>5
<1>9. ASSUME NEW o \in Output, NEW posted \in BOOLEAN, RunPaint(o, posted)
      PROVE  NoLostWakeup'
  <2>1. UNCHANGED <<outputs, outputsOn, vis, ready>>
    BY <1>9 DEF RunPaint, outputVars
  <2>2. \A p \in outputs : p # o /\ Armed(p) => Armed(p)'
    BY <1>9 DEF RunPaint, Armed
  <2>3. \A p \in outputs : PassedOn(o, p) # {} => Armed(p)'
    BY <1>9 DEF RunPaint, Armed
  <2>4. \A p \in outputs' : AwakeOutput(p)'
    BY <1>9, <2>1, <2>2, <2>3, WakeupParts DEF RunPaint, AwakeOutput, TypeOK
  <2>5. ASSUME NEW w \in Window, NEW q \in outputs,
               Paintable(w), OnScreen(w), PendingOn(w, q)'
        PROVE  \E p \in outputs : Armed(p)' /\ PendingOn(w, p)'
    <3>1. w \in ready /\ w \in KeptWindows
      BY <2>5, PaintableKept DEF Paintable
    <3>2. repaints'[w] = ResetRepaints(w, o)
      BY <1>9, <3>1 DEF RunPaint
    <3>3. PICK c \in repaints'[w] : c \in Geo[q]
      BY <2>5 DEF PendingOn, Meets
    <3>4. c \in repaints[w]
      BY <3>2, <3>3, ResetRepaintsShrinks
    <3>5. \A p \in outputs : c \in Geo[p] => PendingOn(w, p)'
      BY <2>1, <3>1, <3>3 DEF PendingOn, HasPendingRepaints, Meets
    <3>6. PICK r \in repaint_outputs[w] : r # o
      BY <3>2, <3>3 DEF ResetRepaints
    <3>7. CASE PendingOn(w, o)
      <4>1. \A p \in outputs : p # o /\ c \in Geo[p] => Armed(p)'
        BY <2>3, <3>4, <3>7 DEF PassedOn, RepaintingWindows
      <4>2. CASE q # o
        BY <3>3, <3>5, <4>1, <4>2
      <4>3. CASE q = o
        <5>1. PICK p \in repaint_outputs[w] \ {o} : c \in Geo[p]
          BY <3>2, <3>3, <4>3 DEF ResetRepaints
        <5>2. p \in outputs
          BY <5>1 DEF RefInv, NoDanglingOutput
        <5>3. QED
          BY <3>5, <4>1, <5>1, <5>2
      <4>4. QED
        BY <4>2, <4>3
    <3>8. CASE ~PendingOn(w, o)
      <4>1. repaints[w] \cap Geo[o] = {}
        BY <3>1, <3>4, <3>8 DEF PendingOn, HasPendingRepaints, Meets
      <4>2. repaints'[w] = repaints[w]
        BY <3>2, <3>6, <4>1 DEF ResetRepaints
      <4>3. \A p \in outputs : PendingOn(w, p)' <=> PendingOn(w, p)
        BY <2>1, <4>2 DEF PendingOn, HasPendingRepaints, Meets
      <4>4. PICK p \in outputs : Armed(p) /\ PendingOn(w, p)
        BY <2>1, <2>5, <4>3, WakeupParts DEF Waking
      <4>5. QED
        BY <2>2, <3>8, <4>3, <4>4
    <3>9. QED
      BY <3>7, <3>8
  <2>6. ASSUME NEW w \in Window
        PROVE  Waking(w)'
    <3>1. (Paintable(w)' <=> Paintable(w)) /\ (OnScreen(w)' <=> OnScreen(w))
      BY <2>1 DEF Paintable, Hidden, OnScreen, Meets
    <3>2. QED
      BY <2>1, <2>5, <3>1 DEF Waking
  <2>7. QED
    BY <1>a, <2>4, <2>6
<1>10. CASE UNCHANGED vars
  BY <1>10 DEF vars, NoLostWakeup, Armed, Paintable, Hidden, OnScreen, PendingOn,
     HasPendingRepaints, Meets
<1>11. QED
  BY <1>1, <1>2, <1>3, <1>4, <1>5, <1>6, <1>7, <1>8, <1>9, <1>10
     DEF Next, Change, Hotplug, Loop, Run

\* An output with something to repaint always has its timer running or a swap
\* event to come, or another output of the same window has: the loop of
\* render::wayland::output never falls asleep on a pending repaint.
THEOREM WakeupNotLost == Spec => []NoLostWakeup
<1>1. Init => RefInv /\ NoLostWakeup
  BY GeoAssumption DEF Init, RefInv, NoDanglingOutput, TimerOrSwap, NoLostWakeup,
     Armed, Paintable
<1>2. QED
  BY <1>1, TypeCorrect, RefInvStep, WakeupStep, PTL DEF Spec

-----------------------------------------------------------------------------
(* The life of a DrmOutput.  A page flip and the compositor refer only to  *)
(* objects that exist, because what the compositor paints is connected,    *)
(* what is torn down is not, and an object is deleted only without a flip. *)

LifeInv ==
  /\ FlipTargetAlive
  /\ FlipForSwap
  /\ freed \subseteq m_deleted
  /\ delay_timer \cup swap_pending \subseteq outputs
  /\ phase = "running" => /\ outputs \subseteq m_enabledOutputs \cap enabled
                          /\ m_enabledOutputs \subseteq m_outputs
                          /\ m_outputs \subseteq Output \ m_deleted
  /\ phase = "quitting" => outputs = {}

LEMMA LifeInvStep == LifeInv /\ [DrmNext]_allVars => LifeInv'
<1> SUFFICES ASSUME LifeInv, [DrmNext]_allVars PROVE LifeInv'
  OBVIOUS
<1> USE DEF LifeInv, FlipTargetAlive, FlipForSwap
<1>1. ASSUME Damage
      PROVE  LifeInv'
  BY <1>1 DEF Damage, CompositorAddRepaint, AddRepaint, SetDelayTimer,
              outputVars, drmVars
<1>2. ASSUME NEW o \in Output, RequestDpmsOn(o)
      PROVE  LifeInv'
  BY <1>2 DEF RequestDpmsOn, SwitchOn, CheckOutputsOn, AllOn, AddRepaintFull,
              AddRepaint, SetDelayTimer, outputVars, outVars, flipVars
<1>3. ASSUME NEW o \in Output, NEW mode \in OffMode, NEW ok \in BOOLEAN,
             RequestDpmsOff(o, mode, ok)
      PROVE  LifeInv'
  BY <1>3 DEF RequestDpmsOff, SwitchOff, DpmsAtomicOff, vars, outVars,
              flipVars
<1>4. ASSUME TurnOutputsOn
      PROVE  LifeInv'
  BY <1>4 DEF TurnOutputsOn, SwitchOn, AddRepaintFull, AddRepaint,
              SetDelayTimer, outputVars, outVars, flipVars
<1>5. ASSUME NEW o \in Output, DrmRunPaint(o)
      PROVE  LifeInv'
  BY <1>5 DEF DrmRunPaint, RunPaint, FrameDue, CanPresent, outputVars,
              outVars, dpmsVars
<1>6. ASSUME NEW o \in Output, DrmRunNothing(o)
      PROVE  LifeInv'
  BY <1>6 DEF DrmRunNothing, RunBlocked, RunIdle, outputVars, drmVars
<1>7. ASSUME NEW o \in Output, NEW ok \in BOOLEAN,
             AtomicFlipHandler(o, ok)
      PROVE  LifeInv'
  BY <1>7 DEF AtomicFlipHandler, PageFlipped, CompositorSwapped,
              DpmsAtomicOff, Swapped, outputVars, dpmsVars, vars
<1>8. ASSUME NEW o \in Output, NEW ok \in BOOLEAN, Disable(o, ok)
      PROVE  LifeInv'
  BY <1>8 DEF Disable, EnabledWithout, OutputRemoved, ArmAll, SwitchOff, DpmsAtomicOff,
              CheckOutputsOn, AllOn, vars, flipVars, dpmsVars
<1>9. ASSUME NEW o \in Output, Enable(o)
      PROVE  LifeInv'
  <2>1. CASE o \in m_enabledOutputs
    BY <1>9, <2>1 DEF Enable, vars, flipVars
  <2>2. CASE o \notin m_enabledOutputs
    BY <1>9, <2>2 DEF Enable, OutputAdded, ArmAll, flipVars
  <2>3. QED
    BY <2>1, <2>2
<1>10. ASSUME NEW o \in Output, Unplug(o)
      PROVE  LifeInv'
  BY <1>10 DEF Unplug, ConnectedOutputs, OutputRemoved, ArmAll, Teardown,
              AddRepaintFull, AddRepaint, SetDelayTimer, flipVars, dpmsVars
<1>11. ASSUME NEW o \in Output, Plug(o)
      PROVE  LifeInv'
  BY <1>11 DEF Plug, ConnectedOutputs, OutputAdded, ArmAll, flipVars, dpmsVars
<1>12. ASSUME UpdateOutputs
      PROVE  LifeInv'
  BY <1>12 DEF UpdateOutputs, ConnectedOutputs, AddRepaintFull, AddRepaint,
              SetDelayTimer, flipVars, dpmsVars
<1>13. ASSUME Deactivate
      PROVE  LifeInv'
  BY <1>13 DEF Deactivate, vars, outVars, dpmsVars, flipVars
<1>14. ASSUME Reactivate
      PROVE  LifeInv'
  BY <1>14 DEF Reactivate, AddRepaintFull, AddRepaint, SetDelayTimer,
              outputVars, outVars, dpmsVars
<1>15. ASSUME Quit
      PROVE  LifeInv'
  BY <1>15 DEF Quit, Teardown, dpmsVars, flipVars
<1>16. ASSUME Exit
      PROVE  LifeInv'
  BY <1>16 DEF Exit, vars, outVars, dpmsVars, flipVars
<1>17. CASE UNCHANGED allVars
  BY <1>17 DEF allVars, vars, drmVars
<1>18. QED
  BY <1>1, <1>2, <1>3, <1>4, <1>5, <1>6, <1>7, <1>8, <1>9, <1>10, <1>11,
     <1>12, <1>13, <1>14, <1>15, <1>16, <1>17
     DEF DrmNext, Power, Configure, Session, Flip, DrmRun

LEMMA LifeInvInit == DrmInit => LifeInv
BY DEF DrmInit, Init, LifeInv, FlipTargetAlive, FlipForSwap

\* A page flip event never points to a deleted DrmOutput and the compositor
\* never renders to one, whatever is unplugged, disabled or shut down while
\* frames are in flight (DrmOutput::teardown and pageFlipped).
THEOREM NoFlipToDeleted == DrmSpec => []FlipTargetAlive
BY LifeInvInit, LifeInvStep, PTL DEF DrmSpec, LifeInv

\* A render output that waits for its swap event has a page flip in flight
\* (DrmBackend::present and atomicFlipHandler).
THEOREM SwapIsAwaited == DrmSpec => []FlipForSwap
BY LifeInvInit, LifeInvStep, PTL DEF DrmSpec, LifeInv

-----------------------------------------------------------------------------
(* DPMS.  A pending mode On is always the actual mode, and an output not   *)
(* yet plugged in is on.                                                   *)

DpmsInv ==
  /\ OffPendingHasFlip
  /\ FilterWhenOff
  /\ dpms \in [Output -> DpmsMode]
  /\ m_dpmsModePending \in [Output -> DpmsMode]
  /\ m_atomicOffPending \subseteq Output
  /\ \A o \in Output : m_dpmsModePending[o] = "On" => dpms[o] = "On"
  /\ \A o \in Output :
       o \notin m_outputs \cup m_deleted => m_dpmsModePending[o] = "On"

LEMMA DpmsInvStep == LifeInv /\ DpmsInv /\ [DrmNext]_allVars => DpmsInv'
<1> SUFFICES ASSUME LifeInv, DpmsInv, [DrmNext]_allVars PROVE DpmsInv'
  OBVIOUS
<1> USE DrmAssumption DEF LifeInv, FlipTargetAlive, DpmsInv, OffPendingHasFlip,
        FilterWhenOff, DpmsMode
<1>1. ASSUME Damage
      PROVE  DpmsInv'
  BY <1>1 DEF Damage, CompositorAddRepaint, AddRepaint, SetDelayTimer,
              outputVars, drmVars
<1>2. ASSUME NEW o \in Output, RequestDpmsOn(o)
      PROVE  DpmsInv'
  BY <1>2 DEF RequestDpmsOn, SwitchOn, CheckOutputsOn, AllOn, AddRepaintFull,
              AddRepaint, SetDelayTimer, outputVars, outVars, flipVars
<1>3. ASSUME NEW o \in Output, NEW mode \in OffMode, NEW ok \in BOOLEAN,
             RequestDpmsOff(o, mode, ok)
      PROVE  DpmsInv'
  <2>1. /\ SwitchOff(o, mode, ok, TRUE, m_dpmsFilter)
        /\ UNCHANGED <<outputs, m_outputs, m_deleted, freed, m_pageFlipPending,
                       phase>>
        /\ o \in m_outputs /\ mode # "On"
    BY <1>3 DEF RequestDpmsOff, vars, outVars, flipVars
  <2>2. FilterWhenOff'
    BY <2>1 DEF SwitchOff, DpmsAtomicOff
  <2>3. OffPendingHasFlip'
    BY <2>1 DEF SwitchOff, DpmsAtomicOff
  <2>4. QED
    BY <2>1, <2>2, <2>3 DEF SwitchOff, DpmsAtomicOff
<1>4. ASSUME TurnOutputsOn
      PROVE  DpmsInv'
  <2> DEFINE off == {o \in m_enabledOutputs : m_dpmsModePending[o] # "On"}
  <2>1. /\ SwitchOn(off) /\ m_dpmsFilter' = FALSE
        /\ UNCHANGED <<outputs, m_outputs, m_enabledOutputs, m_deleted, freed,
                       m_pageFlipPending, phase>>
        /\ phase = "running"
    BY <1>4 DEF TurnOutputsOn, outputVars, outVars, flipVars
  <2>2. OffPendingHasFlip'
    BY <2>1 DEF SwitchOn
  <2>3. FilterWhenOff'
    BY <2>1 DEF SwitchOn
  <2>4. QED
    BY <2>1, <2>2, <2>3 DEF SwitchOn
<1>5. ASSUME NEW o \in Output, DrmRunPaint(o)
      PROVE  DpmsInv'
  BY <1>5 DEF DrmRunPaint, RunPaint, FrameDue, CanPresent, outputVars,
              outVars, dpmsVars
<1>6. ASSUME NEW o \in Output, DrmRunNothing(o)
      PROVE  DpmsInv'
  BY <1>6 DEF DrmRunNothing, RunBlocked, RunIdle, outputVars, drmVars
<1>7. ASSUME NEW o \in Output, NEW ok \in BOOLEAN,
             AtomicFlipHandler(o, ok)
      PROVE  DpmsInv'
  <2>1. /\ UNCHANGED <<m_outputs, m_enabledOutputs, enabled, m_deleted, outputs>>
        /\ m_pageFlipPending' = m_pageFlipPending \ {o}
        /\ freed' = IF o \in m_deleted THEN freed \cup {o} ELSE freed
        /\ phase' = "running" => phase = "running"
        /\ o \in m_pageFlipPending /\ o \notin freed
    BY <1>7 DEF AtomicFlipHandler, PageFlipped, CompositorSwapped, Swapped,
                outputVars, vars
  <2>2. CASE o \in m_atomicOffPending \ m_deleted
    <3>1. /\ m_atomicOffPending' = m_atomicOffPending \ {o}
          /\ DpmsAtomicOff(o, m_dpmsModePending[o], ok, o \in enabled,
                           m_dpmsFilter)
      BY <1>7, <2>2 DEF AtomicFlipHandler, PageFlipped
    <3>2. m_dpmsModePending[o] # "On"
      BY <2>1, <2>2
    <3>3. OffPendingHasFlip'
      BY <2>1, <2>2, <3>1 DEF DpmsAtomicOff
    <3>4. ASSUME phase' = "running", NEW p \in outputs', dpms'[p] # "On"
          PROVE  m_dpmsFilter'
      <4>1. CASE p = o /\ ok
        BY <2>1, <3>1, <3>4, <4>1 DEF DpmsAtomicOff
      <4>2. CASE ~(p = o /\ ok)
        <5>1. dpms'[p] = dpms[p]
          BY <3>1, <4>2 DEF DpmsAtomicOff
        <5>2. m_dpmsFilter
          BY <2>1, <3>4, <5>1
        <5>3. QED
          BY <3>1, <5>2 DEF DpmsAtomicOff
      <4>3. QED
        BY <4>1, <4>2
    <3>5. FilterWhenOff'
      BY <3>4
    <3>6. /\ dpms' \in [Output -> DpmsMode]
          /\ m_dpmsModePending' \in [Output -> DpmsMode]
          /\ m_atomicOffPending' \subseteq Output
      BY <3>1 DEF DpmsAtomicOff
    <3>7. \A p \in Output : m_dpmsModePending'[p] = "On" => dpms'[p] = "On"
      BY <3>1, <3>2 DEF DpmsAtomicOff
    <3>8. o \in m_outputs \cup m_deleted
      BY <2>1, <2>2, <3>2
    <3>9. \A p \in Output :
            p \notin m_outputs \cup m_deleted => m_dpmsModePending'[p] = "On"
      BY <3>1, <3>8 DEF DpmsAtomicOff
    <3>10. QED
      BY <2>1, <3>3, <3>5, <3>6, <3>7, <3>9
  <2>3. CASE o \notin m_atomicOffPending \ m_deleted
    <3>1. UNCHANGED dpmsVars
      BY <1>7, <2>3 DEF AtomicFlipHandler, PageFlipped
    <3>2. QED
      BY <2>1, <2>3, <3>1 DEF dpmsVars
  <2>4. QED
    BY <2>2, <2>3
<1>8. ASSUME NEW o \in Output, NEW ok \in BOOLEAN, Disable(o, ok)
      PROVE  DpmsInv'
  <2>1. CASE o \notin m_enabledOutputs
    BY <1>8, <2>1 DEF Disable, EnabledWithout, vars, flipVars, dpmsVars
  <2>2. CASE o \in m_enabledOutputs
    <3> DEFINE rest == m_enabledOutputs \ {o}
    <3>1. /\ SwitchOff(o, "Off", ok, FALSE, CheckOutputsOn(rest, dpms))
          /\ outputs' = outputs \ {o}
          /\ UNCHANGED <<m_outputs, m_deleted, freed, m_pageFlipPending, phase>>
      BY <1>8, <2>2 DEF Disable, EnabledWithout, OutputRemoved, flipVars
    <3>2. FilterWhenOff'
      BY <3>1, <1>8 DEF Disable, EnabledWithout, SwitchOff, DpmsAtomicOff, CheckOutputsOn, AllOn
    <3>3. OffPendingHasFlip'
      BY <3>1 DEF SwitchOff, DpmsAtomicOff
    <3>4. o \in m_outputs
      BY <1>8 DEF Disable, EnabledWithout
    <3>5. QED
      BY <3>1, <3>2, <3>3, <3>4 DEF SwitchOff, DpmsAtomicOff
  <2>3. QED
    BY <2>1, <2>2
<1>9. ASSUME NEW o \in Output, Enable(o)
      PROVE  DpmsInv'
  BY <1>9 DEF Enable, OutputAdded, ArmAll, SwitchOn, CheckOutputsOn, AllOn,
              vars, flipVars
<1>10. ASSUME NEW o \in Output, Unplug(o)
      PROVE  DpmsInv'
  BY <1>10 DEF Unplug, ConnectedOutputs, OutputRemoved, ArmAll, Teardown,
              AddRepaintFull, AddRepaint, SetDelayTimer, flipVars, dpmsVars
<1>11. ASSUME NEW o \in Output, Plug(o)
      PROVE  DpmsInv'
  BY <1>11 DEF Plug, ConnectedOutputs, OutputAdded, ArmAll, flipVars, dpmsVars
<1>12. ASSUME UpdateOutputs
      PROVE  DpmsInv'
  BY <1>12 DEF UpdateOutputs, ConnectedOutputs, AddRepaintFull, AddRepaint,
              SetDelayTimer, flipVars, dpmsVars
<1>13. ASSUME Deactivate
      PROVE  DpmsInv'
  BY <1>13 DEF Deactivate, vars, outVars, dpmsVars, flipVars
<1>14. ASSUME Reactivate
      PROVE  DpmsInv'
  BY <1>14 DEF Reactivate, AddRepaintFull, AddRepaint, SetDelayTimer,
              outputVars, outVars, dpmsVars
<1>15. ASSUME Quit
      PROVE  DpmsInv'
  BY <1>15 DEF Quit, Teardown, dpmsVars, flipVars
<1>16. ASSUME Exit
      PROVE  DpmsInv'
  BY <1>16 DEF Exit, vars, outVars, dpmsVars, flipVars
<1>17. CASE UNCHANGED allVars
  BY <1>17 DEF allVars, vars, drmVars
<1>18. QED
  BY <1>1, <1>2, <1>3, <1>4, <1>5, <1>6, <1>7, <1>8, <1>9, <1>10, <1>11,
     <1>12, <1>13, <1>14, <1>15, <1>16, <1>17
     DEF DrmNext, Power, Configure, Session, Flip, DrmRun

LEMMA DpmsInvInit == DrmInit => DpmsInv
BY DrmAssumption DEF DrmInit, Init, DpmsInv, OffPendingHasFlip, FilterWhenOff,
   DpmsMode

\* An off that waits for a page flip has one to wait for and never applies to
\* an output that was asked to go on (DrmOutput::updateDpms, atomicEnable).
THEOREM OffWaitsForFlip == DrmSpec => []OffPendingHasFlip
BY LifeInvInit, LifeInvStep, DpmsInvInit, DpmsInvStep, PTL DEF DrmSpec, DpmsInv

\* Nobody waits for a page flip that does not come: neither a render output for
\* its swap event (WaylandCompositor::swapped) nor an output for being switched
\* off (DrmOutput::dpmsFinishOff).
THEOREM FlipsAwaited == DrmSpec => []FlipAwaited
<1>1. DrmSpec => [](FlipForSwap /\ OffPendingHasFlip)
  BY SwapIsAwaited, OffWaitsForFlip, PTL
<1> QED
  BY <1>1 DEF FlipAwaited

\* Whatever the sequence of DPMS requests, failed commits, hot plug events and
\* enablements, a composited output that is off can be woken by input
\* (Platform::createDpmsFilter and checkOutputsOn).
THEOREM DarkOutputsWake == DrmSpec => []FilterWhenOff
BY LifeInvInit, LifeInvStep, DpmsInvInit, DpmsInvStep, PTL DEF DrmSpec, DpmsInv
-----------------------------------------------------------------------------
(* No frame is lost.  While outputs are not disabled the compositor's      *)
(* outputs are the connected ones, and each of them with a flip in flight  *)
(* waits for its swap event: a frame is painted only without a flip in     *)
(* flight, so it is dropped only by an output that is off or an inactive   *)
(* session, and whatever ends either repaints everything.                  *)

RegionInv ==
  /\ repaints_region \in [Output -> SUBSET Cell]
  /\ \A o \in Output : repaints_region[o] \subseteq Geo[o]

\* There are no windows: a frame paints the region of its output only.
LEMMA NoWindows ==
  ASSUME Windowless
  PROVE  /\ KeptWindows = {}
         /\ \A o : /\ RepaintingWindows(o) = {}
                   /\ FrameDamage(o, {}) = repaints_region[o] \cap Geo[o]
         /\ \A o, p : PassedOn(o, p) = {}
<1>1. Len(Stacking) = 0 /\ 1..0 = {}
  BY DEF Windowless
<1>2. Window = {} /\ KeptWindows = {}
  BY <1>1 DEF Window, KeptWindows
<1> QED
  BY <1>2 DEF RepaintingWindows, FrameDamage, PassedOn

\* addRepaintFull makes every output of the compositor repaint all of it.
LEMMA FullMeansAll ==
  ASSUME RegionInv, outputs \subseteq Output, AddRepaintFull
  PROVE  RegionInv' /\ \A o \in outputs : repaints_region'[o] = Geo[o]
BY GeoAssumption DEF RegionInv, AddRepaintFull, AddRepaint

\* What a step of the backend does to the regions: they are extended, the one
\* of a painted output is emptied, or all outputs get all of their geometry.
LEMMA RegionStep ==
  ASSUME Windowless, RegionInv, LifeInv, outputs \subseteq Output, [DrmNext]_allVars
  PROVE  /\ RegionInv' /\ outputs' \subseteq Output
         /\ \/ \A o \in outputs' : repaints_region'[o] = Geo[o]
            \/ \E o \in Output : DrmRunPaint(o)
            \/ \A o \in Output : repaints_region[o] \subseteq repaints_region'[o]
<1> USE GeoAssumption DEF RegionInv
<1>1. ASSUME Damage
      PROVE  /\ RegionInv' /\ outputs' \subseteq Output
             /\ \A o \in Output : repaints_region[o] \subseteq repaints_region'[o]
  BY <1>1 DEF Damage, CompositorAddRepaint, AddRepaint, outputVars
<1>2. ASSUME AddRepaintFull, outputs' = outputs
      PROVE  RegionInv' /\ \A o \in outputs' : repaints_region'[o] = Geo[o]
  BY <1>2, FullMeansAll
<1>3. ASSUME NEW S, FullRepaint(S), S = outputs'
      PROVE  RegionInv' /\ \A o \in outputs' \cap Output : repaints_region'[o] = Geo[o]
  BY <1>3 DEF FullRepaint
<1>4. ASSUME NEW o \in Output, DrmRunPaint(o)
      PROVE  RegionInv' /\ outputs' = outputs
  BY <1>4, NoWindows DEF DrmRunPaint, RunPaint, outputVars
<1>5. ASSUME UNCHANGED <<outputs, repaints_region>>
      PROVE  /\ RegionInv' /\ outputs' \subseteq Output
             /\ \A o \in Output : repaints_region[o] \subseteq repaints_region'[o]
  BY <1>5
<1>6. ASSUME NEW o \in Output, RequestDpmsOn(o)
      PROVE  AddRepaintFull /\ outputs' = outputs
  BY <1>6 DEF RequestDpmsOn, outputVars
<1>7. ASSUME NEW o \in Output, NEW mode \in OffMode, NEW ok \in BOOLEAN,
             RequestDpmsOff(o, mode, ok)
      PROVE  UNCHANGED <<outputs, repaints_region>>
  BY <1>7 DEF RequestDpmsOff, vars
<1>8. ASSUME TurnOutputsOn
      PROVE  \/ AddRepaintFull /\ outputs' = outputs
             \/ UNCHANGED <<outputs, repaints_region>>
  BY <1>8 DEF TurnOutputsOn, outputVars
<1>9. ASSUME NEW o \in Output, DrmRunNothing(o)
      PROVE  UNCHANGED <<outputs, repaints_region>>
  BY <1>9 DEF DrmRunNothing, RunBlocked, RunIdle, outputVars
<1>10. ASSUME NEW o \in Output, NEW ok \in BOOLEAN, AtomicFlipHandler(o, ok)
       PROVE  UNCHANGED <<outputs, repaints_region>>
  BY <1>10 DEF AtomicFlipHandler, CompositorSwapped, Swapped, outputVars, vars
<1>11. ASSUME NEW o \in Output, NEW ok \in BOOLEAN, Disable(o, ok)
       PROVE  \/ FullRepaint(outputs') /\ outputs' \subseteq Output
              \/ UNCHANGED <<outputs, repaints_region>>
  BY <1>11 DEF Disable, OutputRemoved, vars
<1>12. ASSUME NEW o \in Output, Enable(o)
       PROVE  \/ FullRepaint(outputs') /\ outputs' \subseteq Output
              \/ UNCHANGED <<outputs, repaints_region>>
  BY <1>12 DEF Enable, OutputAdded, vars
<1>13. ASSUME NEW o \in Output, Unplug(o)
       PROVE  \/ FullRepaint(outputs') /\ outputs' \subseteq Output
              \/ AddRepaintFull /\ outputs' = outputs
  BY <1>13 DEF Unplug, OutputRemoved
<1>14. ASSUME NEW o \in Output, Plug(o)
       PROVE  FullRepaint(outputs') /\ outputs' \subseteq Output
  BY <1>14 DEF Plug, OutputAdded
<1>15. ASSUME UpdateOutputs \/ Reactivate
       PROVE  AddRepaintFull /\ outputs' = outputs
  BY <1>15 DEF UpdateOutputs, Reactivate, outputVars
<1>16. ASSUME Deactivate \/ Exit \/ UNCHANGED allVars
       PROVE  UNCHANGED <<outputs, repaints_region>>
  BY <1>16 DEF Deactivate, Exit, vars, allVars
<1>17. ASSUME Quit
       PROVE  RegionInv' /\ outputs' = {}
  BY <1>17 DEF Quit
<1>18. QED
  BY <1>1, <1>2, <1>3, <1>4, <1>5, <1>6, <1>7, <1>8, <1>9, <1>10, <1>11,
     <1>12, <1>13, <1>14, <1>15, <1>16, <1>17
     DEF DrmNext, Power, Configure, Session, Flip, DrmRun

FramesKept ==
  /\ outputs = m_outputs
  /\ m_pageFlipPending \subseteq m_outputs \cup m_deleted
  /\ m_pageFlipPending \cap outputs \subseteq swap_pending \ dropped
  /\ \A o \in outputs :
       m_dpmsModePending[o] # dpms[o] => o \in m_atomicOffPending
  /\ \A o \in outputs \cap dropped :
       m_active /\ m_dpmsModePending[o] = "On" => repaints_region[o] = Geo[o]

FrameInv ==
  /\ Windowless /\ RegionInv
  /\ outputs \subseteq Output
  /\ "disable" \notin events /\ phase = "running" => FramesKept

LEMMA FrameInvStep ==
  LifeInv /\ DpmsInv /\ FrameInv /\ [DrmNext]_allVars => FrameInv'
<1> SUFFICES ASSUME LifeInv, DpmsInv, FrameInv, [DrmNext]_allVars
             PROVE  FrameInv'
  OBVIOUS
<1>1. /\ RegionInv' /\ outputs' \subseteq Output
      /\ \/ \A o \in outputs' : repaints_region'[o] = Geo[o]
         \/ \E o \in Output : DrmRunPaint(o)
         \/ \A o \in Output : repaints_region[o] \subseteq repaints_region'[o]
  BY RegionStep DEF FrameInv
<1>2. events' = events
  BY DEF DrmNext, allVars
<1> SUFFICES ASSUME "disable" \notin events, phase' = "running"
             PROVE  FramesKept'
  BY <1>1, <1>2 DEF FrameInv
<1>3. phase = "running"
  BY DEF DrmNext, Damage, Power, RequestDpmsOn, RequestDpmsOff, TurnOutputsOn,
     DrmRun, DrmRunPaint, DrmRunNothing, Flip, AtomicFlipHandler,
     CompositorSwapped, Configure, Disable, Enable, Unplug, Plug,
     UpdateOutputs, Session, Deactivate, Reactivate, Quit, Exit, allVars,
     drmVars
<1>4. /\ FramesKept /\ outputs \subseteq Output /\ RegionInv /\ Windowless
      /\ \A o \in outputs : o \in m_outputs /\ o \notin freed
      /\ m_outputs = m_enabledOutputs
  BY <1>3 DEF FrameInv, LifeInv, FramesKept
<1>5. \A o \in outputs : o \in m_atomicOffPending =>
        o \in m_pageFlipPending /\ m_dpmsModePending[o] # "On"
  BY <1>4 DEF DpmsInv, OffPendingHasFlip
\* A step that leaves the session alone and paints nothing keeps what a
\* dropped frame needs, if it switches no such output on silently.
<1>6. ASSUME dropped' = dropped, m_active' = m_active, outputs' \subseteq outputs,
             \A o \in Output : repaints_region[o] \subseteq repaints_region'[o],
             \A o \in outputs' \cap dropped :
               m_dpmsModePending'[o] = "On" => m_dpmsModePending[o] = "On"
      PROVE  \A o \in outputs' \cap dropped' :
               m_active' /\ m_dpmsModePending'[o] = "On"
                 => repaints_region'[o] = Geo[o]
  BY <1>1, <1>4, <1>6 DEF FramesKept, RegionInv
<1>7. ASSUME Damage
      PROVE  FramesKept'
  <2>1. UNCHANGED <<outputs, swap_pending, m_outputs, m_deleted, dpms, dropped,
                    m_dpmsModePending, m_atomicOffPending, m_pageFlipPending,
                    m_active>>
    BY <1>7 DEF Damage, CompositorAddRepaint, outputVars, drmVars
  <2>2. \A o \in Output : repaints_region[o] \subseteq repaints_region'[o]
    BY <1>7 DEF Damage, CompositorAddRepaint, AddRepaint
  <2>3. QED
    BY <1>4, <1>6, <2>1, <2>2 DEF FramesKept
<1>8. ASSUME NEW o \in Output, RequestDpmsOn(o)
      PROVE  FramesKept'
  <2>1. \A p \in outputs' : repaints_region'[p] = Geo[p]
    BY <1>4, <1>8, FullMeansAll DEF RequestDpmsOn, outputVars
  <2>2. /\ SwitchOn({o})
        /\ UNCHANGED <<outputs, m_outputs, m_deleted, m_pageFlipPending,
                       swap_pending, dropped>>
    BY <1>8 DEF RequestDpmsOn, outputVars, outVars, flipVars
  <2>3. QED
    BY <1>4, <2>1, <2>2 DEF SwitchOn, FramesKept
<1>9. ASSUME NEW o \in Output, NEW mode \in OffMode, NEW ok \in BOOLEAN,
             RequestDpmsOff(o, mode, ok)
      PROVE  FramesKept'
  <2>1. /\ SwitchOff(o, mode, ok, TRUE, m_dpmsFilter)
        /\ UNCHANGED <<outputs, m_outputs, m_deleted, m_pageFlipPending,
                       swap_pending, dropped, m_active, repaints_region>>
        /\ mode # "On" /\ o \in outputs
    BY <1>4, <1>9, DrmAssumption DEF RequestDpmsOff, vars, outVars, flipVars,
       FramesKept
  <2>2. CASE o \in m_pageFlipPending
    <3>1. /\ m_atomicOffPending' = m_atomicOffPending \cup {o}
          /\ m_dpmsModePending' = [m_dpmsModePending EXCEPT ![o] = mode]
          /\ dpms' = dpms
      BY <2>1, <2>2 DEF SwitchOff
    <3>2. QED
      BY <1>4, <2>1, <3>1 DEF FramesKept, DpmsInv
  <2>3. CASE o \notin m_pageFlipPending
    <3>1. /\ m_atomicOffPending' = m_atomicOffPending
          /\ dpms' = [dpms EXCEPT ![o] = IF ok THEN mode ELSE @]
          /\ m_dpmsModePending' =
               [m_dpmsModePending EXCEPT ![o] = IF ok THEN mode ELSE dpms[o]]
      BY <2>1, <2>3 DEF SwitchOff, DpmsAtomicOff
    <3>2. m_dpmsModePending[o] = dpms[o]
      BY <1>4, <1>5, <2>1, <2>3 DEF FramesKept
    <3>3. QED
      BY <1>4, <2>1, <3>1, <3>2 DEF FramesKept, DpmsInv
  <2>4. QED
    BY <2>2, <2>3
<1>10. ASSUME TurnOutputsOn
       PROVE  FramesKept'
  <2> DEFINE off == {o \in m_enabledOutputs : m_dpmsModePending[o] # "On"}
  <2>1. /\ SwitchOn(off)
        /\ UNCHANGED <<outputs, m_outputs, m_deleted, m_pageFlipPending,
                       swap_pending, dropped, m_active>>
        /\ \/ off = {} /\ repaints_region' = repaints_region
           \/ AddRepaintFull
    BY <1>10 DEF TurnOutputsOn, outputVars, outVars, flipVars
  <2>2. \/ off = {} /\ repaints_region' = repaints_region
        \/ \A p \in outputs' : repaints_region'[p] = Geo[p]
    BY <1>4, <2>1, FullMeansAll
  <2>3. QED
    BY <1>4, <2>1, <2>2 DEF SwitchOn, FramesKept
<1>11. ASSUME NEW o \in Output, DrmRunPaint(o)
       PROVE  FramesKept'
  <2> DEFINE posted == repaints_region[o] \cap Geo[o] # {} /\ CanPresent(o)
  <2>1. /\ RunPaint(o, posted)
        /\ m_pageFlipPending' =
              IF posted THEN m_pageFlipPending \cup {o} ELSE m_pageFlipPending
        /\ dropped' = IF posted THEN dropped \ {o}
                      ELSE IF repaints_region[o] \cap Geo[o] # {}
                           THEN dropped \cup {o} ELSE dropped
        /\ UNCHANGED <<m_outputs, m_deleted, dpms, m_dpmsModePending,
                       m_atomicOffPending, m_active>>
    BY <1>4, <1>11, NoWindows DEF DrmRunPaint, outVars, dpmsVars
  <2>2. /\ o \in outputs /\ o \notin swap_pending
        /\ repaints_region[o] # {}
        /\ outputs' = outputs
        /\ swap_pending' = IF posted THEN swap_pending \cup {o} ELSE swap_pending
        /\ \A p \in Output \ {o} : repaints_region'[p] = repaints_region[p]
    BY <1>4, <2>1, NoWindows DEF RunPaint, FrameDue, outputVars, LifeInv, Windowless
  <2>3. o \notin m_pageFlipPending /\ repaints_region[o] \cap Geo[o] # {}
    BY <1>4, <2>2 DEF FramesKept, RegionInv
  <2>4. ~posted => ~(m_active /\ m_dpmsModePending[o] = "On")
    BY <2>3 DEF CanPresent
  <2> HIDE DEF posted
  <2>5. \A p \in outputs' \cap dropped' :
          m_active' /\ m_dpmsModePending'[p] = "On"
            => repaints_region'[p] = Geo[p]
    BY <1>4, <2>1, <2>2, <2>3, <2>4 DEF FramesKept
  <2>6. QED
    BY <1>4, <2>1, <2>2, <2>5 DEF FramesKept
<1>12. ASSUME NEW o \in Output, DrmRunNothing(o)
       PROVE  FramesKept'
  BY <1>4, <1>12 DEF DrmRunNothing, RunBlocked, RunIdle, outputVars, drmVars,
     FramesKept
<1>13. ASSUME NEW o \in Output, NEW ok \in BOOLEAN, AtomicFlipHandler(o, ok)
       PROVE  FramesKept'
  <2>1. /\ UNCHANGED <<outputs, m_outputs, m_deleted, dropped, m_active,
                       repaints_region>>
        /\ m_pageFlipPending' = m_pageFlipPending \ {o}
        /\ swap_pending \ {o} \subseteq swap_pending'
        /\ o \in m_pageFlipPending
    BY <1>13 DEF AtomicFlipHandler, PageFlipped, CompositorSwapped, Swapped,
       outputVars, vars
  <2>2. CASE o \in m_atomicOffPending \ m_deleted
    <3>1. /\ m_atomicOffPending' = m_atomicOffPending \ {o}
          /\ dpms' = [dpms EXCEPT ![o] = IF ok THEN m_dpmsModePending[o] ELSE @]
          /\ m_dpmsModePending' = [m_dpmsModePending EXCEPT ![o] =
               IF ok THEN m_dpmsModePending[o] ELSE dpms[o]]
      BY <1>13, <2>2 DEF AtomicFlipHandler, PageFlipped, DpmsAtomicOff
    <3>2. QED
      BY <1>4, <2>1, <3>1 DEF FramesKept, DpmsInv
  <2>3. CASE o \notin m_atomicOffPending \ m_deleted
    <3>1. UNCHANGED dpmsVars
      BY <1>13, <2>3 DEF AtomicFlipHandler, PageFlipped
    <3>2. QED
      BY <1>4, <2>1, <3>1 DEF FramesKept, dpmsVars
  <2>4. QED
    BY <2>2, <2>3
<1>14. ASSUME NEW o \in Output, Unplug(o)
       PROVE  FramesKept'
  <2>1. /\ m_outputs' = m_outputs \ {o} /\ m_deleted' = m_deleted \cup {o}
        /\ outputs' = outputs \ {o}
        /\ swap_pending \ {o} \subseteq swap_pending'
        /\ UNCHANGED <<dpms, m_dpmsModePending, m_atomicOffPending, dropped,
                       m_pageFlipPending>>
        /\ FullRepaint(outputs')
    BY <1>4, <1>14 DEF Unplug, ConnectedOutputs, OutputRemoved, Teardown,
       dpmsVars, flipVars, FramesKept
  <2>2. \A p \in outputs' : repaints_region'[p] = Geo[p]
    BY <1>1, <2>1 DEF FullRepaint
  <2>3. QED
    BY <1>4, <2>1, <2>2 DEF FramesKept
<1>15. ASSUME NEW o \in Output, Plug(o)
       PROVE  FramesKept'
  <2>1. /\ m_outputs' = m_outputs \cup {o} /\ m_deleted' = m_deleted
        /\ outputs' = outputs \cup {o}
        /\ o \notin m_outputs \cup m_deleted
        /\ UNCHANGED <<dpms, m_dpmsModePending, m_atomicOffPending, dropped,
                       m_pageFlipPending, swap_pending>>
        /\ FullRepaint(outputs')
    BY <1>15 DEF Plug, ConnectedOutputs, OutputAdded, dpmsVars, flipVars
  <2>2. \A p \in outputs' : repaints_region'[p] = Geo[p]
    BY <1>1, <2>1 DEF FullRepaint
  <2>3. m_dpmsModePending[o] = dpms[o]
    BY <2>1 DEF DpmsInv
  <2>4. QED
    BY <1>4, <2>1, <2>2, <2>3 DEF FramesKept
<1>16. ASSUME UpdateOutputs \/ Reactivate
       PROVE  FramesKept'
  <2>1. \A p \in outputs' : repaints_region'[p] = Geo[p]
    BY <1>4, <1>16, FullMeansAll DEF UpdateOutputs, Reactivate, outputVars
  <2>2. UNCHANGED <<outputs, m_outputs, m_deleted, swap_pending, dpms, dropped,
                    m_dpmsModePending, m_atomicOffPending, m_pageFlipPending>>
    BY <1>16 DEF UpdateOutputs, ConnectedOutputs, Reactivate, outputVars,
       outVars, dpmsVars, flipVars
  <2>3. QED
    BY <1>4, <2>1, <2>2 DEF FramesKept
<1>17. ASSUME Deactivate
       PROVE  FramesKept'
  BY <1>4, <1>17 DEF Deactivate, vars, outVars, dpmsVars, flipVars, FramesKept
<1>18. CASE UNCHANGED allVars
  BY <1>4, <1>18 DEF allVars, vars, drmVars, FramesKept
<1>19. ~Quit /\ ~Exit /\ \A o, ok : ~Enable(o) /\ ~Disable(o, ok)
  BY DEF Quit, Exit, Enable, Disable
<1>20. QED
  BY <1>7, <1>8, <1>9, <1>10, <1>11, <1>12, <1>13, <1>14, <1>15, <1>16, <1>17,
     <1>18, <1>19 DEF DrmNext, Power, Configure, Session, Flip, DrmRun

LEMMA FrameInvInit == DrmInit => FrameInv
BY GeoAssumption DEF DrmInit, Init, FrameInv, FramesKept, RegionInv

\* What is on screen is what was painted last: whatever the order of DPMS
\* requests, failed commits, session switches and hot plug events, a frame that
\* DrmBackend::present dropped is made up for by a full repaint once its output
\* is on and the session active.
THEOREM DroppedFramesRepainted == DrmSpec => []NoLostFrame
<1>1. FrameInv => NoLostFrame
  BY DEF FrameInv, FramesKept, NoLostFrame
<1> QED
  BY <1>1, LifeInvInit, LifeInvStep, DpmsInvInit, DpmsInvStep, FrameInvInit,
     FrameInvStep, PTL DEF DrmSpec
=============================================================================
