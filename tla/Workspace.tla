----------------------------- MODULE Workspace -----------------------------
(***************************************************************************)
(* Virtual desktops, the windows on them and the active window, in a       *)
(* Wayland session on one screen: VirtualDesktopManager, FocusChain, the   *)
(* activation part of Workspace, and the desktop chain of the task         *)
(* switcher.  Everything runs in one thread; a handler calls the others    *)
(* through signals, so an operator below stands for a whole chain of       *)
(* calls.                                                                  *)
(*                                                                         *)
(* s holds                                                                 *)
(*   desktops, current, rows   m_desktops, m_current, m_rows               *)
(*   recent                    DesktopChain::m_chain                       *)
(*   win                       the windows; desks are their desktops, none *)
(*                             for a window on all of them                 *)
(*   clients                   m_allClients                                *)
(*   active, last_active       active_client, last_active_client           *)
(*   mru, chains, fc_active, fc_current    see FocusChain                  *)
(***************************************************************************)
EXTENDS DesktopGrid, FocusChain, FiniteSets

CONSTANTS
  Window, Desktop,
  Shell,          \* the desktop window, which is on every desktop
  Scenarios,      \* bounds: records of how many windows and desktops there are,
                  \* on how many desktops at a time a window is put, and
                  \* whether the layout is changed and used
  EarlyRemoval    \* whether desktops are removed from under new windows

ASSUME WorkspaceAssumption ==
  /\ Shell \notin Window \cup {None} /\ None \notin Window
  /\ Scenarios \subseteq [windows : Nat, desktops : Nat, desks : Nat,
                           layout : BOOLEAN]
  /\ EarlyRemoval \in BOOLEAN

VARIABLES
  s,
  shell,      \* whether there is a desktop window
  scenario,
  shifted     \* history: a desktop was inserted or removed that was not last

vars == <<s, shell, scenario, shifted>>

Absent ==
  [exists |-> FALSE, buffer |-> FALSE, mapped |-> FALSE, minimized |-> FALSE,
   desks |-> <<>>]

Toplevel ==
  [exists : BOOLEAN, buffer : BOOLEAN, mapped : BOOLEAN, minimized : BOOLEAN,
   desks : Seq(Desktop)]

Focusable == Window \cup {None, Shell}

State ==
  [desktops : Seq(Desktop), current : Desktop, rows : Nat, recent : Seq(Nat),
   win : [Window -> Toplevel], clients : Seq(Window),
   active : Focusable, last_active : Focusable, fc_active : Focusable,
   fc_current : Nat, mru : Seq(Window), chains : Seq(Seq(Window))]

TypeOK ==
  /\ s \in State
  /\ s.desktops # <<>> /\ s.rows \in 1..Len(s.desktops)
  /\ Len(s.chains) = Len(s.desktops)
  /\ shell \in BOOLEAN /\ shifted \in BOOLEAN /\ scenario \in Scenarios

-----------------------------------------------------------------------------
(* Activation.                                                             *)

\* setActiveClient(nullptr) and the set_active it calls.
Deactivate(t) == [t EXCEPT !.active = None, !.fc_active = None]

\* set_active(w, true) and setActiveClient.
SetActiveClient(t, w) ==
  LET u == [Deactivate(t) EXCEPT !.active = w, !.last_active = w]
      v == IF w = Shell THEN u ELSE Update(u, w)
  IN IF t.active = w THEN t ELSE [v EXCEPT !.fc_active = w]

\* request_focus and takeFocus; blocked is ~focusChangeEnabled().
RequestFocus(t, w, blocked) ==
  IF w # Shell /\ (~IsShown(t, w) \/ ~WantsFocus(t, w)) THEN t
  ELSE IF blocked /\ w # t.active THEN t
  ELSE SetActiveClient(t, w)

FindDesktop == IF shell THEN Shell ELSE None

\* The focus goes to w, to the desktop window if there is no such window, or to
\* no window at all.
FocusOr(t, w, blocked) ==
  LET v == IF w = None THEN FindDesktop ELSE w
  IN IF v = None THEN t ELSE RequestFocus(t, v, blocked)

\* clientHidden and activateNextClient.
ClientHidden(t, w) ==
  IF t.active # w THEN t
  ELSE LET u == Deactivate(t)
       IN FocusOr(u, NextForDesktop(u, w, Number(u, u.current)), FALSE)

-----------------------------------------------------------------------------
(* Windows on desktops.                                                    *)

SetDesktops(t, w, desks) ==
  IF t.win[w].desks = desks THEN t
  ELSE Update([t EXCEPT !.win[w].desks = desks], w)

\* set_desktop, with 0 for all desktops.
SetDesktop(t, w, n) == SetDesktops(t, w, IF n = 0 THEN <<>> ELSE <<t.desktops[n]>>)

LeaveDesktop(t, w, d) ==
  SetDesktops(t, w, RemoveFirst(IF OnAllDesktops(t, w) THEN t.desktops
                                ELSE t.win[w].desks, d))

\* sendClientToDesktop.  Only the desktop window has another layer.
SendClientToDesktop(t, w, n, dont_activate) ==
  LET moved == SetDesktop(t, w, n)
  IN IF ~OnCurrentDesktop(moved, w) THEN moved
     ELSE IF WantsFocus(moved, w) /\ ~OnDesktop(t, w, n) /\ ~dont_activate
     THEN RequestFocus(moved, w, FALSE)
     ELSE IF moved.active \in {None, Shell, w} THEN moved
     ELSE MoveAfterClient(moved, w, moved.active)

-----------------------------------------------------------------------------
(* The current desktop.                                                    *)

\* DesktopChain::add
AddRecent(chain, n) ==
  IF n > Len(chain) THEN chain
  ELSE LET at == SelectInSeq(chain, LAMBDA m : m = n)
       IN <<n>> \o RemoveAt(chain, IF at = 0 THEN Len(chain) ELSE at)

\* DesktopChain::resize
ResizeRecent(chain, size) ==
  [i \in 1..size |-> IF i <= Len(chain) THEN Min({chain[i], size}) ELSE i]

\* activateClientOnNewDesktop and findClientToActivateOnDesktop; moving is
\* movingClient.
ActivateOnNewDesktop(t, n, blocked, moving) ==
  LET c == IF /\ moving # None /\ moving = t.active
              /\ Contains(t.chains[n], moving)
              /\ IsShown(t, moving) /\ OnCurrentDesktop(t, moving)
           THEN moving ELSE GetForActivation(t, n)
      found == IF c = None THEN FindDesktop ELSE c
  IN FocusOr(IF found = t.active THEN t ELSE Deactivate(t), c, blocked)

\* currentChanged: DesktopChainManager::addDesktop, FocusChain::setCurrentDesktop
\* and slotCurrentDesktopChanged.
CurrentChanged(t, blocked, moving) ==
  LET n == Number(t, t.current)
      u == [t EXCEPT !.recent = AddRecent(@, n), !.fc_current = n]
      v == IF moving # None /\ ~OnDesktop(u, moving, n)
           THEN SetDesktop(u, moving, n) ELSE u
  IN ActivateOnNewDesktop(v, n, blocked, moving)

SetCurrent(t, d, blocked, moving) ==
  IF d = t.current THEN t
  ELSE CurrentChanged([t EXCEPT !.current = d], blocked, moving)

\* Mutant: a window on another desktop is activated without going there.
ActivateClientHere(t, w) ==
  RequestFocus([t EXCEPT !.win[w].minimized = FALSE], w, FALSE)

\* activateClient, with set_minimized(false), which comes here again.
ActivateClient(t, w) ==
  LET there == IF OnCurrentDesktop(t, w) THEN t
               ELSE SetCurrent(t, Last(t.win[w].desks), TRUE, None)
  IN RequestFocus([there EXCEPT !.win[w].minimized = FALSE], w, FALSE)

\* countChanged: the chains of FocusChain and of the task switcher; updateLayout
\* has run before.
CountChanged(t) ==
  LET n == Len(t.desktops)
  IN [Resize(t, n) EXCEPT !.recent = ResizeRecent(@, n),
                          !.rows = ValidRows(n, @)]

\* The body of the loop below.  number is the one d had.
LeaveRemoved(t, w, d, number) ==
  IF ~Contains(t.win[w].desks, d) THEN t
  ELSE IF Len(t.win[w].desks) > 1 THEN LeaveDesktop(t, w, d)
  ELSE SendClientToDesktop(t, w, Min({number, Len(t.desktops)}), TRUE)

\* The handler of desktopRemoved: "Wayland".
DesktopRemoved(t, d, number) ==
  FoldLeft(LAMBDA u, w : LeaveRemoved(u, w, d, number), t, t.clients)

\* The loop of setCount that emits desktopRemoved; before has the numbers that
\* the removed desktops had.
DesktopsRemoved(t, before, removed) ==
  FoldLeft(LAMBDA u, d : DesktopRemoved(u, d, Number(before, d)), t, removed)

-----------------------------------------------------------------------------
(* The operations.                                                         *)

Step(t) == s' = t /\ UNCHANGED <<shell, scenario, shifted>>

\* create_toplevel_window
CreateToplevel(w) ==
  /\ ~s.win[w].exists
  /\ Cardinality({v \in Window : s.win[v].exists}) < scenario.windows
  /\ Step([s EXCEPT !.win[w] = [Absent EXCEPT !.exists = TRUE,
                                              !.desks = <<s.current>>]])

\* handle_commit with a buffer, map, and the first time window_added.
Commit(w) ==
  LET drawn == [s EXCEPT !.win[w].buffer = TRUE]
      mapped == [drawn EXCEPT
                   !.win[w].mapped = TRUE,
                   !.clients = IF Contains(@, w) THEN @ ELSE Append(@, w)]
  IN /\ s.win[w].exists /\ ~s.win[w].mapped
     /\ Step(IF IsShown(drawn, w) THEN ActivateClient(mapped, w) ELSE drawn)

\* handle_commit without a buffer: unmap.
Unmap(w) ==
  /\ s.win[w].buffer
  /\ Step(ClientHidden([s EXCEPT !.win[w].buffer = FALSE,
                                 !.win[w].mapped = FALSE], w))

Minimize(w) ==
  /\ s.win[w].mapped /\ ~s.win[w].minimized
  /\ Step(ClientHidden([s EXCEPT !.win[w].minimized = TRUE], w))

\* set_minimized(false) from the task bar, which shows mapped windows; the
\* handler of windowShown activates the window.
Unminimize(w) ==
  /\ s.win[w].mapped /\ s.win[w].minimized
  /\ Step(ActivateClient([s EXCEPT !.win[w].minimized = FALSE], w))

\* A window that is closed and not yet deleted.
Closed == [Absent EXCEPT !.exists = TRUE]

\* Mutant: the window stays in the focus chains.
DestroyOnly(w) ==
  LET t == [s EXCEPT !.win[w] = Closed, !.clients = RemoveAll(@, w),
                     !.last_active = IF @ = w THEN None ELSE @]
  IN s.win[w].exists /\ Step([ClientHidden(t, w) EXCEPT !.win[w] = Absent])

\* destroy, with the handler of window_removed before the window is deleted.
Destroy(w) ==
  LET t == [s EXCEPT !.win[w] = Closed, !.clients = RemoveAll(@, w),
                     !.last_active = IF @ = w THEN None ELSE @]
      u == RemoveFromChains(ClientHidden(t, w), w)
  IN s.win[w].exists /\ Step([u EXCEPT !.win[w] = Absent])

\* A click on a window, or activeRequested from the task bar.
Click(w) ==
  /\ IsShown(s, w) /\ OnCurrentDesktop(s, w)
  /\ Step(RequestFocus(s, w, FALSE))

Activate(w) == s.win[w].mapped /\ Step(ActivateClient(s, w))

\* slotSendToDesktop and slotToggleOnVirtualDesktop of the window menu.
SendToDesktop(w, n) ==
  s.win[w].mapped /\ Step(SendClientToDesktop(s, w, n, FALSE))

ToggleOnAllDesktops(w) ==
  /\ s.win[w].mapped
  /\ Step(SetDesktop(s, w, IF OnAllDesktops(s, w) THEN Number(s, s.current) ELSE 0))

ToggleOnDesktop(w, d) ==
  /\ s.win[w].mapped
  /\ IF Contains(s.win[w].desks, d) THEN Step(LeaveDesktop(s, w, d))
     ELSE /\ Len(s.win[w].desks) < scenario.desks
          /\ Step(SetDesktops(s, w, Append(s.win[w].desks, d)))

SwitchTo(d) == d # s.current /\ Step(SetCurrent(s, d, FALSE, None))

\* moveTo, with and without wrapping around.
Navigate(direction, wrap) ==
  /\ scenario.layout
  /\ Step(SetCurrent(s, Move(s.desktops, s.rows, s.current, direction, wrap),
                     FALSE, None))

\* windowToDesktop of the active window: movingClient is set meanwhile.
WindowToDesktop(direction) ==
  /\ scenario.layout \/ direction = "next"
  /\ s.active \in Window
  /\ Step(SetCurrent(s, Move(s.desktops, s.rows, s.current, direction, TRUE),
                     TRUE, s.active))

SetRows(rows) ==
  /\ scenario.layout /\ rows \in 1..Len(s.desktops)
  /\ Step([s EXCEPT !.rows = rows])

\* createVirtualDesktop; setCount appends in the same way.
CreateVirtualDesktop(n, d) ==
  /\ Len(s.desktops) < scenario.desktops
  /\ d \notin Range(s.desktops)
  /\ \A w \in Window : ~Contains(s.win[w].desks, d)
  /\ s' = CountChanged([s EXCEPT !.desktops = InsertAt(@, n, d)])
  /\ shifted' = (shifted \/ n <= Len(s.desktops))
  /\ UNCHANGED <<shell, scenario>>

\* A window that is not yet in m_allClients is on d.
HeldByNew(d) ==
  \E w \in Window : Contains(s.win[w].desks, d) /\ ~Contains(s.clients, w)

Removable(d) == Len(s.desktops) > 1 /\ (EarlyRemoval \/ ~HeldByNew(d))

\* removeVirtualDesktop
RemoveDesktop(t, number) ==
  LET d == t.desktops[number]
      old == Number(t, t.current)
      new == Min({old, Len(t.desktops) - 1})
      left == RemoveAt(t.desktops, number)
      u == [t EXCEPT !.desktops = left, !.current = left[new]]
      v == IF old = new THEN u ELSE CurrentChanged(u, FALSE, None)
  IN CountChanged(DesktopRemoved(v, d, number))

RemoveVirtualDesktop(n) ==
  /\ Removable(s.desktops[n])
  /\ s' = RemoveDesktop(s, n)
  /\ shifted' = (shifted \/ n < Len(s.desktops))
  /\ UNCHANGED <<shell, scenario>>

\* setCount to a smaller number.
SetCount(n) ==
  LET old == Number(s, s.current)
      new == Min({old, n})
      left == SubSeq(s.desktops, 1, n)
      t == [s EXCEPT !.desktops = left, !.current = left[new]]
      u == IF old = new THEN t ELSE CurrentChanged(t, FALSE, None)
  IN /\ n < Len(s.desktops)
     /\ \A i \in (n + 1)..Len(s.desktops) : Removable(s.desktops[i])
     /\ Step(CountChanged(
          DesktopsRemoved(u, s, SubSeq(s.desktops, n + 1, Len(s.desktops)))))

-----------------------------------------------------------------------------
Init ==
  /\ \E d \in Desktop :
       s = [desktops |-> <<d>>, current |-> d, rows |-> 1,
            recent |-> <<1>>, win |-> [w \in Window |-> Absent],
            clients |-> <<>>, active |-> None, last_active |-> None,
            mru |-> <<>>, chains |-> <<<<>>>>, fc_active |-> None,
            fc_current |-> 1]
  /\ shell \in BOOLEAN
  /\ scenario \in Scenarios
  /\ shifted = FALSE

WindowNext(w) ==
  \/ CreateToplevel(w) \/ Commit(w) \/ Unmap(w) \/ Destroy(w)
  \/ Minimize(w) \/ Unminimize(w) \/ Click(w) \/ Activate(w)
  \/ ToggleOnAllDesktops(w)
  \/ \E n \in 1..Len(s.desktops) :
       SendToDesktop(w, n) \/ ToggleOnDesktop(w, s.desktops[n])

DesktopNext ==
  \/ \E n \in 1..Len(s.desktops) :
       \/ SwitchTo(s.desktops[n]) \/ RemoveVirtualDesktop(n)
       \/ SetCount(n) \/ SetRows(n)
  \/ \E n \in 1..(Len(s.desktops) + 1), d \in Desktop : CreateVirtualDesktop(n, d)
  \/ \E direction \in DOMAIN Opposite :
       \/ WindowToDesktop(direction)
       \/ \E wrap \in BOOLEAN : Navigate(direction, wrap)

Next == (\E w \in Window : WindowNext(w)) \/ DesktopNext

Spec == Init /\ [][Next]_vars

-----------------------------------------------------------------------------
(* Properties.                                                             *)

\* The active window is shown: a window that is minimised, unmapped or destroyed
\* while it is active has passed the focus on.
ActiveIsShown == s.active \in Window => IsShown(s, s.active)

\* Nothing refers to a window that is gone, and FocusChain's copies of the
\* active window agree with the workspace.
NoDanglingWindow ==
  /\ \A w \in Range(s.mru) \cup UNION {Range(s.chains[n]) : n \in DOMAIN s.chains} :
       s.win[w].exists
  /\ {s.active, s.last_active} \ {None, Shell} \subseteq
       {w \in Window : s.win[w].exists}
  /\ s.fc_active = s.active

\* No window is on a desktop that was removed.
DesktopsAlive ==
  \A w \in Window : Range(s.win[w].desks) \subseteq Range(s.desktops)

\* However windows and desktops go away, the lists, chains and pointers that
\* name them let go of them, and the focus does too.
ReferencesAlive == ActiveIsShown /\ NoDanglingWindow /\ DesktopsAlive

\* The number that FocusChain and the task switcher take for the current desktop
\* is its number, and the switcher knows no other numbers than the desktops'.
CurrentKnown ==
  /\ Range(s.recent) \subseteq 1..Len(s.desktops) /\ Len(s.recent) = Len(s.desktops)
  /\ ~shifted => /\ s.fc_current = Number(s, s.current)
                 /\ s.recent[1] = s.fc_current

\* No list has a window twice.  The chain of a desktop has the windows of that
\* desktop: only those, and all of them but windows on all desktops, which are
\* not put into the chain of a new desktop.  The chains are not renumbered with
\* the desktops, hence ~shifted.
ChainsMatchDesktops ==
  /\ CurrentKnown
  /\ IsInjective(s.mru)
  /\ \A n \in DOMAIN s.chains :
       /\ IsInjective(s.chains[n])
       /\ ~shifted => \A w \in Window :
            /\ Contains(s.chains[n], w) => OnDesktop(s, w, n)
            /\ Contains(s.mru, w) /\ OnDesktop(s, w, n) /\ ~OnAllDesktops(s, w)
                 => Contains(s.chains[n], w)

\* One goes back the way one came, whatever the numbers of desktops and rows.
NavigationReturns ==
  \A n \in 1..Len(s.desktops), dir \in DOMAIN Opposite, wrap \in BOOLEAN :
    LET d == s.desktops[n]
        there == Move(s.desktops, s.rows, d, dir, wrap)
    IN wrap \/ there # d
         => Move(s.desktops, s.rows, there, Opposite[dir], wrap) = d

\* After a change of the current desktop the active window is on it, and some
\* window is active if one is shown on it that is not on all desktops.  (Windows
\* that come from a removed desktop are not activated, and one on all desktops
\* may not be in the chain of the desktop it is moved to.)
SwitchActivates ==
  [][(s'.current # s.current /\ ~shifted')
     => /\ s'.active \in Window => OnCurrentDesktop(s', s'.active)
        /\ (/\ s'.desktops = s.desktops
            /\ s.active \in Window => ~OnAllDesktops(s, s.active)
            /\ \E w \in Window : /\ IsShown(s', w) /\ WantsFocus(s', w)
                                 /\ OnCurrentDesktop(s', w) /\ ~OnAllDesktops(s', w))
           => s'.active \in Window]_vars

\* A window that is asked for is active in the end, on the current desktop.
ActivationSucceeds ==
  [][\A w \in Window :
       Activate(w) => s'.active = w /\ OnCurrentDesktop(s', w)]_vars
=============================================================================
