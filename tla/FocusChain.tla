----------------------------- MODULE FocusChain -----------------------------
(***************************************************************************)
(* The chains that say which window is activated next: one for each        *)
(* virtual desktop, by the desktop's number, and one of the most recently  *)
(* used windows.  The last element of a chain is the first candidate.      *)
(*                                                                         *)
(* s is the state of the workspace (see Workspace); the fields of this     *)
(* class are                                                               *)
(*   mru         m_mostRecentlyUsed                                        *)
(*   chains      m_desktopFocusChains                                      *)
(*   fc_active   m_activeClient                                            *)
(*   fc_current  m_currentDesktop                                          *)
(***************************************************************************)
EXTENDS Naturals, Sequences, SequencesExt

CONSTANT None
ASSUME NoneAssumption == None \notin Nat

Number(s, d) == CHOOSE n \in 1..Len(s.desktops) : s.desktops[n] = d

OnAllDesktops(s, w) == s.win[w].desks = <<>>

\* desktopForX11Id is null beyond the last desktop.
OnDesktop(s, w, n) ==
  \/ OnAllDesktops(s, w)
  \/ n \in 1..Len(s.desktops) /\ Contains(s.win[w].desks, s.desktops[n])

OnCurrentDesktop(s, w) == OnDesktop(s, w, Number(s, s.current))

IsShown(s, w) == s.win[w].buffer /\ ~s.win[w].minimized

\* wants_tab_focus, wantsInput and acceptsFocus of an xdg toplevel.
WantsFocus(s, w) == s.win[w].mapped

\* removeAll: a list has a window at most once, which is checked and proved.
RemoveAll(list, w) == RemoveFirst(list, w)

\* FocusChain::remove
RemoveFromChains(s, w) ==
  [s EXCEPT !.chains = [n \in DOMAIN @ |-> RemoveAll(@[n], w)],
            !.mru = RemoveAll(@, w)]

\* FocusChain::resize
Resize(s, size) ==
  [s EXCEPT !.chains =
     [n \in 1..size |-> IF n \in DOMAIN @ THEN @[n] ELSE <<>>]]

InsertClientIntoChain(s, w, chain) ==
  IF Contains(chain, w) THEN chain
  ELSE IF s.fc_active \notin {None, w} /\ chain # <<>> /\ Last(chain) = s.fc_active
  THEN InsertAt(chain, Len(chain), w)
  ELSE Append(chain, w)

\* updateClientInChain for MakeFirst; no caller asks for MakeLast.
MakeFirst(chain, w) == Append(RemoveAll(chain, w), w)

\* Mutant: a window stays in the chains of the desktops it has left.
UpdateKeeps(s, w) ==
  IF ~WantsFocus(s, w) THEN RemoveFromChains(s, w)
  ELSE [s EXCEPT !.chains =
                   [n \in DOMAIN @ |->
                      IF OnDesktop(s, w, n) THEN MakeFirst(@[n], w) ELSE @[n]],
                 !.mru = MakeFirst(@, w)]

\* FocusChain::update with MakeFirst.
Update(s, w) ==
  IF ~WantsFocus(s, w) THEN RemoveFromChains(s, w)
  ELSE [s EXCEPT !.chains =
                   [n \in DOMAIN @ |->
                      IF OnAllDesktops(s, w) /\ n # s.fc_current
                      THEN InsertClientIntoChain(s, w, @[n])
                      ELSE IF OnDesktop(s, w, n) THEN MakeFirst(@[n], w)
                      ELSE RemoveAll(@[n], w)],
                 !.mru = MakeFirst(@, w)]

\* moveAfterClientInChain, every window being an application of its own.
MovedAfter(chain, w, reference) ==
  IF ~Contains(chain, reference) THEN chain
  ELSE LET others == RemoveAll(chain, w)
       IN InsertAt(others, SelectInSeq(others, LAMBDA v : v = reference), w)

MoveAfterClient(s, w, reference) ==
  IF ~WantsFocus(s, w) THEN s
  ELSE [s EXCEPT !.chains =
                   [n \in DOMAIN @ |-> IF OnDesktop(s, w, n)
                                       THEN MovedAfter(@[n], w, reference)
                                       ELSE @[n]],
                 !.mru = MovedAfter(@, w, reference)]

FirstUsable(chain, Usable(_)) ==
  LET i == SelectLastInSeq(chain, Usable)
  IN IF i = 0 THEN None ELSE chain[i]

\* Mutant: a minimised window is a candidate.
GetForActivationMinimized(s, n) ==
  IF n \notin DOMAIN s.chains THEN None
  ELSE FirstUsable(s.chains[n], LAMBDA w : s.win[w].buffer)

GetForActivation(s, n) ==
  IF n \notin DOMAIN s.chains THEN None
  ELSE FirstUsable(s.chains[n], LAMBDA w : IsShown(s, w))

\* nextForDesktop and isUsableFocusCandidate, on one screen.
NextForDesktop(s, reference, n) ==
  IF n \notin DOMAIN s.chains THEN None
  ELSE FirstUsable(s.chains[n], LAMBDA w : /\ w # reference
                                           /\ IsShown(s, w)
                                           /\ OnCurrentDesktop(s, w))
=============================================================================
