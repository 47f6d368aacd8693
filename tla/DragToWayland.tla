--------------------------- MODULE DragToWayland ---------------------------
(***************************************************************************)
(* A drag of an X client over the windows of Wayland clients: XToWlDrag,   *)
(* its visits (WlVisit) and the part of Dnd that keeps it.                 *)
(*                                                                         *)
(* The X client speaks XDND with a proxy window that KWin maps over the    *)
(* whole screen while the pointer is over a window of a Wayland client.    *)
(* For the Wayland client the drag is one of KWin's own data source.  The  *)
(* end of the drag reaches KWin on four ways that know nothing of each     *)
(* other: the drop from the X client, the event of its own data source,    *)
(* the ends of the transfers and a timer.                                  *)
(*                                                                         *)
(* An enter that is under way when the pointer moves on is left out.       *)
(***************************************************************************)
EXTENDS Naturals, Sequences

CONSTANTS
  Target,        \* windows of Wayland clients
  NMime,         \* how many types the X client offers, if any
  MaxVisits,     \* bound: visits of the drag
  MaxRequests,   \* bound: requests for data
  None

Action == {"copy", "move"}

ASSUME DragToWaylandAssumption ==
  /\ NMime \in Nat \ {0} /\ MaxVisits \in Nat /\ MaxRequests \in Nat
  /\ None \notin Target \cup Action

VARIABLES
  phase,       \* none, current (m_currentDrag), old (in m_oldDrags), gone
  visit,       \* m_visit
  oldVisits,   \* m_oldVisits
  visits,      \* how many visits there have been
  mimes,       \* how many types the X client offers
  offered,     \* m_offers is set
  pending,     \* size of m_offersPending
  selected,    \* selectedDragAndDropAction of m_dataSource
  last,        \* m_lastSelectedDragAndDropAction
  requests,    \* m_dataRequests: how many, and how many are not finished
  performed,   \* m_performed
  timer,       \* the single shot of two seconds is running
  dragTarget,  \* the seat's drag target, after the drag where it was dropped
  wl,          \* events of KWin's own data source that are under way
  toKwin,      \* XDND messages on their way to proxy windows
  toSource,    \* statuses on their way to the X client
  source,      \* the X client: the proxy it is over, the last status,
               \* whether one is outstanding, and whether it is through
  told         \* the X client was told that its drop was accepted and finished

drag == <<phase, visit, oldVisits, visits, mimes, offered, pending, last,
          requests, performed, timer>>
vars == <<drag, selected, dragTarget, wl, toKwin, toSource, source, told>>

NoVisit == [window |-> 0, target |-> None]

NewVisit(t) ==
  [window |-> visits + 1, target |-> t, mapped |-> TRUE, entered |-> FALSE,
   dropHandled |-> FALSE, finished |-> FALSE, action |-> None]

Visit ==
  [window : 1..MaxVisits, target : Target, mapped : BOOLEAN,
   entered : BOOLEAN, dropHandled : BOOLEAN, finished : BOOLEAN,
   action : Action \cup {None}]

Message ==
  [type : {"enter", "position", "leave", "drop"}, window : 1..MaxVisits,
   action : Action \cup {None}]

TypeOK ==
  /\ phase \in {"none", "current", "old", "gone"}
  /\ visit \in Visit \cup {NoVisit} /\ oldVisits \subseteq Visit
  /\ visits \in 0..MaxVisits
  /\ mimes \in {0, NMime} /\ offered \in BOOLEAN /\ pending \in 0..NMime
  /\ selected \in Action \cup {None} /\ last \in Action \cup {None}
  /\ requests \in [total : 0..MaxRequests, open : 0..MaxRequests]
  /\ performed \in BOOLEAN /\ timer \in BOOLEAN /\ told \in BOOLEAN
  /\ dragTarget \in Target \cup {None}
  /\ wl \in Seq({"offer", "performed"})
  /\ toKwin \in Seq(Message)
  /\ toSource \in Seq([window : 1..MaxVisits, accepts : BOOLEAN])
  /\ source \in [over : 0..MaxVisits, accepted : BOOLEAN, waiting : BOOLEAN,
                 through : BOOLEAN]

Alive == phase \in {"current", "old"}

-----------------------------------------------------------------------------
(* The end of the drag.  finish deletes it once it is an old drag.         *)

Finish == phase' = IF phase = "old" THEN "gone" ELSE phase

\* accepted in sendFinished
SendFinished(v) == told' = (told \/ (v.entered /\ v.action # None))

\* Mutant: one finished transfer is enough.
TransfersFinishedAny(q) == q.total # 0 /\ (q.open = 0 \/ q.open < q.total)

TransfersFinished(q) == q.total # 0 /\ q.open = 0

\* checkForFinished, the visit being v and the requests q.  It is called whenever
\* one of them changes, so that the call on dragAndDropFinished changes nothing.
CheckForFinished(v, q) ==
  \/ v = NoVisit /\ Finish /\ UNCHANGED told
  \/ /\ v # NoVisit /\ v.finished /\ TransfersFinished(q)
     /\ SendFinished(v) /\ Finish
  \/ /\ v # NoVisit /\ ~(v.finished /\ TransfersFinished(q))
     /\ UNCHANGED <<phase, told>>

-----------------------------------------------------------------------------
(* The user.                                                               *)

\* doHandleXfixesNotify: the X client has claimed the selection with the left
\* button pressed over its window.
StartDrag ==
  /\ phase = "none" /\ phase' = "current"
  /\ mimes' \in {0, NMime}
  /\ UNCHANGED <<visit, oldVisits, visits, offered, pending, last, requests,
                 performed, timer, selected, dragTarget, wl, toKwin, toSource,
                 source, told>>

EnterUnderWay == \E i \in 1..Len(toKwin) : toKwin[i].type = "enter"

Unmapped(v) == [v EXCEPT !.mapped = FALSE]

LeaveVisit ==
  oldVisits' = IF visit = NoVisit \/ visit.finished THEN oldVisits
               ELSE oldVisits \cup {Unmapped(visit)}

\* Mutant: the last target stays when there is no new one.
MoveFilterKeeping(t) ==
  /\ phase = "current" /\ visit.target # t /\ ~EnterUnderWay
  /\ LeaveVisit
  /\ \/ t = None /\ visit' = NoVisit /\ UNCHANGED visits
     \/ /\ t # None /\ visits < MaxVisits
        /\ visit' = NewVisit(t) /\ visits' = visits + 1
  /\ UNCHANGED <<phase, mimes, offered, pending, last, requests, performed,
                 timer, selected, dragTarget, wl, toKwin, toSource, source, told>>

\* moveFilter with the window t of a Wayland client, or None: that of an X
\* client.  The last target stays until the new one is entered.
MoveFilter(t) ==
  /\ phase = "current" /\ visit.target # t /\ ~EnterUnderWay
  /\ LeaveVisit
  /\ \/ t = None /\ visit' = NoVisit /\ dragTarget' = None /\ UNCHANGED visits
     \/ /\ t # None /\ visits < MaxVisits
        /\ visit' = NewVisit(t) /\ visits' = visits + 1
        /\ UNCHANGED dragTarget
  /\ UNCHANGED <<phase, mimes, offered, pending, last, requests, performed,
                 timer, selected, wl, toKwin, toSource, source, told>>

\* The button is released: endDrag, with end() false.
EndDrag ==
  /\ phase = "current" /\ phase' = "old"
  /\ wl' = Append(wl, "performed")
  /\ UNCHANGED <<visit, oldVisits, visits, mimes, offered, pending, last,
                 requests, performed, timer, selected, dragTarget, toKwin,
                 toSource, source, told>>

-----------------------------------------------------------------------------
(* Events of KWin's own data source, and the timer.                        *)

\* The seat has a drag target only while there is a drag.
SetDragTarget(v) ==
  dragTarget' = IF phase = "current" THEN v.target ELSE dragTarget

WlEvent(type) == wl # <<>> /\ Head(wl) = type /\ wl' = Tail(wl)

OfferCallback ==
  /\ WlEvent("offer")
  /\ IF Alive
     THEN /\ pending' = pending - 1
          /\ IF pending' = 0 /\ visit # NoVisit /\ visit.entered
             THEN SetDragTarget(visit) ELSE UNCHANGED dragTarget
     ELSE UNCHANGED <<pending, dragTarget>>
  /\ UNCHANGED <<phase, visit, oldVisits, visits, mimes, offered, last, requests,
                 performed, timer, selected, toKwin, toSource, source, told>>

\* Mutant: nobody sets the timer.
DragAndDropPerformedUntimed ==
  /\ WlEvent("performed")
  /\ IF Alive THEN performed' = TRUE /\ CheckForFinished(visit, requests)
     ELSE UNCHANGED <<phase, performed, told>>
  /\ UNCHANGED <<visit, oldVisits, visits, mimes, offered, pending, last, timer,
                 requests, selected, dragTarget, toKwin, toSource, source>>

DragAndDropPerformed ==
  /\ WlEvent("performed")
  /\ IF Alive
     THEN /\ performed' = TRUE
          /\ timer' = (visit # NoVisit)
          /\ CheckForFinished(visit, requests)
     ELSE UNCHANGED <<phase, performed, timer, told>>
  /\ UNCHANGED <<visit, oldVisits, visits, mimes, offered, pending, last,
                 requests, selected, dragTarget, toKwin, toSource, source>>

\* The X client has timed out, the Wayland client has, or neither.
TimerFires ==
  /\ timer /\ Alive /\ timer' = FALSE
  /\ \/ ~(visit.entered /\ visit.dropHandled) /\ Finish /\ UNCHANGED told
     \/ /\ visit.entered /\ visit.dropHandled /\ requests.total = 0
        /\ SendFinished(visit) /\ Finish
     \/ /\ visit.entered /\ visit.dropHandled /\ requests.total # 0
        /\ UNCHANGED <<phase, told>>
  /\ UNCHANGED <<visit, oldVisits, visits, mimes, offered, pending, last,
                 requests, performed, selected, dragTarget, wl, toKwin,
                 toSource, source>>

-----------------------------------------------------------------------------
(* Messages of the X client: WlVisit::handleClientMessage for the visit v  *)
(* that the window of the message belongs to.                              *)

\* v has become w.  An old visit that has finished is deleted.
Becomes(v, w) ==
  IF v = visit THEN visit' = w /\ UNCHANGED oldVisits
  ELSE /\ oldVisits' = (oldVisits \ {v}) \cup (IF w.finished THEN {} ELSE {w})
       /\ UNCHANGED visit

\* setOffers
SetOffers ==
  IF mimes = 0 \/ offered
  THEN SetDragTarget(visit) /\ UNCHANGED <<offered, pending, wl>>
  ELSE /\ offered' = TRUE /\ pending' = mimes
       /\ wl' = wl \o [i \in 1..mimes |-> "offer"]
       /\ UNCHANGED dragTarget

HandleEnter(v) ==
  /\ Becomes(v, [v EXCEPT !.entered = TRUE])
  /\ IF v.entered THEN UNCHANGED <<offered, pending, wl, dragTarget>>
     ELSE SetOffers
  /\ UNCHANGED <<phase, last, toSource, told>>

\* selectedDragAndDropAction
Selected == IF performed THEN last ELSE selected

\* targetAcceptsAction
Accepts(action) == Selected \in {action, "copy"}

HandlePosition(v, m) ==
  /\ Becomes(v, [v EXCEPT !.action = m.action])
  /\ toSource' = Append(toSource, [window |-> v.window, accepts |-> Accepts(m.action)])
  /\ last' = Selected
  /\ UNCHANGED <<phase, offered, pending, dragTarget, wl, told>>

\* doFinish, and checkForFinished once the drop was performed.
DoFinish(v, w) ==
  /\ Becomes(v, [w EXCEPT !.finished = TRUE, !.mapped = FALSE])
  /\ IF v = visit /\ performed
     THEN CheckForFinished([w EXCEPT !.finished = TRUE], requests)
     ELSE UNCHANGED <<phase, told>>
  /\ UNCHANGED <<offered, pending, last, dragTarget, wl, toSource>>

HandleDrop(v) == DoFinish(v, [v EXCEPT !.dropHandled = TRUE])

HandleLeave(v) == DoFinish(v, [v EXCEPT !.entered = FALSE])

HandleMessage(v, m) ==
  CASE m.type = "enter" -> HandleEnter(v)
    [] m.type = "position" -> HandlePosition(v, m)
    [] m.type = "drop" -> HandleDrop(v)
    [] m.type = "leave" -> HandleLeave(v)

\* Windows of visits that are gone are destroyed.
HandleClientMessage ==
  LET m == Head(toKwin)
      hit == {v \in oldVisits \cup {visit} : v.window = m.window}
  IN /\ toKwin # <<>> /\ toKwin' = Tail(toKwin)
     /\ \/ Alive /\ \E v \in hit : HandleMessage(v, m)
        \/ /\ ~Alive \/ hit = {}
           /\ UNCHANGED <<phase, visit, oldVisits, offered, pending, last,
                          dragTarget, wl, toSource, told>>
     /\ UNCHANGED <<visits, mimes, requests, performed, timer, selected, source>>

-----------------------------------------------------------------------------
(* The Wayland client under the drag.                                      *)

SelectAction ==
  /\ phase = "current" /\ dragTarget # None
  /\ \E a \in Action \cup {None} : a # selected /\ selected' = a
  /\ UNCHANGED <<drag, dragTarget, wl, toKwin, toSource, source, told>>

\* transferReady
TransferReady ==
  /\ Alive /\ dragTarget # None /\ requests.total < MaxRequests
  /\ requests' = [total |-> requests.total + 1, open |-> requests.open + 1]
  /\ UNCHANGED <<phase, visit, oldVisits, visits, mimes, offered, pending, last,
                 performed, timer, selected, dragTarget, wl, toKwin, toSource,
                 source, told>>

\* transferFinished
TransferFinished ==
  /\ Alive /\ requests.open > 0
  /\ requests' = [requests EXCEPT !.open = @ - 1]
  /\ CheckForFinished(visit, requests')
  /\ UNCHANGED <<visit, oldVisits, visits, mimes, offered, pending, last,
                 performed, timer, selected, dragTarget, wl, toKwin, toSource,
                 source>>

-----------------------------------------------------------------------------
(* The X client.  It is never in a hurry.                                  *)

Says(type, w, a) == [type |-> type, window |-> w, action |-> a]

\* The proxy that is mapped, 0 for none.
Proxy == IF Alive /\ visit # NoVisit /\ visit.mapped THEN visit.window ELSE 0

\* It finds itself over another window than before.
SourceMoves ==
  /\ Alive /\ ~source.through /\ source.over # Proxy
  /\ \E a \in Action :
       toKwin' = toKwin
         \o (IF source.over = 0 THEN <<>> ELSE <<Says("leave", source.over, None)>>)
         \o (IF Proxy = 0 THEN <<>>
             ELSE <<Says("enter", Proxy, None), Says("position", Proxy, a)>>)
  /\ source' = [source EXCEPT !.over = Proxy, !.accepted = FALSE,
                              !.waiting = Proxy # 0]
  /\ UNCHANGED <<drag, selected, dragTarget, wl, toSource, told>>

SourcePosition ==
  /\ phase = "current" /\ ~source.through /\ source.over # 0 /\ ~source.waiting
  /\ \E a \in Action : toKwin' = Append(toKwin, Says("position", source.over, a))
  /\ source' = [source EXCEPT !.waiting = TRUE]
  /\ UNCHANGED <<drag, selected, dragTarget, wl, toSource, told>>

SourceStatus ==
  /\ toSource # <<>> /\ toSource' = Tail(toSource)
  /\ source' = IF Head(toSource).window # source.over THEN source
               ELSE [source EXCEPT !.accepted = Head(toSource).accepts,
                                   !.waiting = FALSE]
  /\ UNCHANGED <<drag, selected, dragTarget, wl, toKwin, told>>

\* It sees the button released, and drops or leaves.
SourceDrops ==
  /\ phase \in {"old", "gone"} /\ ~source.through
  /\ source.over # 0 /\ ~source.waiting
  /\ toKwin' = Append(toKwin, Says(IF source.accepted THEN "drop" ELSE "leave",
                                   source.over, None))
  /\ source' = [source EXCEPT !.through = TRUE]
  /\ UNCHANGED <<drag, selected, dragTarget, wl, toSource, told>>

\* It gives the drag up.
SourceCancels ==
  /\ phase = "current" /\ ~source.through /\ source.over # 0
  /\ toKwin' = Append(toKwin, Says("leave", source.over, None))
  /\ source' = [source EXCEPT !.through = TRUE]
  /\ UNCHANGED <<drag, selected, dragTarget, wl, toSource, told>>

-----------------------------------------------------------------------------
Init ==
  /\ phase = "none"
  /\ visit = NoVisit /\ oldVisits = {} /\ visits = 0
  /\ mimes = 0 /\ offered = FALSE /\ pending = 0
  /\ selected = None /\ last = None
  /\ requests = [total |-> 0, open |-> 0]
  /\ performed = FALSE /\ timer = FALSE /\ dragTarget = None
  /\ wl = <<>> /\ toKwin = <<>> /\ toSource = <<>>
  /\ source = [over |-> 0, accepted |-> FALSE, waiting |-> FALSE, through |-> FALSE]
  /\ told = FALSE

WlEvents == OfferCallback \/ DragAndDropPerformed

Next ==
  \/ StartDrag \/ EndDrag \/ \E t \in Target \cup {None} : MoveFilter(t)
  \/ WlEvents \/ TimerFires \/ HandleClientMessage
  \/ SelectAction \/ TransferReady \/ TransferFinished
  \/ SourceMoves \/ SourcePosition \/ SourceStatus \/ SourceDrops \/ SourceCancels

\* KWin handles the events that reach it, the timer fires, and transfers end,
\* if by their own timeout.  Both clients may fall silent.
Fairness ==
  /\ WF_vars(WlEvents) /\ WF_vars(HandleClientMessage)
  /\ WF_vars(TimerFires) /\ WF_vars(TransferFinished)

Spec == Init /\ [][Next]_vars /\ Fairness

-----------------------------------------------------------------------------
(* Properties.                                                             *)

\* When all events are handled and the X client has found the window the
\* pointer is over, that window is the seat's drag target: types that were
\* offered during an earlier visit, visits that are left before the types
\* are known and late leaves do not send the drop elsewhere.
TargetUnderPointer ==
  phase = "current" /\ toKwin = <<>> /\ wl = <<>> /\ ~source.through
    /\ source.over = Proxy
      => dragTarget = visit.target

\* The X client may free its data when it is told that its drop is finished.
\* It is told so once, after it has dropped, and with no transfer running.
FreedAfterTransfers ==
  [][told' # told => /\ told'
                     /\ visit'.dropHandled
                     /\ requests'.open = 0]_vars

\* A drag that is over for the user is deleted, whatever the two clients do,
\* and an X client whose drop was handled is told so.
DragDeleted ==
  phase = "old" ~> phase = "gone" /\ (visit # NoVisit /\ visit.dropHandled => told)
=============================================================================
