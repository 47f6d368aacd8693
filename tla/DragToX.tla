------------------------------ MODULE DragToX ------------------------------
(***************************************************************************)
(* Drags of a Wayland client over the windows of X clients: the part of    *)
(* Dnd that handles WlToXDrag, its visits (Xvisit) and the windows it      *)
(* visits.                                                                 *)
(*                                                                         *)
(* A visit speaks XDND with the X client of its window: enter, positions,  *)
(* each to be answered by a status before the next one is sent, then leave *)
(* or drop, the latter to be answered by finished.  The client reads and   *)
(* answers when it likes, so a drag may be over for the user long before   *)
(* it is over for the client; then it is an old drag.                      *)
(*                                                                         *)
(* KWin learns of the offer, its actions and the drop as a client of       *)
(* itself: these events come through wl.  Input that comes before they are *)
(* handled is left out.                                                    *)
(***************************************************************************)
EXTENDS Naturals, Sequences, SequencesExt

CONSTANTS
  Window,        \* windows of X clients
  Version,       \* the version of XDND a window announces, 0 for none
  Supported,     \* the actions of the Wayland source
  Revisit,       \* whether a window is visited again before its client has
                 \* answered what it was sent before
  MaxPos,        \* bounds: the pointer positions of each drag, in a sequence
  None

Action == {"copy", "move"}
Nowhere == "nowhere"   \* no window, or one of a Wayland client

ASSUME DragAssumption ==
  /\ Version \in [Window -> Nat]
  /\ Supported \subseteq Action
  /\ Revisit \in BOOLEAN
  /\ MaxPos \in Seq(Nat)
  /\ None \notin Window /\ None \notin Nat /\ None \notin Action
  /\ Nowhere \notin Window

VARIABLES
  drag,      \* m_currentDrag exists
  drags,     \* how many drags there have been
  visit,     \* WlToXDrag::m_visit of the current drag
  old,       \* the visits of m_oldDrags
  pos,       \* Seat::pointerPos()
  wl,        \* events of KWin's own data device that are under way
  toX,       \* XDND messages on their way to a window
  fromX,     \* XDND messages on their way to KWin
  target     \* the X client of a window: the drag that is over the window, the
             \* last position it was told, whether it accepted that, and the
             \* drag whose drop it is handling

vars == <<drag, drags, visit, old, pos, wl, toX, fromX, target>>

Drag == 1..Len(MaxPos)

\* An Xvisit that has sent nothing: drag and at are history, the number of its
\* drag and where it was dropped.  connected stands for its connections to the
\* data device and to the pointer; cache is None when nothing is cached.
NewVisit(w) ==
  [target |-> w, drag |-> drags, at |-> 0, connected |-> Version[w] > 0,
   entered |-> FALSE, dropped |-> FALSE, finished |-> Version[w] = 0,
   accepts |-> FALSE, pending |-> FALSE, cache |-> None,
   supported |-> {}, preferred |-> None, proposed |-> None]

Visit ==
  [target : Window, drag : Drag, at : Nat, connected : BOOLEAN,
   entered : BOOLEAN, dropped : BOOLEAN, finished : BOOLEAN,
   accepts : BOOLEAN, pending : BOOLEAN, cache : Nat \cup {None},
   supported : SUBSET Action, preferred : Action \cup {None},
   proposed : Action \cup {None}]

NoVisit == [target |-> None]

Message ==
  [type : {"enter", "position", "leave", "drop"}, drag : Drag, pos : Nat]

Reply ==
  [type : {"status", "finished"}, window : Window, drag : Drag,
   accepts : BOOLEAN, action : Action \cup {None}]

TypeOK ==
  /\ drag \in BOOLEAN /\ drags \in 0..Len(MaxPos)
  /\ visit \in Visit \cup {NoVisit}
  /\ old \in Seq(Visit)
  /\ pos \in Nat
  /\ wl \in Seq({"enter", "actions", "drop"})
  /\ toX \in [Window -> Seq(Message)]
  /\ fromX \in Seq(Reply)
  /\ target \in [Window -> [over : Drag \cup {0}, told : Nat,
                            accepted : BOOLEAN, busy : Drag \cup {0}]]

-----------------------------------------------------------------------------
(* What a visit does.  An operator takes a pair of the visit v and the     *)
(* messages m it has sent, and returns such a pair.                        *)

Send(r, type, p) ==
  [r EXCEPT !.m = Append(@, [type |-> type, drag |-> r.v.drag, pos |-> p])]

SendPosition(r, p) ==
  IF r.v.pending THEN [r EXCEPT !.v.cache = p]
  ELSE Send([r EXCEPT !.v.pending = TRUE], "position", p)

DoFinish(r) ==
  [r EXCEPT !.v.finished = TRUE, !.v.cache = None, !.v.connected = FALSE]

Leave(r) ==
  IF r.v.finished THEN r
  ELSE DoFinish(IF r.v.entered THEN Send(r, "leave", 0) ELSE r)

DetermineProposedAction(r) ==
  LET a == IF \/ r.v.preferred \in r.v.supported
              \/ r.v.preferred = None /\ r.v.supported = {}
           THEN r.v.preferred
           ELSE IF "copy" \in r.v.supported THEN "copy" ELSE None
  IN IF a = r.v.proposed THEN r
     ELSE SendPosition([r EXCEPT !.v.proposed = a], pos)

\* Mutant: finished is awaited from old clients too.
SendDropWaiting(r) == Send(r, "drop", r.v.at)

SendDrop(r) ==
  LET sent == Send(r, "drop", r.v.at)
  IN IF Version[r.v.target] < 2 THEN DoFinish(sent) ELSE sent

\* Mutant: the drop does not wait for the status of the last position.
DropAtOnce(r) ==
  LET d == [r EXCEPT !.v.dropped = TRUE, !.v.connected = FALSE]
  IN IF ~d.v.entered THEN d
     ELSE IF ~d.v.accepts THEN DoFinish(Send(d, "leave", 0))
     ELSE SendDrop(d)

Drop(r) ==
  LET d == [r EXCEPT !.v.dropped = TRUE, !.v.connected = FALSE]
  IN IF ~d.v.entered \/ d.v.pending THEN d
     ELSE IF ~d.v.accepts THEN DoFinish(Send(d, "leave", 0))
     ELSE SendDrop(d)

HandleStatus(r, e) ==
  LET known == [r EXCEPT !.v.accepts = e.accepts, !.v.pending = FALSE]
      s == IF known.v.dropped THEN known
           ELSE DetermineProposedAction([known EXCEPT !.v.preferred = e.action])
  IN IF s.v.cache # None THEN SendPosition([s EXCEPT !.v.cache = None], s.v.cache)
     ELSE IF s.v.dropped THEN Drop(s) ELSE s

\* handleClientMessage for the visit v.
Handle(v, e) ==
  LET r == [v |-> v, m |-> <<>>]
  IN IF e.type = "status" THEN HandleStatus(r, e) ELSE DoFinish(r)

-----------------------------------------------------------------------------
(* The user.                                                               *)

Prompt == wl = <<>>

Deliver(w, messages) == toX' = [toX EXCEPT ![w] = @ \o messages]

\* startDrag
StartDrag ==
  /\ ~drag /\ Prompt /\ drags < Len(MaxPos)
  /\ drag' = TRUE /\ drags' = drags + 1
  /\ pos' = 0
  /\ UNCHANGED <<visit, old, wl, toX, fromX, target>>

\* sendPosition through pointerPosChanged.
Moved(v) ==
  LET r == [v |-> v, m |-> <<>>]
  IN IF v.entered /\ v.connected THEN SendPosition(r, pos + 1) ELSE r

\* The pointer moves over the window or place t: moveFilter.
MoveWithin ==
  /\ drag /\ Prompt /\ pos < MaxPos[drags] /\ visit # NoVisit
  /\ pos' = pos + 1
  /\ visit' = Moved(visit).v
  /\ Deliver(visit.target, Moved(visit).m)
  /\ UNCHANGED <<drag, drags, old, wl, fromX, target>>

\* Nothing is under way between KWin and the client of the window t.
Answered(t) ==
  t \in Window =>
    /\ toX[t] = <<>> /\ target[t].busy = 0
    /\ \A i \in 1..Len(fromX) : fromX[i].window # t
    /\ \A i \in 1..Len(old) : old[i].target # t

MoveTo(t) ==
  /\ drag /\ Prompt /\ pos < MaxPos[drags]
  /\ visit.target # t
  /\ Revisit \/ Answered(t)
  /\ pos' = pos + 1
  /\ visit' = IF t = Nowhere THEN NoVisit ELSE NewVisit(t)
  /\ IF visit = NoVisit THEN UNCHANGED toX
     ELSE Deliver(visit.target, Leave(Moved(visit)).m)
  /\ wl' = IF t = Nowhere THEN wl ELSE wl \o <<"enter", "actions">>
  /\ UNCHANGED <<drag, drags, old, fromX, target>>

\* The button is released: the seat drops and reports the end, endDrag.
EndDrag ==
  /\ drag /\ Prompt
  /\ drag' = FALSE /\ visit' = NoVisit
  /\ IF visit = NoVisit \/ visit.finished THEN UNCHANGED <<old, wl>>
     ELSE /\ old' = Append(old, [visit EXCEPT !.at = pos])
          /\ wl' = Append(wl, "drop")
  /\ UNCHANGED <<drags, pos, toX, fromX, target>>

-----------------------------------------------------------------------------
(* Events of KWin's own data device.                                       *)

WlEvent(type) == wl # <<>> /\ Head(wl) = type /\ wl' = Tail(wl)

Sends(r) == visit' = r.v /\ Deliver(visit.target, r.m)

\* receiveOffer and enter.  The actions come later.
ReceiveOffer ==
  LET entered == [v |-> [visit EXCEPT !.entered = TRUE], m |-> <<>>]
  IN /\ WlEvent("enter")
     /\ IF visit.connected
        THEN Sends(SendPosition(Send(entered, "enter", 0), pos))
        ELSE UNCHANGED <<visit, toX>>
     /\ UNCHANGED <<drag, drags, old, pos, fromX, target>>

\* sourceDragAndDropActionsChanged
RetrieveSupportedActions ==
  LET r == [v |-> [visit EXCEPT !.supported = Supported], m |-> <<>>]
  IN /\ WlEvent("actions")
     /\ IF visit.connected THEN Sends(DetermineProposedAction(r))
        ELSE UNCHANGED <<visit, toX>>
     /\ UNCHANGED <<drag, drags, old, pos, fromX, target>>

\* What is left of old, the visit at i having become r: a finished one is
\* deleted with its drag.
Kept(i, r) ==
  IF r.v.finished THEN RemoveAt(old, i) ELSE [old EXCEPT ![i] = r.v]

\* dropped
ReceiveDrop ==
  LET r == Drop([v |-> Last(old), m |-> <<>>])
  IN /\ WlEvent("drop")
     /\ old' = Kept(Len(old), r)
     /\ Deliver(r.v.target, r.m)
     /\ UNCHANGED <<drag, drags, visit, pos, fromX, target>>

-----------------------------------------------------------------------------
(* Dnd::handleClientMessage: the old drags come first.                     *)

ClientMessage ==
  LET e == Head(fromX)
      i == SelectInSeq(old, LAMBDA v : v.target = e.window)
      r == Handle(IF i > 0 THEN old[i] ELSE visit, e)
  IN /\ fromX # <<>>
     /\ fromX' = Tail(fromX)
     /\ \/ /\ i > 0
           /\ old' = Kept(i, r) /\ UNCHANGED visit
           /\ Deliver(e.window, r.m)
        \/ /\ i = 0 /\ visit.target = e.window
           /\ visit' = r.v /\ UNCHANGED old
           /\ Deliver(e.window, r.m)
        \/ /\ i = 0 /\ visit.target # e.window
           /\ UNCHANGED <<visit, old, toX>>
     /\ UNCHANGED <<drag, drags, pos, wl, target>>

-----------------------------------------------------------------------------
(* The X client of the window w.                                           *)

Read(w, type) ==
  /\ toX[w] # <<>> /\ Head(toX[w]).type = type /\ target[w].busy = 0
  /\ toX' = [toX EXCEPT ![w] = Tail(@)]

Answer(type, w, d, accepts, action) ==
  fromX' = Append(fromX, [type |-> type, window |-> w, drag |-> d,
                          accepts |-> accepts, action |-> action])

TargetEnter(w) ==
  /\ Read(w, "enter")
  /\ target' = [target EXCEPT ![w].over = Head(toX[w]).drag]
  /\ UNCHANGED fromX

TargetPosition(w) ==
  /\ Read(w, "position")
  /\ \E accepts \in BOOLEAN, a \in Action :
       /\ target' = [target EXCEPT ![w].told = Head(toX[w]).pos,
                                   ![w].accepted = accepts]
       /\ Answer("status", w, Head(toX[w]).drag, accepts,
                 IF accepts THEN a ELSE None)

TargetLeave(w) ==
  /\ Read(w, "leave")
  /\ target' = [target EXCEPT ![w].over = 0, ![w].told = 0, ![w].accepted = FALSE]
  /\ UNCHANGED fromX

\* Clients of version 1 do not answer a drop.
TargetDrop(w) ==
  /\ Read(w, "drop")
  /\ target' = [target EXCEPT ![w].over = 0, ![w].told = 0, ![w].accepted = FALSE,
                 ![w].busy = IF Version[w] < 2 THEN 0 ELSE Head(toX[w]).drag]
  /\ UNCHANGED fromX

TargetFinish(w) ==
  /\ target[w].busy # 0
  /\ target' = [target EXCEPT ![w].busy = 0]
  /\ Answer("finished", w, target[w].busy, TRUE, None)
  /\ UNCHANGED toX

Target(w) ==
  /\ \/ TargetEnter(w) \/ TargetPosition(w) \/ TargetLeave(w) \/ TargetDrop(w)
     \/ TargetFinish(w)
  /\ UNCHANGED <<drag, drags, visit, old, pos, wl>>

-----------------------------------------------------------------------------
Init ==
  /\ drag = FALSE /\ drags = 0
  /\ visit = NoVisit /\ old = <<>>
  /\ pos = 0 /\ wl = <<>>
  /\ toX = [w \in Window |-> <<>>] /\ fromX = <<>>
  /\ target = [w \in Window |->
                 [over |-> 0, told |-> 0, accepted |-> FALSE, busy |-> 0]]

WlEvents == ReceiveOffer \/ RetrieveSupportedActions \/ ReceiveDrop

User ==
  \/ StartDrag \/ MoveWithin \/ EndDrag
  \/ \E t \in Window \cup {Nowhere} : MoveTo(t)

Next == User \/ WlEvents \/ ClientMessage \/ \E w \in Window : Target(w)

\* KWin handles the events that reach it, and the X clients are alive.
Fairness ==
  /\ WF_vars(WlEvents) /\ WF_vars(ClientMessage)
  /\ \A w \in Window : WF_vars(Target(w))

Spec == Init /\ [][Next]_vars /\ Fairness

-----------------------------------------------------------------------------
(* Properties.                                                             *)

\* What is dropped falls where the button was released, on a client that has
\* accepted it there: positions that were held back while a status was
\* outstanding are sent and answered before the drop.
DropAtPointer ==
  \A w \in Window :
    toX[w] # <<>> /\ target[w].busy = 0 /\ Head(toX[w]).type = "drop"
      => target[w].told = Head(toX[w]).pos /\ target[w].accepted

\* A drag comes to its end: nothing stays in m_oldDrags for ever, where it
\* would take the answers to later drags, and the client is left or dropped on.
DragsEnd == \A d \in Drag :
  (\E i \in 1..Len(old) : old[i].drag = d)
    ~> /\ \A i \in 1..Len(old) : old[i].drag # d
       /\ \A w \in Window : target[w].over # d
=============================================================================
