----------------------- MODULE DragToWaylandProofs -----------------------
(***************************************************************************)
(* What the X client of a drag is told: FreedAfterTransfers.  The heart of *)
(* it is that no proxy window is entered after it was left or dropped on,  *)
(* although visits, moves of the pointer and messages go their own ways.   *)
(* And where a drop goes: TargetUnderPointer.                              *)
(***************************************************************************)
EXTENDS DragToWayland, TLAPS

\* The types the argument needs.
SourceShape(s) ==
  /\ s = [over |-> s.over, accepted |-> s.accepted, waiting |-> s.waiting,
          through |-> s.through]
  /\ s.over \in 0..MaxVisits

DragTypeOK ==
  /\ visit \in Visit \cup {NoVisit} /\ oldVisits \subseteq Visit
  /\ visits \in 0..MaxVisits
  /\ requests \in [total : Nat, open : Nat] /\ requests.open <= requests.total
  /\ toKwin \in Seq(Message)
  /\ SourceShape(source)

\* The last visit has the newest window, and no message is ahead of the visits.
WindowsInv ==
  /\ source.over <= visits /\ visit.window <= visits
  /\ \A v \in oldVisits : v.window <= visits /\ v.window # visit.window
  /\ \A i \in 1..Len(toKwin) : toKwin[i].window <= visits

\* The X client enters a window once, and before it says anything else about it.
EnterInv ==
  /\ \A i, j \in 1..Len(toKwin) :
       i < j /\ toKwin[j].type = "enter" => toKwin[i].window # toKwin[j].window
  /\ visit # NoVisit /\ visit.mapped /\ ~source.through
       /\ source.over # visit.window
         => \A i \in 1..Len(toKwin) : toKwin[i].window # visit.window

\* A visit that is finished is unmapped, will not be entered again, and was left
\* unless it was dropped on.
FinishedInv ==
  visit # NoVisit /\ visit.finished =>
    /\ ~visit.mapped
    /\ \A i \in 1..Len(toKwin) :
         toKwin[i].type = "enter" => toKwin[i].window # visit.window
    /\ visit.entered => visit.dropHandled

ToldType == told \in BOOLEAN

DropInv == DragTypeOK /\ WindowsInv /\ EnterInv /\ FinishedInv

LEMMA TailOf ==
  ASSUME NEW S, NEW s \in Seq(S), s # <<>>
  PROVE  /\ Tail(s) \in Seq(S) /\ Len(Tail(s)) = Len(s) - 1
         /\ Len(s) \in Nat \ {0} /\ Head(s) = s[1] /\ Head(s) \in S
         /\ \A i \in 1..Len(Tail(s)) : Tail(s)[i] = s[i + 1]
OBVIOUS

LEMMA ShortSeqs ==
  ASSUME NEW S, NEW x \in S, NEW y \in S
  PROVE  /\ <<x>> \in Seq(S) /\ Len(<<x>>) = 1
         /\ \A i \in 1..1 : <<x>>[i] = x
         /\ <<x, y>> \in Seq(S) /\ Len(<<x, y>>) = 2
         /\ \A i \in 1..2 : <<x, y>>[i] = IF i = 1 THEN x ELSE y
OBVIOUS

\* Messages that are not enters can be added at the end.
LEMMA SayMore ==
  ASSUME DropInv, NEW m \in Message, m.type # "enter",
         m.window = source.over, source.over # 0,
         toKwin' = Append(toKwin, m),
         SourceShape(source'),
         source'.over = source.over,
         source.through => source'.through,
         UNCHANGED <<visit, oldVisits, visits, requests>>
  PROVE  DropInv'
<1>1. /\ toKwin' \in Seq(Message) /\ Len(toKwin') = Len(toKwin) + 1
      /\ Len(toKwin) \in Nat
      /\ \A i \in 1..Len(toKwin) : toKwin'[i] = toKwin[i]
      /\ toKwin'[Len(toKwin) + 1] = m
  BY DEF DropInv, DragTypeOK
<1>2. DragTypeOK'
  BY <1>1 DEF DropInv, DragTypeOK
<1>3. WindowsInv'
  BY <1>1 DEF DropInv, DragTypeOK, WindowsInv
<1>4. EnterInv'
  BY <1>1 DEF DropInv, DragTypeOK, EnterInv
<1>5. FinishedInv'
  BY <1>1 DEF DropInv, DragTypeOK, FinishedInv
<1> QED BY <1>2, <1>3, <1>4, <1>5 DEF DropInv

\* The pointer goes to a new window or to none.
LEMMA MoveKeeps ==
  ASSUME DropInv, NEW t \in Target \cup {None}, MoveFilter(t)
  PROVE  DropInv'
<1> USE DragToWaylandAssumption
<1>1. UNCHANGED <<requests, toKwin, source>>
  BY DEF MoveFilter
<1>2. /\ \A v \in oldVisits' : v \in Visit /\ v.window <= visits
      /\ \A v \in oldVisits' : v \in oldVisits \/ v.window = visit.window
  BY DEF MoveFilter, LeaveVisit, Unmapped, DropInv, DragTypeOK, WindowsInv, Visit
<1>3. CASE t = None
  <2>1. visit' = NoVisit /\ visits' = visits
    BY <1>3 DEF MoveFilter
  <2>2. \A v \in oldVisits' : v.window # 0
    BY <1>2 DEF Visit
  <2>3. DragTypeOK'
    BY <1>1, <1>2, <2>1 DEF DropInv, DragTypeOK, SourceShape
  <2>4. WindowsInv'
    BY <1>1, <1>2, <2>1, <2>2 DEF DropInv, DragTypeOK, WindowsInv, NoVisit
  <2>5. EnterInv' /\ FinishedInv'
    BY <1>1, <2>1 DEF DropInv, EnterInv, FinishedInv
  <2> QED BY <2>3, <2>4, <2>5 DEF DropInv
<1>4. CASE t # None
  <2>1. /\ visits < MaxVisits /\ visit' = NewVisit(t) /\ visits' = visits + 1
    BY <1>4 DEF MoveFilter
  <2>2. /\ visit' \in Visit /\ visit'.window = visits + 1 /\ ~visit'.finished
        /\ visits \in Nat
    BY <2>1, <1>4 DEF NewVisit, Visit, DropInv, DragTypeOK
  <2>3. DragTypeOK'
    BY <1>1, <1>2, <2>1, <2>2 DEF DropInv, DragTypeOK
  <2>4. \A i \in 1..Len(toKwin) : toKwin[i].window \in Nat
    <3>1. \A i \in 1..Len(toKwin) : toKwin[i] \in Message
      BY DEF DropInv, DragTypeOK
    <3> QED BY <3>1 DEF Message
  <2>5. \A v \in oldVisits' : v.window \in Nat
    BY <1>2 DEF Visit
  <2>6. WindowsInv'
    <3>1. source.over \in Nat /\ source.over <= visits
      BY DEF DropInv, DragTypeOK, SourceShape, WindowsInv
    <3>2. \A i \in 1..Len(toKwin) : toKwin[i].window <= visits
      BY DEF DropInv, WindowsInv
    <3>3. \A v \in oldVisits' : v.window <= visits + 1 /\ v.window # visits + 1
      BY <1>2, <2>2, <2>5
    <3> QED BY <1>1, <2>1, <2>2, <2>4, <3>1, <3>2, <3>3 DEF WindowsInv
  <2>7. EnterInv'
    BY <1>1, <2>2, <2>4 DEF DropInv, WindowsInv, EnterInv
  <2> QED BY <2>2, <2>3, <2>6, <2>7 DEF DropInv, FinishedInv
<1> QED BY <1>3, <1>4

\* A message is taken off, and the visit it is about changes.
LEMMA MessageKeeps ==
  ASSUME DropInv, HandleClientMessage
  PROVE  DropInv'
<1> DEFINE m == Head(toKwin)
           hit == {v \in oldVisits \cup {visit} : v.window = m.window}
<1>1. /\ toKwin # <<>> /\ toKwin' = Tail(toKwin)
      /\ UNCHANGED <<visits, requests, source>>
  BY DEF HandleClientMessage
<1>2. /\ toKwin' \in Seq(Message) /\ Len(toKwin') = Len(toKwin) - 1
      /\ Len(toKwin) \in Nat \ {0} /\ m = toKwin[1] /\ m \in Message
      /\ \A i \in 1..Len(toKwin') : toKwin'[i] = toKwin[i + 1]
  BY <1>1, TailOf DEF DropInv, DragTypeOK
<1>3. \A i \in 1..Len(toKwin') :
        i + 1 \in 1..Len(toKwin) /\ toKwin'[i] = toKwin[i + 1]
  BY <1>2
\* Nothing enters the window of this message later.
<1>4. \A i \in 1..Len(toKwin') :
        toKwin'[i].type = "enter" => toKwin'[i].window # m.window
  BY <1>2, <1>3 DEF DropInv, EnterInv
<1>5. /\ \A i \in 1..Len(toKwin') : toKwin'[i].window <= visits
      /\ \A i, j \in 1..Len(toKwin') :
           i < j /\ toKwin'[j].type = "enter"
             => toKwin'[i].window # toKwin'[j].window
  BY <1>2, <1>3, SMTT(30) DEF DropInv, WindowsInv, EnterInv
<1>6. ASSUME UNCHANGED visit, oldVisits' \subseteq Visit,
             \A v \in oldVisits' : v.window <= visits /\ v.window # visit.window
      PROVE  DropInv'
  <2>1. DragTypeOK'
    BY <1>1, <1>2, <1>6 DEF DropInv, DragTypeOK
  <2>2. WindowsInv'
    BY <1>1, <1>5, <1>6 DEF DropInv, WindowsInv
  <2>3. EnterInv'
    BY <1>1, <1>3, <1>5, <1>6 DEF DropInv, EnterInv
  <2>4. FinishedInv'
    BY <1>1, <1>3, <1>6 DEF DropInv, FinishedInv
  <2> QED BY <2>1, <2>2, <2>3, <2>4 DEF DropInv
<1>7. CASE UNCHANGED <<visit, oldVisits>>
  BY <1>6, <1>7 DEF DropInv, DragTypeOK, WindowsInv
<1>8. ASSUME NEW v \in hit, HandleMessage(v, m)
      PROVE  DropInv'
  <2>1. v \in Visit /\ v.window = m.window
    BY <1>2 DEF DropInv, DragTypeOK, Message, NoVisit
  <2>2. m.type \in {"enter", "position", "leave", "drop"}
    BY <1>2 DEF Message
  <2> DEFINE Good(w) ==
          /\ Becomes(v, w) /\ w \in Visit /\ w.window = v.window
          /\ w.mapped => v.mapped
          /\ w.finished =>
               \/ ~w.mapped /\ (w.entered => w.dropHandled)
               \/ v.finished /\ m.type = "enter"
               \/ /\ v.finished /\ w.mapped = v.mapped /\ w.entered = v.entered
                  /\ w.dropHandled = v.dropHandled
  <2>3. PICK w : Good(w)
    <3>1. CASE m.type = "enter"
      <4> DEFINE w == [v EXCEPT !.entered = TRUE]
      <4>1. Becomes(v, w)
        BY <1>8, <3>1 DEF HandleMessage, HandleEnter
      <4>2. w \in Visit /\ w.window = v.window /\ w.mapped = v.mapped
            /\ w.finished = v.finished
        BY <2>1 DEF Visit
      <4>3. Good(w)
        <5> HIDE DEF w
        <5> QED BY <3>1, <4>1, <4>2
      <4> QED BY <4>3
    <3>2. CASE m.type = "position"
      <4> DEFINE w == [v EXCEPT !.action = m.action]
      <4>1. Becomes(v, w)
        BY <1>8, <3>2 DEF HandleMessage, HandlePosition
      <4>2. w \in Visit /\ w.window = v.window /\ w.mapped = v.mapped
            /\ w.finished = v.finished /\ w.entered = v.entered
            /\ w.dropHandled = v.dropHandled
        BY <1>2, <2>1 DEF Visit, Message
      <4>3. Good(w)
        <5> HIDE DEF w
        <5> QED BY <4>1, <4>2
      <4> QED BY <4>3
    <3>3. CASE m.type = "drop"
      <4> DEFINE u == [v EXCEPT !.dropHandled = TRUE]
                 w == [u EXCEPT !.finished = TRUE, !.mapped = FALSE]
      <4>1. Becomes(v, w)
        BY <1>8, <3>3 DEF HandleMessage, HandleDrop, DoFinish
      <4>2. w \in Visit /\ w.window = v.window /\ ~w.mapped /\ w.dropHandled
        BY <2>1 DEF Visit
      <4>3. Good(w)
        <5> HIDE DEF w
        <5> QED BY <4>1, <4>2
      <4> QED BY <4>3
    <3>4. CASE m.type = "leave"
      <4> DEFINE u == [v EXCEPT !.entered = FALSE]
                 w == [u EXCEPT !.finished = TRUE, !.mapped = FALSE]
      <4>1. Becomes(v, w)
        BY <1>8, <3>4 DEF HandleMessage, HandleLeave, DoFinish
      <4>2. w \in Visit /\ w.window = v.window /\ ~w.mapped /\ ~w.entered
        BY <2>1 DEF Visit
      <4>3. Good(w)
        <5> HIDE DEF w
        <5> QED BY <4>1, <4>2
      <4> QED BY <4>3
    <3> QED BY <2>2, <3>1, <3>2, <3>3, <3>4
  <2>4. CASE v # visit
    <3>1. v \in oldVisits /\ UNCHANGED visit
          /\ oldVisits' = (oldVisits \ {v}) \cup (IF w.finished THEN {} ELSE {w})
      BY <2>3, <2>4 DEF Becomes
    <3>2. /\ oldVisits' \subseteq Visit
          /\ \A u \in oldVisits' : u.window <= visits /\ u.window # visit.window
      BY <2>3, <3>1 DEF DropInv, DragTypeOK, WindowsInv
    <3> QED BY <1>6, <3>1, <3>2
  <2>5. CASE v = visit
    <3>1. visit' = w /\ UNCHANGED oldVisits
      BY <2>3, <2>5 DEF Becomes
    <3>2. visit # NoVisit /\ w # NoVisit
      BY <2>1, <2>3, <2>5 DEF Visit, NoVisit
    <3>3. DragTypeOK'
      BY <1>1, <1>2, <2>3, <3>1 DEF DropInv, DragTypeOK
    <3>4. WindowsInv'
      BY <1>1, <1>5, <2>3, <2>5, <3>1 DEF DropInv, WindowsInv
    <3>5. EnterInv'
      BY <1>1, <1>3, <1>5, <2>3, <2>5, <3>1, <3>2 DEF DropInv, EnterInv, Visit
    <3>6. v.finished => m.type # "enter"
      BY <1>2, <2>1, <2>5, <3>2 DEF DropInv, FinishedInv
    <3>7. FinishedInv'
      BY <1>4, <2>1, <2>3, <2>5, <3>1, <3>2, <3>6 DEF DropInv, FinishedInv, Visit
    <3> QED BY <3>3, <3>4, <3>5, <3>7 DEF DropInv
  <2> QED BY <2>4, <2>5
<1> QED
  BY <1>7, <1>8 DEF HandleClientMessage

\* The X client leaves the proxy it was over and enters the one that is mapped.
LEMMA SourceMovesKeeps ==
  ASSUME DropInv, SourceMoves
  PROVE  DropInv'
<1> DEFINE p == Proxy
           leave == IF source.over = 0 THEN <<>>
                    ELSE <<Says("leave", source.over, None)>>
           more(a) == IF p = 0 THEN <<>>
                      ELSE <<Says("enter", p, None), Says("position", p, a)>>
<1>1. /\ ~source.through /\ source.over # p
      /\ UNCHANGED <<visit, oldVisits, visits, requests>>
      /\ source' = [source EXCEPT !.over = p, !.accepted = FALSE,
                                  !.waiting = p # 0]
  BY DEF SourceMoves, drag
<1>2. PICK a \in Action : toKwin' = toKwin \o leave \o more(a)
  BY DEF SourceMoves
<1>3. /\ p \in 0..MaxVisits /\ p <= visits
      /\ p # 0 => visit # NoVisit /\ visit.mapped /\ p = visit.window
                  /\ visit \in Visit
      /\ p = 0 => visit = NoVisit \/ ~visit.mapped
  <2>1. Alive
    BY DEF SourceMoves
  <2>2. p = IF visit # NoVisit /\ visit.mapped THEN visit.window ELSE 0
    BY <2>1 DEF Proxy
  <2>3. visits \in 0..MaxVisits /\ visit.window <= visits
    BY DEF DropInv, DragTypeOK, WindowsInv
  <2>4. visit # NoVisit => visit \in Visit /\ visit.window \in 1..MaxVisits
    BY DEF DropInv, DragTypeOK, Visit
  <2> HIDE DEF p
  <2> QED BY <2>2, <2>3, <2>4, DragToWaylandAssumption
<1>4. /\ SourceShape(source')
      /\ source'.over = p /\ source'.through = source.through
  <2> HIDE DEF p
  <2> QED BY <1>1, <1>3 DEF DropInv, DragTypeOK, SourceShape
<1>5. /\ leave \in Seq(Message) /\ more(a) \in Seq(Message)
      /\ Len(leave) \in 0..1 /\ Len(more(a)) \in 0..2
      /\ \A i \in 1..Len(leave) : /\ leave[i].type # "enter"
                                  /\ leave[i].window = source.over
      /\ \A i \in 1..Len(more(a)) : /\ more(a)[i].window = p /\ p # 0
                                    /\ more(a)[i].type = "enter" => i = 1
  <2> HIDE DEF p
  <2>1. source.over \in 0..MaxVisits
    BY DEF DropInv, DragTypeOK, SourceShape
  <2>2. \A x \in 1..MaxVisits : /\ Says("leave", x, None) \in Message
                                /\ Says("enter", x, None) \in Message
                                /\ Says("position", x, a) \in Message
    BY DEF Says, Message
  <2>3. leave = <<>> \/ (source.over # 0 /\ leave = <<Says("leave", source.over, None)>>)
    OBVIOUS
  <2>4. \/ more(a) = <<>>
        \/ p # 0 /\ more(a) = <<Says("enter", p, None), Says("position", p, a)>>
    OBVIOUS
  <2> HIDE DEF leave, more
  <2>5. /\ leave \in Seq(Message) /\ Len(leave) \in 0..1
        /\ \A i \in 1..Len(leave) : leave[i] = Says("leave", source.over, None)
    <3>1. CASE leave = <<>>
      BY <3>1
    <3>2. CASE source.over # 0 /\ leave = <<Says("leave", source.over, None)>>
      <4>1. Says("leave", source.over, None) \in Message
        BY <2>1, <2>2, <3>2
      <4> QED BY <3>2, <4>1, ShortSeqs
    <3> QED BY <2>3, <3>1, <3>2
  <2>6. /\ more(a) \in Seq(Message) /\ Len(more(a)) \in 0..2
        /\ \A i \in 1..Len(more(a)) :
             /\ p # 0
             /\ more(a)[i] = IF i = 1 THEN Says("enter", p, None)
                             ELSE Says("position", p, a)
    <3>1. CASE more(a) = <<>>
      BY <3>1
    <3>2. CASE /\ p # 0
               /\ more(a) = <<Says("enter", p, None), Says("position", p, a)>>
      <4>1. /\ Says("enter", p, None) \in Message
            /\ Says("position", p, a) \in Message
        BY <1>3, <2>2, <3>2
      <4> QED BY <3>2, <4>1, ShortSeqs
    <3> QED BY <2>4, <3>1, <3>2
  <2> QED BY <2>5, <2>6 DEF Says
<1>6. /\ toKwin' \in Seq(Message)
      /\ Len(toKwin') = Len(toKwin) + Len(leave) + Len(more(a))
      /\ \A i \in 1..Len(toKwin) : toKwin'[i] = toKwin[i]
      /\ \A i \in 1..Len(leave) : toKwin'[Len(toKwin) + i] = leave[i]
      /\ \A i \in 1..Len(more(a)) :
           toKwin'[Len(toKwin) + Len(leave) + i] = more(a)[i]
  <2> HIDE DEF leave, more
  <2>1. toKwin \in Seq(Message)
    BY DEF DropInv, DragTypeOK
  <2> QED BY <1>2, <1>5, <2>1
<1>7. /\ \A i \in 1..Len(toKwin) :
           toKwin'[i] = toKwin[i] /\ toKwin[i].window <= visits
             /\ (p # 0 => toKwin[i].window # p)
      /\ \A i \in 1..Len(toKwin') : i \notin 1..Len(toKwin) =>
           \/ toKwin'[i].type # "enter" /\ toKwin'[i].window = source.over
           \/ p # 0 /\ toKwin'[i].window = p
      /\ \A i \in 1..Len(toKwin') : toKwin'[i].type = "enter" =>
           i \in 1..Len(toKwin) \/ i = Len(toKwin) + Len(leave) + 1
      /\ toKwin'[Len(toKwin) + Len(leave) + 1].window = p
         \/ Len(toKwin') = Len(toKwin) + Len(leave)
  <2> HIDE DEF leave, more
  <2>1. \A i \in 1..Len(toKwin) : toKwin[i].window <= visits
          /\ (p # 0 => toKwin[i].window # p)
    BY <1>1, <1>3 DEF DropInv, WindowsInv, EnterInv
  <2>2. Len(toKwin) \in Nat
    BY DEF DropInv, DragTypeOK
  <2>3. \A i \in 1..Len(toKwin') :
          \/ i \in 1..Len(toKwin)
          \/ i - Len(toKwin) \in 1..Len(leave)
          \/ i - Len(toKwin) - Len(leave) \in 1..Len(more(a))
    BY <1>5, <1>6, <2>2
  <2>4. ASSUME NEW i \in 1..Len(toKwin'), i \notin 1..Len(toKwin)
        PROVE  /\ \/ toKwin'[i].type # "enter" /\ toKwin'[i].window = source.over
                  \/ p # 0 /\ toKwin'[i].window = p
               /\ toKwin'[i].type = "enter" => i = Len(toKwin) + Len(leave) + 1
    <3>1. CASE i - Len(toKwin) \in 1..Len(leave)
      <4>1. toKwin'[i] = leave[i - Len(toKwin)]
        BY <1>6, <2>2, <3>1, SMTT(30)
      <4> QED BY <1>5, <3>1, <4>1
    <3>2. CASE i - Len(toKwin) - Len(leave) \in 1..Len(more(a))
      <4>1. toKwin'[i] = more(a)[i - Len(toKwin) - Len(leave)]
        BY <1>5, <1>6, <2>2, <3>2
      <4> QED BY <1>5, <2>2, <3>2, <4>1
    <3> QED BY <2>3, <2>4, <3>1, <3>2
  <2>5. \/ toKwin'[Len(toKwin) + Len(leave) + 1].window = p
        \/ Len(toKwin') = Len(toKwin) + Len(leave)
    BY <1>5, <1>6, <2>2
  <2> QED BY <1>6, <2>1, <2>4, <2>5
<1>8. DragTypeOK'
  BY <1>1, <1>4, <1>6 DEF DropInv, DragTypeOK
<1>9. WindowsInv'
  BY <1>1, <1>3, <1>4, <1>7 DEF DropInv, WindowsInv
<1>10. EnterInv'
  <2> HIDE DEF leave, more, p
  <2>1. Len(toKwin) \in Nat /\ Len(leave) \in Nat
    BY <1>5 DEF DropInv, DragTypeOK
  <2>2. ASSUME NEW i \in 1..Len(toKwin'), NEW j \in 1..Len(toKwin'),
               i < j, toKwin'[j].type = "enter"
        PROVE  toKwin'[i].window # toKwin'[j].window
    <3>1. CASE j \in 1..Len(toKwin)
      <4>1. i \in 1..Len(toKwin)
        BY <2>1, <2>2, <3>1
      <4> QED BY <1>7, <2>2, <3>1, <4>1 DEF DropInv, EnterInv
    <3>2. CASE j \notin 1..Len(toKwin)
      <4>1. toKwin'[j].window = p /\ p # 0 /\ j = Len(toKwin) + Len(leave) + 1
        BY <1>7, <2>2, <3>2
      <4>2. CASE i \in 1..Len(toKwin)
        BY <1>7, <4>1, <4>2
      <4>3. CASE i \notin 1..Len(toKwin)
        <5>1. i - Len(toKwin) \in 1..Len(leave)
          BY <2>1, <2>2, <4>1, <4>3
        <5>2. toKwin'[i] = leave[i - Len(toKwin)]
          BY <1>6, <2>1, <5>1
        <5> QED BY <1>1, <1>5, <4>1, <5>1, <5>2
      <4> QED BY <4>2, <4>3
    <3> QED BY <3>1, <3>2
  <2>3. visit' # NoVisit /\ visit'.mapped => source'.over = visit'.window
    BY <1>1, <1>3, <1>4
  <2> QED BY <2>2, <2>3 DEF EnterInv
<1>11. FinishedInv'
  <2> SUFFICES ASSUME visit # NoVisit, visit.finished
               PROVE  /\ ~visit.mapped
                      /\ \A i \in 1..Len(toKwin') :
                           toKwin'[i].type = "enter"
                             => toKwin'[i].window # visit.window
                      /\ visit.entered => visit.dropHandled
    BY <1>1 DEF FinishedInv
  <2>1. p = 0
    BY <1>3 DEF DropInv, FinishedInv
  <2> QED BY <1>7, <2>1 DEF DropInv, FinishedInv
<1> QED BY <1>8, <1>9, <1>10, <1>11 DEF DropInv

LEMMA DropInvInit == Init => DropInv
<1> SUFFICES ASSUME Init PROVE DropInv
  OBVIOUS
<1> USE DragToWaylandAssumption DEF Init
<1>1. DragTypeOK
  <2>1. SourceShape(source)
    BY DEF SourceShape
  <2>2. requests \in [total : Nat, open : Nat] /\ requests.open <= requests.total
    OBVIOUS
  <2>3. toKwin \in Seq(Message) /\ oldVisits \subseteq Visit
    OBVIOUS
  <2> QED BY <2>1, <2>2, <2>3 DEF DragTypeOK
<1>2. WindowsInv /\ EnterInv /\ FinishedInv
  BY DEF WindowsInv, EnterInv, FinishedInv, NoVisit
<1> QED BY <1>1, <1>2 DEF DropInv

LEMMA DropInvStep == DropInv /\ [Next]_vars => DropInv'
<1> SUFFICES ASSUME DropInv, [Next]_vars PROVE DropInv'
  OBVIOUS
<1> DEFINE same == UNCHANGED <<visit, oldVisits, visits, toKwin>>
<1>1. CASE same /\ UNCHANGED <<requests, source>>
  BY <1>1 DEF DropInv, DragTypeOK, WindowsInv, EnterInv, FinishedInv
<1>2. CASE TransferReady \/ TransferFinished
  <2>1. same /\ UNCHANGED source
    BY <1>2 DEF TransferReady, TransferFinished
  <2>2. /\ requests' \in [total : Nat, open : Nat]
        /\ requests'.open <= requests'.total
    BY <1>2 DEF TransferReady, TransferFinished, DropInv, DragTypeOK
  <2> QED BY <2>1, <2>2
    DEF DropInv, DragTypeOK, WindowsInv, EnterInv, FinishedInv
<1>3. CASE SourceStatus
  <2>1. same /\ UNCHANGED requests
    BY <1>3 DEF SourceStatus, drag
  <2>2. SourceShape(source') /\ source'.over = source.over
        /\ source'.through = source.through
    BY <1>3 DEF SourceStatus, SourceShape, DropInv, DragTypeOK
  <2> QED
    BY <2>1, <2>2 DEF DropInv, DragTypeOK, WindowsInv, EnterInv, FinishedInv
<1>4. CASE SourcePosition
  <2>1. PICK a \in Action :
          toKwin' = Append(toKwin, Says("position", source.over, a))
    BY <1>4 DEF SourcePosition
  <2>2. source.over # 0 /\ source.over \in 1..MaxVisits
    BY <1>4 DEF SourcePosition, DropInv, DragTypeOK, SourceShape
  <2>3. Says("position", source.over, a) \in Message
    BY <2>2 DEF Says, Message
  <2>4. SourceShape(source') /\ source'.over = source.over
        /\ source'.through = source.through
    BY <1>4 DEF SourcePosition, SourceShape, DropInv, DragTypeOK
  <2>5. UNCHANGED <<visit, oldVisits, visits, requests>>
    BY <1>4 DEF SourcePosition, drag
  <2> QED BY <2>1, <2>2, <2>3, <2>4, <2>5, SayMore DEF Says
<1>5. CASE SourceDrops \/ SourceCancels
  <2>1. PICK type \in {"drop", "leave"} :
          toKwin' = Append(toKwin, Says(type, source.over, None))
    BY <1>5 DEF SourceDrops, SourceCancels
  <2>2. source.over # 0 /\ source.over \in 1..MaxVisits
    BY <1>5 DEF SourceDrops, SourceCancels, DropInv, DragTypeOK, SourceShape
  <2>3. Says(type, source.over, None) \in Message
    BY <2>2 DEF Says, Message
  <2>4. SourceShape(source') /\ source'.over = source.over /\ source'.through
    BY <1>5 DEF SourceDrops, SourceCancels, SourceShape, DropInv, DragTypeOK
  <2>5. UNCHANGED <<visit, oldVisits, visits, requests>>
    BY <1>5 DEF SourceDrops, SourceCancels, drag
  <2> QED BY <2>1, <2>2, <2>3, <2>4, <2>5, SayMore DEF Says
<1>6. CASE StartDrag \/ EndDrag \/ WlEvents \/ TimerFires \/ SelectAction
  <2>1. same /\ UNCHANGED <<requests, source>>
    BY <1>6 DEF StartDrag, EndDrag, WlEvents, OfferCallback,
                DragAndDropPerformed, TimerFires, SelectAction, drag
  <2> QED BY <1>1, <2>1
<1>7. CASE UNCHANGED vars
  BY <1>1, <1>7 DEF vars, drag
<1> QED
  BY <1>2, <1>3, <1>4, <1>5, <1>6, <1>7, MoveKeeps, MessageKeeps,
     SourceMovesKeeps DEF Next

-----------------------------------------------------------------------------
\* The X client says nothing but what XDND knows.
LEMMA HeadType ==
  ASSUME DropInv, HandleClientMessage
  PROVE  /\ Head(toKwin) \in Message
         /\ Head(toKwin).type \in {"enter", "position", "drop", "leave"}
<1>1. Head(toKwin) \in Message
  BY TailOf DEF HandleClientMessage, DropInv, DragTypeOK
<1> QED BY <1>1 DEF Message

LEMMA ToldTypeStep ==
  DropInv /\ ToldType /\ [Next]_vars => ToldType'
<1> SUFFICES ASSUME DropInv, told \in BOOLEAN, [Next]_vars
             PROVE  told' \in BOOLEAN
  BY DEF ToldType
<1>1. \A v, q : CheckForFinished(v, q) => told' \in BOOLEAN
  BY Zenon DEF CheckForFinished, SendFinished
<1>2. CASE TimerFires
  BY <1>2, Zenon DEF TimerFires, SendFinished
<1>3. CASE WlEvents
  BY <1>1, <1>3 DEF WlEvents, OfferCallback, DragAndDropPerformed
<1>4. CASE HandleClientMessage
  <2> DEFINE m == Head(toKwin)
  <2>1. \/ UNCHANGED told
        \/ \E v \in oldVisits \cup {visit} : HandleMessage(v, m)
    BY <1>4 DEF HandleClientMessage
  <2>2. ASSUME NEW v, HandleMessage(v, m) PROVE told' \in BOOLEAN
    <3>1. m.type \in {"enter", "position", "drop", "leave"}
      BY <1>4, HeadType
    <3> QED BY <1>1, <2>2, <3>1 DEF HandleMessage, HandleEnter, HandlePosition, HandleDrop,
                              HandleLeave, DoFinish
  <2> QED BY <2>1, <2>2
<1>5. CASE TransferFinished
  BY <1>1, <1>5 DEF TransferFinished
<1> QED
  BY <1>2, <1>3, <1>4, <1>5
  DEF Next, vars, StartDrag, EndDrag, MoveFilter, SelectAction, TransferReady,
      SourceMoves, SourcePosition, SourceStatus, SourceDrops, SourceCancels

\* checkForFinished tells the X client of the end only with a visit that was
\* entered, is finished and has no transfer running.
LEMMA ToldWhenFinished ==
  ASSUME told \in BOOLEAN, NEW v, NEW q, CheckForFinished(v, q), told' # told
  PROVE  v # NoVisit /\ v.finished /\ v.entered /\ q.open = 0 /\ told'
<1>1. v # NoVisit /\ v.finished /\ q.open = 0 /\ SendFinished(v)
  BY DEF CheckForFinished, TransfersFinished
<1>2. v.entered /\ told'
  BY <1>1, Zenon DEF SendFinished
<1> QED BY <1>1, <1>2

LEMMA FreedStep ==
  DropInv /\ ToldType /\ [Next]_vars =>
    (told' # told => told' /\ visit'.dropHandled /\ requests'.open = 0)
<1> SUFFICES ASSUME DropInv, told \in BOOLEAN, [Next]_vars, told' # told
             PROVE  told' /\ visit'.dropHandled /\ requests'.open = 0
  BY DEF ToldType
<1>1. CASE DragAndDropPerformed
  <2>1. UNCHANGED <<visit, requests>> /\ CheckForFinished(visit, requests)
    BY <1>1 DEF DragAndDropPerformed
  <2> QED BY <2>1, ToldWhenFinished DEF DropInv, FinishedInv
<1>2. CASE TransferFinished
  <2>1. UNCHANGED visit /\ CheckForFinished(visit, requests')
    BY <1>2 DEF TransferFinished
  <2> QED BY <2>1, ToldWhenFinished DEF DropInv, FinishedInv
<1>3. CASE TimerFires
  <2>1. /\ visit.dropHandled /\ requests.total = 0 /\ told'
        /\ UNCHANGED <<visit, requests>>
    <3>1. /\ visit.dropHandled /\ requests.total = 0 /\ SendFinished(visit)
          /\ UNCHANGED <<visit, requests>>
      BY <1>3 DEF TimerFires
    <3>2. told'
      BY <3>1, Zenon DEF SendFinished
    <3> QED BY <3>1, <3>2
  <2> QED BY <2>1 DEF DropInv, DragTypeOK
<1>4. CASE HandleClientMessage
  <2> DEFINE m == Head(toKwin)
  <2>1. PICK v \in oldVisits \cup {visit} :
          v.window = m.window /\ HandleMessage(v, m)
    BY <1>4 DEF HandleClientMessage
  <2>2. UNCHANGED requests /\ v \in Visit
    <3>1. m \in Message
      BY <1>4, HeadType
    <3> QED BY <1>4, <2>1, <3>1
      DEF HandleClientMessage, DropInv, DragTypeOK, Message, NoVisit
  <2>3. CASE HandleDrop(v)
    <3> DEFINE u == [v EXCEPT !.dropHandled = TRUE]
               w == [u EXCEPT !.finished = TRUE, !.mapped = FALSE]
    <3>1. /\ v = visit /\ visit' = w
          /\ CheckForFinished([u EXCEPT !.finished = TRUE], requests)
      BY <2>3 DEF HandleDrop, DoFinish, Becomes
    <3>2. w.dropHandled
      BY <2>2 DEF Visit
    <3>3. requests.open = 0 /\ told'
      <4> HIDE DEF u
      <4> QED BY <3>1, ToldWhenFinished
    <3> QED BY <2>2, <3>1, <3>2, <3>3
  <2>4. CASE HandleLeave(v)
    <3> DEFINE u == [v EXCEPT !.entered = FALSE]
               w == [u EXCEPT !.finished = TRUE]
    <3>1. CheckForFinished(w, requests)
      BY <2>4 DEF HandleLeave, DoFinish
    <3>2. ~w.entered
      BY <2>2 DEF Visit
    <3>3. w.entered
      <4> HIDE DEF w
      <4> QED BY <3>1, ToldWhenFinished
    <3> QED BY <3>2, <3>3
  <2>5. HandleDrop(v) \/ HandleLeave(v)
    <3>1. m.type \in {"enter", "position", "drop", "leave"}
      BY <1>4, HeadType
    <3> QED BY <2>1, <3>1 DEF HandleMessage, HandleEnter, HandlePosition
  <2> QED BY <2>3, <2>4, <2>5
<1>5. DragAndDropPerformed \/ TransferFinished \/ TimerFires
        \/ HandleClientMessage
  BY DEF Next, vars, drag, StartDrag, EndDrag, MoveFilter, WlEvents,
         OfferCallback, SelectAction, TransferReady, SourceMoves,
         SourcePosition, SourceStatus, SourceDrops, SourceCancels
<1> QED BY <1>1, <1>2, <1>3, <1>4, <1>5

\* The X client of a drag is told that its drop is finished at most once, only
\* after a drop that KWin has handled, and never while a transfer runs, for any
\* number of windows, visits, types and requests (XToWlDrag::checkForFinished,
\* WlVisit::sendFinished and the timer of two seconds).
THEOREM DataFreedInTime == Spec => FreedAfterTransfers
<1>1. Spec => []DropInv
  BY DropInvInit, DropInvStep, PTL DEF Spec
<1>2. Init => ToldType
  BY DEF Init, ToldType
<1>3. DropInv /\ ToldType /\ [Next]_vars =>
        [told' # told => /\ told'
                         /\ visit'.dropHandled
                         /\ requests'.open = 0]_vars
  BY FreedStep
<1> QED BY <1>1, <1>2, <1>3, ToldTypeStep, PTL DEF Spec, FreedAfterTransfers

-----------------------------------------------------------------------------
(* The drag target.  While the drag lasts, the events of KWin's own data   *)
(* source that are under way are the offers it waits for, and a visit that *)
(* was entered is the target once they are through.                        *)

OfferInv ==
  /\ wl \in Seq({"offer", "performed"}) /\ mimes \in {0, NMime}
  /\ phase = "none" => /\ wl = <<>> /\ pending = 0 /\ ~offered
                       /\ visit = NoVisit /\ dragTarget = None
  /\ phase = "current" =>
       /\ pending = Len(wl) /\ \A i \in 1..Len(wl) : wl[i] = "offer"
       /\ ~offered => pending = 0
       /\ visit = NoVisit => dragTarget = None
       /\ visit # NoVisit /\ visit.entered /\ pending = 0
            => dragTarget = visit.target

\* While the X client goes on with the drag it neither leaves nor drops on the
\* window of the visit, and it has entered that window or is about to.
EnteredInv ==
  phase = "current" /\ ~source.through /\ visit # NoVisit =>
    /\ visit.mapped
    /\ \A i \in 1..Len(toKwin) :
         toKwin[i].window = visit.window => toKwin[i].type \in {"enter", "position"}
    /\ source.over = visit.window =>
         \/ visit.entered
         \/ \E i \in 1..Len(toKwin) :
              toKwin[i].window = visit.window /\ toKwin[i].type = "enter"

\* A message about the visit v.
LEMMA MessageTo ==
  ASSUME DropInv, HandleClientMessage
  PROVE  \/ /\ UNCHANGED <<phase, visit, offered, pending, dragTarget, wl>>
            /\ ~Alive \/ visit.window # Head(toKwin).window
         \/ \E v \in (oldVisits \cup {visit}) \cap Visit :
              /\ Alive /\ v.window = Head(toKwin).window
              /\ v # visit => visit.window # v.window
              /\ HandleMessage(v, Head(toKwin))
<1> DEFINE m == Head(toKwin)
           hit == {v \in oldVisits \cup {visit} : v.window = m.window}
<1>1. m \in Message
  BY HeadType
<1>2. CASE (~Alive \/ hit = {}) /\ UNCHANGED <<phase, visit, offered, pending, dragTarget, wl>>
  BY <1>2
<1>3. ASSUME Alive, NEW v \in hit, HandleMessage(v, m)
      PROVE  /\ v \in (oldVisits \cup {visit}) \cap Visit
             /\ v.window = m.window /\ (v # visit => visit.window # v.window)
  <2>1. v \in Visit
    BY <1>1, <1>3 DEF DropInv, DragTypeOK, Message, NoVisit
  <2>2. QED
    BY <1>3, <2>1 DEF DropInv, WindowsInv
<1> HIDE DEF hit, m
<1>4. \/ Alive /\ \E v \in hit : HandleMessage(v, m)
      \/ /\ ~Alive \/ hit = {}
         /\ UNCHANGED <<phase, visit, offered, pending, dragTarget, wl>>
  BY DEF HandleClientMessage, hit, m
<1>5. QED
  BY <1>2, <1>3, <1>4 DEF m

\* What a message does to the visit and to its target: the visit is entered and
\* the types are offered, or its target stays as it was.
LEMMA MessageEffect ==
  ASSUME DropInv, HandleClientMessage, phase = "current",
         NEW v \in Visit, HandleMessage(v, Head(toKwin)),
         v # visit => visit.window # v.window
  PROVE  /\ phase' = "current"
         /\ visit' = NoVisit <=> visit = NoVisit
         /\ visit'.target = visit.target /\ visit'.window = visit.window
         /\ v # visit => visit' = visit
         /\ v = visit => /\ visit # NoVisit
                         /\ Head(toKwin).type = "enter" =>
                              visit'.entered /\ visit'.mapped = visit.mapped
                         /\ Head(toKwin).type = "position" =>
                              /\ visit'.entered = visit.entered
                              /\ visit'.mapped = visit.mapped
         /\ \/ SetOffers
            \/ /\ UNCHANGED <<offered, pending, dragTarget, wl>>
               /\ visit # NoVisit /\ visit'.entered => visit.entered
<1> DEFINE m == Head(toKwin)
<1>1. m \in Message /\ m.type \in {"enter", "position", "drop", "leave"}
  BY HeadType
<1>2. v # NoVisit
  BY DEF Visit, NoVisit
<1>3. ASSUME NEW w \in Visit, Becomes(v, w), w.target = v.target, w.window = v.window
      PROVE  /\ visit' = NoVisit <=> visit = NoVisit
             /\ visit'.target = visit.target /\ visit'.window = visit.window
             /\ v # visit => visit' = visit
             /\ v = visit => visit' = w
  <2>1. w # NoVisit
    BY DEF Visit, NoVisit
  <2>2. QED
    BY <1>2, <1>3, <2>1 DEF Becomes
<1>4. \A x, q : CheckForFinished(x, q) => phase' = "current"
  BY DEF CheckForFinished, Finish
<1>5. CASE m.type = "enter"
  <2> DEFINE w == [v EXCEPT !.entered = TRUE]
  <2>1. /\ Becomes(v, w) /\ phase' = phase
        /\ SetOffers \/ (v.entered /\ UNCHANGED <<offered, pending, wl, dragTarget>>)
    BY <1>5 DEF HandleMessage, HandleEnter
  <2>2. /\ w \in Visit /\ w.target = v.target /\ w.window = v.window
        /\ w.entered /\ w.mapped = v.mapped
    BY DEF Visit
  <2> HIDE DEF w
  <2>3. QED
    BY <1>2, <1>3, <1>5, <2>1, <2>2
<1>6. CASE m.type = "position"
  <2> DEFINE w == [v EXCEPT !.action = m.action]
  <2>1. /\ Becomes(v, w) /\ phase' = phase
        /\ UNCHANGED <<offered, pending, wl, dragTarget>>
    BY <1>6 DEF HandleMessage, HandlePosition
  <2>2. /\ w \in Visit /\ w.target = v.target /\ w.window = v.window
        /\ w.entered = v.entered /\ w.mapped = v.mapped
    BY <1>1 DEF Visit, Message
  <2> HIDE DEF w
  <2>3. QED
    BY <1>2, <1>3, <1>6, <2>1, <2>2
<1>7. CASE m.type \in {"drop", "leave"}
  <2>1. PICK u \in Visit : /\ DoFinish(v, u) /\ u.target = v.target
                           /\ u.window = v.window /\ (u.entered => v.entered)
    <3>1. CASE m.type = "drop"
      <4> DEFINE u == [v EXCEPT !.dropHandled = TRUE]
      <4>1. DoFinish(v, u)
        BY <3>1 DEF HandleMessage, HandleDrop
      <4>2. /\ u \in Visit /\ u.target = v.target /\ u.window = v.window
            /\ u.entered = v.entered
        BY DEF Visit
      <4> HIDE DEF u
      <4>3. QED
        BY <4>1, <4>2
    <3>2. CASE m.type = "leave"
      <4> DEFINE u == [v EXCEPT !.entered = FALSE]
      <4>1. DoFinish(v, u)
        BY <3>2 DEF HandleMessage, HandleLeave
      <4>2. /\ u \in Visit /\ u.target = v.target /\ u.window = v.window
            /\ ~u.entered
        BY DEF Visit
      <4> HIDE DEF u
      <4>3. QED
        BY <4>1, <4>2
    <3>3. QED
      BY <1>7, <3>1, <3>2
  <2> DEFINE w == [u EXCEPT !.finished = TRUE, !.mapped = FALSE]
  <2>2. /\ Becomes(v, w) /\ UNCHANGED <<offered, pending, wl, dragTarget>>
        /\ phase' = "current"
    BY <1>4, <2>1 DEF DoFinish
  <2>3. /\ w \in Visit /\ w.target = v.target /\ w.window = v.window
        /\ w.entered = u.entered
    BY <2>1 DEF Visit
  <2> HIDE DEF w
  <2>4. QED
    BY <1>2, <1>3, <1>7, <2>1, <2>2, <2>3
<1>8. QED
  BY <1>1, <1>5, <1>6, <1>7

\* setOffers gives the visit its target or starts to wait for the types.
LEMMA OffersSet ==
  ASSUME OfferInv, phase = "current", SetOffers
  PROVE  /\ wl' \in Seq({"offer", "performed"})
         /\ pending' = Len(wl') /\ \A i \in 1..Len(wl') : wl'[i] = "offer"
         /\ offered' \/ pending' = 0
         /\ (pending' # 0 /\ dragTarget' = dragTarget) \/ dragTarget' = visit.target
<1> USE DragToWaylandAssumption
<1>1. CASE mimes = 0 \/ offered
  BY <1>1 DEF SetOffers, SetDragTarget, OfferInv
<1>2. CASE ~(mimes = 0 \/ offered)
  <2> DEFINE f == [i \in 1..mimes |-> "offer"]
  <2>1. /\ offered' = TRUE /\ pending' = mimes /\ wl' = wl \o f
        /\ dragTarget' = dragTarget
    BY <1>2 DEF SetOffers
  <2>2. mimes \in Nat \ {0} /\ Len(wl) = 0 /\ wl \in Seq({"offer", "performed"})
    BY <1>2 DEF OfferInv
  <2>3. f \in Seq({"offer", "performed"}) /\ Len(f) = mimes
        /\ \A i \in 1..mimes : f[i] = "offer"
    BY <2>2
  <2> HIDE DEF f
  <2>4. /\ wl' \in Seq({"offer", "performed"}) /\ Len(wl') = mimes
        /\ \A i \in 1..Len(wl') : wl'[i] = "offer"
    BY <2>1, <2>2, <2>3
  <2>5. QED
    BY <2>1, <2>2, <2>4
<1>3. QED
  BY <1>1, <1>2

LEMMA OfferInvStep == DropInv /\ OfferInv /\ [Next]_vars => OfferInv'
<1> SUFFICES ASSUME DropInv, OfferInv, [Next]_vars PROVE OfferInv'
  OBVIOUS
<1>0. wl \in Seq({"offer", "performed"}) /\ mimes \in {0, NMime}
  BY DEF OfferInv
<1>1. CASE UNCHANGED <<phase, visit, mimes, offered, pending, dragTarget, wl>>
  BY <1>1 DEF OfferInv
<1>2. CASE SelectAction \/ SourceMoves \/ SourcePosition \/ SourceStatus
             \/ SourceDrops \/ SourceCancels \/ TransferReady \/ UNCHANGED vars
  BY <1>1, <1>2 DEF SelectAction, SourceMoves, SourcePosition, SourceStatus,
     SourceDrops, SourceCancels, TransferReady, vars, drag
<1>3. CASE StartDrag
  BY <1>3 DEF StartDrag, OfferInv, NoVisit
<1>4. CASE EndDrag
  <2>1. wl' \in Seq({"offer", "performed"}) /\ phase' = "old" /\ mimes' = mimes
    BY <1>0, <1>4 DEF EndDrag
  <2>2. QED
    BY <1>0, <2>1 DEF OfferInv
<1>5. ASSUME NEW t \in Target \cup {None}, MoveFilter(t)
      PROVE  OfferInv'
  <2>1. /\ phase = "current" /\ UNCHANGED <<phase, mimes, offered, pending, wl>>
        /\ \/ visit' = NoVisit /\ dragTarget' = None
           \/ visit' = NewVisit(t)
    BY <1>5 DEF MoveFilter
  <2>2. NewVisit(t) # NoVisit /\ ~NewVisit(t).entered
    <3>1. NewVisit(t).window = visits + 1 /\ visits \in Nat /\ ~NewVisit(t).entered
      BY DEF NewVisit, DropInv, DragTypeOK
    <3>2. NoVisit.window = 0
      BY DEF NoVisit
    <3>3. QED
      BY <3>1, <3>2
  <2>3. QED
    BY <2>1, <2>2 DEF OfferInv
\* The events of an old or deleted drag do not matter.
<1>6. ASSUME phase # "current", phase' # "current", phase' # "none",
             wl' \in Seq({"offer", "performed"}), mimes' = mimes
      PROVE  OfferInv'
  BY <1>0, <1>6 DEF OfferInv
<1>7. CASE OfferCallback
  <2>1. /\ wl # <<>> /\ Head(wl) = "offer" /\ wl' = Tail(wl)
        /\ UNCHANGED <<phase, visit, mimes, offered>>
    BY <1>7 DEF OfferCallback, WlEvent
  <2>2. /\ wl' \in Seq({"offer", "performed"}) /\ Len(wl') = Len(wl) - 1
        /\ Len(wl) \in Nat \ {0}
        /\ \A i \in 1..Len(wl') : wl'[i] = wl[i + 1] /\ i + 1 \in 1..Len(wl)
    BY <1>0, <2>1
  <2>3. CASE phase = "current"
    <3>1. /\ pending' = pending - 1
          /\ IF pending' = 0 /\ visit # NoVisit /\ visit.entered
             THEN dragTarget' = visit.target ELSE dragTarget' = dragTarget
      BY <1>7, <2>3 DEF OfferCallback, Alive, SetDragTarget
    <3>2. pending' = Len(wl') /\ \A i \in 1..Len(wl') : wl'[i] = "offer"
      BY <2>2, <2>3, <3>1 DEF OfferInv
    <3>3. offered
      BY <2>2, <2>3 DEF OfferInv
    <3>4. QED
      BY <1>0, <2>1, <2>2, <2>3, <3>1, <3>2, <3>3 DEF OfferInv
  <2>4. CASE phase # "current"
    BY <1>6, <2>1, <2>2, <2>4 DEF OfferInv
  <2>5. QED
    BY <2>3, <2>4
<1>8. CASE DragAndDropPerformed
  <2>1. wl # <<>> /\ Head(wl) = "performed" /\ wl' = Tail(wl) /\ mimes' = mimes
    BY <1>8 DEF DragAndDropPerformed, WlEvent
  <2>2. Head(wl) = wl[1] /\ 1 \in 1..Len(wl)
        /\ wl' \in Seq({"offer", "performed"})
    BY <1>0, <2>1
  <2>3. phase # "current" /\ phase # "none"
    BY <2>1, <2>2 DEF OfferInv
  <2>4. phase' # "current" /\ phase' # "none"
    BY <1>8, <2>3 DEF DragAndDropPerformed, CheckForFinished, Finish
  <2>5. QED
    BY <1>6, <2>1, <2>2, <2>3, <2>4
<1>9. CASE TimerFires \/ TransferFinished
  <2>1. UNCHANGED <<visit, mimes, offered, pending, dragTarget, wl>>
    BY <1>9 DEF TimerFires, TransferFinished
  <2>2. Alive /\ (phase' = phase \/ (phase' = "gone" /\ phase = "old"))
    <3>1. CASE TimerFires
      BY <3>1 DEF TimerFires, Finish
    <3>2. CASE TransferFinished
      <4>1. Alive /\ CheckForFinished(visit, requests')
        BY <3>2 DEF TransferFinished
      <4>2. QED
        BY <4>1 DEF CheckForFinished, Finish
    <3>3. QED
      BY <1>9, <3>1, <3>2
  <2>3. QED
    BY <2>1, <2>2 DEF OfferInv, Alive
<1>10. CASE HandleClientMessage
  <2>1. mimes' = mimes
    BY <1>10 DEF HandleClientMessage
  <2>2. CASE UNCHANGED <<phase, visit, offered, pending, dragTarget, wl>>
    BY <1>1, <2>1, <2>2
  <2>3. ASSUME NEW v \in Visit, Alive, v # visit => visit.window # v.window,
               HandleMessage(v, Head(toKwin))
        PROVE  OfferInv'
    <3>1. CASE phase = "current"
      <4>1. /\ phase' = "current"
            /\ visit' = NoVisit <=> visit = NoVisit
            /\ visit'.target = visit.target
            /\ \/ SetOffers
               \/ /\ UNCHANGED <<offered, pending, dragTarget, wl>>
                  /\ visit # NoVisit /\ visit'.entered => visit.entered
        BY <1>10, <2>3, <3>1, MessageEffect
      <4>2. CASE SetOffers
        <5>1. visit = NoVisit => visit.target = None
          BY DEF NoVisit
        <5>2. QED
          BY <1>0, <2>1, <3>1, <4>1, <4>2, <5>1, OffersSet DEF OfferInv
      <4>3. CASE /\ UNCHANGED <<offered, pending, dragTarget, wl>>
                 /\ visit # NoVisit /\ visit'.entered => visit.entered
        BY <2>1, <3>1, <4>1, <4>3 DEF OfferInv
      <4>4. QED
        BY <4>1, <4>2, <4>3
    <3>2. CASE phase = "old"
      <4>1. Head(toKwin).type \in {"enter", "position", "drop", "leave"}
        BY <1>10, HeadType
      <4>2. phase' \in {"old", "gone"}
        BY <2>3, <3>2, <4>1 DEF HandleMessage, HandleEnter, HandlePosition,
           HandleDrop, HandleLeave, DoFinish, CheckForFinished, Finish
      <4>3. wl' = wl \/ wl' = wl \o [i \in 1..mimes |-> "offer"]
        BY <2>3, <4>1 DEF HandleMessage, HandleEnter, SetOffers,
           HandlePosition, HandleDrop, HandleLeave, DoFinish
      <4>4. wl' \in Seq({"offer", "performed"})
        <5>1. mimes \in Nat
          BY <1>0, DragToWaylandAssumption
        <5> DEFINE f == [i \in 1..mimes |-> "offer"]
        <5>2. f \in Seq({"offer", "performed"})
          BY <5>1
        <5> HIDE DEF f
        <5>3. wl \o f \in Seq({"offer", "performed"})
          BY <1>0, <5>2
        <5>4. QED
          BY <1>0, <4>3, <5>3 DEF f
      <4>5. QED
        BY <1>6, <2>1, <3>2, <4>2, <4>4
    <3>3. QED
      BY <2>3, <3>1, <3>2 DEF Alive
  <2>4. QED
    BY <1>10, <2>2, <2>3, MessageTo
<1> QED
  BY <1>2, <1>3, <1>4, <1>5, <1>7, <1>8, <1>9, <1>10 DEF Next, WlEvents

LEMMA EnteredInvStep ==
  DropInv /\ OfferInv /\ EnteredInv /\ [Next]_vars => EnteredInv'
<1> SUFFICES ASSUME DropInv, OfferInv, EnteredInv, [Next]_vars,
                    phase' = "current", ~source'.through, visit' # NoVisit
             PROVE  EnteredInv'
  BY DEF EnteredInv
<1>0. /\ toKwin \in Seq(Message) /\ Len(toKwin) \in Nat
      /\ visits \in Nat /\ SourceShape(source)
      /\ visit = NoVisit \/ visit \in Visit
  BY DEF DropInv, DragTypeOK
<1>1. ASSUME UNCHANGED <<phase, visit, toKwin>>, source'.over = source.over,
             source'.through = source.through
      PROVE  EnteredInv'
  BY <1>1 DEF EnteredInv
<1>2. CASE StartDrag
  BY <1>2 DEF StartDrag, OfferInv
<1>3. CASE EndDrag \/ SourceDrops \/ SourceCancels
  <2>1. CASE EndDrag
    BY <2>1 DEF EndDrag
  <2>2. CASE SourceDrops \/ SourceCancels
    <3>1. source' = [source EXCEPT !.through = TRUE]
      BY <2>2 DEF SourceDrops, SourceCancels
    <3>2. QED
      BY <1>0, <3>1 DEF SourceShape
  <2>3. QED
    BY <1>3, <2>1, <2>2
<1>4. CASE SelectAction \/ TransferReady \/ OfferCallback \/ UNCHANGED vars
  BY <1>1, <1>4 DEF SelectAction, TransferReady, OfferCallback, vars, drag
<1>5. CASE DragAndDropPerformed \/ TimerFires \/ TransferFinished
  <2>1. UNCHANGED <<visit, toKwin, source>>
    BY <1>5 DEF DragAndDropPerformed, TimerFires, TransferFinished
  <2>2. phase = "current"
    <3>1. CASE DragAndDropPerformed
      BY <3>1 DEF DragAndDropPerformed, CheckForFinished, Finish
    <3>2. CASE TimerFires
      BY <3>2 DEF TimerFires, Finish
    <3>3. CASE TransferFinished
      <4>1. CheckForFinished(visit, requests')
        BY <3>3 DEF TransferFinished
      <4>2. QED
        BY <4>1 DEF CheckForFinished, Finish
    <3>4. QED
      BY <1>5, <3>1, <3>2, <3>3
  <2>3. QED
    BY <1>1, <2>1, <2>2
<1>6. CASE SourceStatus
  <2>1. UNCHANGED <<phase, visit, toKwin>>
    BY <1>6 DEF SourceStatus, drag
  <2>2. source'.over = source.over /\ source'.through = source.through
    BY <1>0, <1>6 DEF SourceStatus, SourceShape
  <2>3. QED
    BY <1>1, <2>1, <2>2
<1>7. ASSUME NEW t \in Target \cup {None}, MoveFilter(t)
      PROVE  EnteredInv'
  <2>1. visit' = NewVisit(t) /\ UNCHANGED <<toKwin, source>>
    BY <1>7 DEF MoveFilter
  <2>2. visit'.mapped /\ visit'.window = visits + 1
    BY <2>1 DEF NewVisit
  <2>3. \A i \in 1..Len(toKwin) : toKwin[i].window # visits + 1
    <3>1. \A i \in 1..Len(toKwin) : toKwin[i] \in Message
      BY <1>0
    <3>2. \A i \in 1..Len(toKwin) : toKwin[i].window \in Nat
      BY <3>1 DEF Message
    <3>3. QED
      BY <1>0, <3>2 DEF DropInv, WindowsInv
  <2>4. source.over # visits + 1
    BY <1>0 DEF SourceShape, DropInv, WindowsInv
  <2>5. QED
    BY <2>1, <2>2, <2>3, <2>4 DEF EnteredInv
<1>8. CASE SourcePosition
  <2>1. PICK a \in Action :
          toKwin' = Append(toKwin, Says("position", source.over, a))
    BY <1>8 DEF SourcePosition
  <2>2. /\ UNCHANGED <<phase, visit>>
        /\ source'.over = source.over /\ source'.through = source.through
    BY <1>0, <1>8 DEF SourcePosition, SourceShape, drag
  <2>3. /\ Len(toKwin') = Len(toKwin) + 1
        /\ \A i \in 1..Len(toKwin) : toKwin'[i] = toKwin[i] /\ i \in 1..Len(toKwin')
        /\ toKwin'[Len(toKwin) + 1].type = "position"
    BY <1>0, <2>1 DEF Says
  <2>4. \A i \in 1..Len(toKwin') : i \in 1..Len(toKwin) \/ i = Len(toKwin) + 1
    BY <1>0, <2>3
  <2>5. QED
    BY <2>2, <2>3, <2>4 DEF EnteredInv
<1>9. CASE SourceMoves
  <2> DEFINE leave == IF source.over = 0 THEN <<>>
                      ELSE <<Says("leave", source.over, None)>>
             p == visit.window
  <2>1. /\ UNCHANGED <<phase, visit>> /\ source.over # Proxy
        /\ source' = [source EXCEPT !.over = Proxy, !.accepted = FALSE,
                                    !.waiting = Proxy # 0]
    BY <1>9 DEF SourceMoves, drag
  <2>2. ~source.through /\ visit \in Visit
    BY <1>0, <2>1 DEF SourceShape
  <2>3. visit.mapped /\ Proxy = p /\ p # 0 /\ p \in 1..MaxVisits
    BY <2>1, <2>2 DEF EnteredInv, Proxy, Alive, Visit
  <2>4. PICK a \in Action :
          toKwin' = toKwin \o leave
                      \o <<Says("enter", p, None), Says("position", p, a)>>
    BY <1>9, <2>3 DEF SourceMoves
  <2> DEFINE more == <<Says("enter", p, None), Says("position", p, a)>>
  <2>5. /\ leave \in Seq(Message) /\ Len(leave) \in 0..1
        /\ \A i \in 1..Len(leave) : leave[i].window = source.over
    <3>1. CASE source.over = 0
      BY <3>1
    <3>2. CASE source.over # 0
      <4>1. Says("leave", source.over, None) \in Message
        BY <1>0, <3>2 DEF Says, Message, SourceShape
      <4>2. QED
        BY <3>2, <4>1, ShortSeqs DEF Says
    <3>3. QED
      BY <3>1, <3>2
  <2>6. /\ more \in Seq(Message) /\ Len(more) = 2
        /\ \A i \in 1..2 : more[i].type \in {"enter", "position"}
        /\ more[1].type = "enter" /\ more[1].window = p
    <3>1. Says("enter", p, None) \in Message /\ Says("position", p, a) \in Message
      BY <2>3 DEF Says, Message
    <3>2. QED
      BY <3>1, ShortSeqs DEF Says
  <2> HIDE DEF leave, more
  <2>7. /\ Len(toKwin') = Len(toKwin) + Len(leave) + 2
        /\ \A i \in 1..Len(toKwin) : toKwin'[i] = toKwin[i]
        /\ \A i \in 1..Len(leave) : toKwin'[Len(toKwin) + i] = leave[i]
        /\ \A i \in 1..2 : toKwin'[Len(toKwin) + Len(leave) + i] = more[i]
    BY <1>0, <2>4, <2>5, <2>6 DEF more
  <2>8. \A i \in 1..Len(toKwin') :
          \/ i \in 1..Len(toKwin)
          \/ i - Len(toKwin) \in 1..Len(leave)
          \/ i - Len(toKwin) - Len(leave) \in 1..2
    BY <1>0, <2>5, <2>7
  <2>9. ASSUME NEW i \in 1..Len(toKwin'), toKwin'[i].window = p
        PROVE  toKwin'[i].type \in {"enter", "position"}
    <3>1. CASE i \in 1..Len(toKwin)
      BY <2>1, <2>2, <2>7, <2>9, <3>1 DEF EnteredInv
    <3>2. CASE i - Len(toKwin) \in 1..Len(leave)
      <4>1. toKwin'[i] = leave[i - Len(toKwin)]
        BY <1>0, <2>7, <3>2
      <4>2. QED
        BY <2>1, <2>3, <2>5, <2>9, <3>2, <4>1
    <3>3. CASE i - Len(toKwin) - Len(leave) \in 1..2
      <4>1. toKwin'[i] = more[i - Len(toKwin) - Len(leave)]
        BY <1>0, <2>5, <2>7, <3>3
      <4>2. QED
        BY <2>6, <3>3, <4>1
    <3>4. QED
      BY <2>8, <3>1, <3>2, <3>3
  <2>10. \E i \in 1..Len(toKwin') :
           toKwin'[i].window = p /\ toKwin'[i].type = "enter"
    <3> DEFINE k == Len(toKwin) + Len(leave) + 1
    <3>1. k \in 1..Len(toKwin') /\ toKwin'[k] = more[1]
      BY <1>0, <2>5, <2>7
    <3> HIDE DEF k
    <3>2. QED
      BY <2>6, <3>1
  <2>11. QED
    BY <2>1, <2>3, <2>9, <2>10 DEF EnteredInv
<1>10. CASE HandleClientMessage
  <2> DEFINE m == Head(toKwin)
  <2>1. /\ toKwin # <<>> /\ toKwin' = Tail(toKwin) /\ source' = source
    BY <1>10 DEF HandleClientMessage
  <2>2. /\ Len(toKwin') = Len(toKwin) - 1 /\ m = toKwin[1]
        /\ 1 \in 1..Len(toKwin)
        /\ \A i \in 1..Len(toKwin') : toKwin'[i] = toKwin[i + 1]
                                      /\ i + 1 \in 1..Len(toKwin)
    BY <1>0, <2>1
  <2>3. \A i \in 1..Len(toKwin) :
          i = 1 \/ (i - 1 \in 1..Len(toKwin') /\ toKwin'[i - 1] = toKwin[i])
    <3> SUFFICES ASSUME NEW i \in 1..Len(toKwin), i # 1
                 PROVE  i - 1 \in 1..Len(toKwin') /\ toKwin'[i - 1] = toKwin[i]
      OBVIOUS
    <3>1. i - 1 \in 1..Len(toKwin') /\ (i - 1) + 1 = i
      BY <1>0, <2>2
    <3>2. QED
      BY <2>2, <3>1
  <2> HIDE DEF m
  <2>4. CASE /\ UNCHANGED <<phase, visit>>
             /\ ~Alive \/ visit.window # m.window
    <3>1. visit.window # m.window
      BY <2>4 DEF Alive
    <3>2. QED
      BY <2>1, <2>2, <2>3, <2>4, <3>1 DEF EnteredInv
  <2>5. ASSUME NEW v \in Visit, Alive, v.window = m.window,
               v # visit => visit.window # v.window, HandleMessage(v, m)
        PROVE  EnteredInv'
    <3>1. phase = "current"
      <4>1. m.type \in {"enter", "position", "drop", "leave"}
        BY <1>10, HeadType DEF m
      <4>2. QED
        BY <2>5, <4>1 DEF HandleMessage, HandleEnter, HandlePosition,
           HandleDrop, HandleLeave, DoFinish, CheckForFinished, Finish
    <3>2. /\ visit' = NoVisit <=> visit = NoVisit
          /\ visit'.window = visit.window
          /\ v # visit => visit' = visit
          /\ v = visit => /\ m.type = "enter" =>
                               visit'.entered /\ visit'.mapped = visit.mapped
                          /\ m.type = "position" =>
                               /\ visit'.entered = visit.entered
                               /\ visit'.mapped = visit.mapped
      BY <1>10, <2>5, <3>1, MessageEffect DEF m
    <3>3. v = visit => m.type \in {"enter", "position"}
      BY <2>1, <2>2, <2>5, <3>1, <3>2 DEF EnteredInv
    <3>4. visit'.mapped
      BY <2>1, <3>1, <3>2, <3>3 DEF EnteredInv
    <3>5. \A i \in 1..Len(toKwin') : toKwin'[i].window = visit'.window
            => toKwin'[i].type \in {"enter", "position"}
      BY <2>1, <2>2, <3>1, <3>2 DEF EnteredInv
    <3>6. ASSUME source.over = visit.window
          PROVE  \/ visit'.entered
                 \/ \E i \in 1..Len(toKwin') :
                      toKwin'[i].window = visit.window /\ toKwin'[i].type = "enter"
      <4>1. CASE visit.entered
        BY <3>2, <3>3, <4>1
      <4>2. CASE \E i \in 1..Len(toKwin) :
                   toKwin[i].window = visit.window /\ toKwin[i].type = "enter"
        <5>1. PICK i \in 1..Len(toKwin) :
                toKwin[i].window = visit.window /\ toKwin[i].type = "enter"
          BY <4>2
        <5>2. CASE i = 1
          BY <2>2, <2>5, <3>2, <5>1, <5>2
        <5>3. CASE i # 1
          BY <2>3, <5>1, <5>3
        <5>4. QED
          BY <5>2, <5>3
      <4>3. QED
        BY <2>1, <3>1, <3>2, <3>6, <4>1, <4>2 DEF EnteredInv
    <3>7. QED
      BY <2>1, <3>2, <3>4, <3>5, <3>6 DEF EnteredInv
  <2>6. QED
    BY <1>10, <2>4, <2>5, MessageTo DEF m
<1> QED
  BY <1>2, <1>3, <1>4, <1>5, <1>6, <1>7, <1>8, <1>9, <1>10 DEF Next, WlEvents

\* When nothing is under way the seat's drag target is the Wayland window under
\* the pointer, for any number of windows, visits and types: types offered in an
\* earlier visit, visits left before their types are known and late leaves do
\* not send the drop elsewhere (WlVisit::handleEnter, XToWlDrag::setOffers and
\* setDragTarget).
THEOREM DropGoesUnderPointer == Spec => []TargetUnderPointer
<1>1. Init => OfferInv /\ EnteredInv
  <2> SUFFICES ASSUME Init PROVE OfferInv /\ EnteredInv
    OBVIOUS
  <2>1. <<>> \in Seq({"offer", "performed"})
    OBVIOUS
  <2>2. QED
    BY <2>1 DEF Init, OfferInv, EnteredInv
<1>2. DropInv /\ OfferInv /\ EnteredInv => TargetUnderPointer
  <2> SUFFICES ASSUME DropInv, OfferInv, EnteredInv, phase = "current",
                      toKwin = <<>>, wl = <<>>, ~source.through,
                      source.over = Proxy
               PROVE  dragTarget = visit.target
    BY DEF TargetUnderPointer
  <2>1. pending = 0 /\ Len(toKwin) = 0
    BY DEF OfferInv
  <2>2. CASE visit = NoVisit
    BY <2>2 DEF OfferInv, NoVisit
  <2>3. CASE visit # NoVisit
    <3>1. visit.entered
      BY <2>1, <2>3 DEF EnteredInv, Proxy, Alive
    <3>2. QED
      BY <2>1, <2>3, <3>1 DEF OfferInv
  <2>4. QED
    BY <2>2, <2>3
<1> QED
  BY <1>1, <1>2, DropInvInit, DropInvStep, OfferInvStep, EnteredInvStep, PTL
     DEF Spec
=============================================================================
