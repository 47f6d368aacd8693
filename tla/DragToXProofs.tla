--------------------------- MODULE DragToXProofs ---------------------------
(***************************************************************************)
(* What the X clients under a drag are told: DropAtPointer, where a window *)
(* is entered again only when its client has answered.  A window is then   *)
(* in a session with the visit that entered it until the client has read   *)
(* the leave or finished the drop, and each session goes through stages:   *)
(* what is in the queue to the window, what is on its way back, and what   *)
(* the client believes belong together.                                    *)
(***************************************************************************)
EXTENDS DragToX, TLAPS

-----------------------------------------------------------------------------
(* What the operators on a visit return.                                   *)

\* The messages of drag d.
Enter(d) == [type |-> "enter", drag |-> d, pos |-> 0]
Position(d, p) == [type |-> "position", drag |-> d, pos |-> p]
LeaveOf(d) == [type |-> "leave", drag |-> d, pos |-> 0]
DropOf(d, p) == [type |-> "drop", drag |-> d, pos |-> p]

\* A visit with the messages it has sent.
IsPair(r) == r = [v |-> r.v, m |-> r.m] /\ r.v \in Visit

\* The visit u is v later on, and nothing of its state has changed but what it
\* knows of actions, and positions and their answers.
Same(u, v) == /\ u \in Visit /\ u.target = v.target /\ u.drag = v.drag
              /\ u.at = v.at /\ (u.entered <=> v.entered)
Still(u, v) == /\ Same(u, v)
               /\ u.dropped <=> v.dropped
               /\ u.finished <=> v.finished
               /\ u.connected <=> v.connected
Alike(u, v) == /\ Still(u, v) /\ u.cache = v.cache
               /\ u.pending <=> v.pending
               /\ u.accepts <=> v.accepts

\* The pair u is r after sending position p, or holding it back.
PositionSent(u, r, p) ==
  /\ IsPair(u) /\ Still(u.v, r.v)
  /\ u.v.accepts <=> r.v.accepts
  /\ u.v.pending
  /\ r.v.pending => u.v.cache = p /\ u.m = r.m
  /\ ~r.v.pending => /\ u.v.cache = r.v.cache
                     /\ u.m = Append(r.m, Position(r.v.drag, p))

\* Send appends one message.
LEMMA SendIs ==
  ASSUME NEW r, IsPair(r), NEW type, NEW p, NEW u, u = Send(r, type, p)
  PROVE  /\ IsPair(u) /\ u.v = r.v
         /\ u.m = Append(r.m, [type |-> type, drag |-> r.v.drag, pos |-> p])
BY DEF Send, IsPair

\* doFinish ends the visit and sends nothing.
LEMMA DoFinishIs ==
  ASSUME NEW r, IsPair(r), NEW u, u = DoFinish(r)
  PROVE  IsPair(u) /\ Same(u.v, r.v) /\ u.v.finished /\ u.m = r.m
BY DEF DoFinish, IsPair, Same, Visit

\* A visit that waits for a status, and one that was dropped.
LEMMA PendingIs ==
  ASSUME NEW r, IsPair(r), NEW s, s = [r EXCEPT !.v.pending = TRUE]
  PROVE  /\ IsPair(s) /\ Still(s.v, r.v) /\ s.v.pending
         /\ (s.v.accepts <=> r.v.accepts) /\ s.v.cache = r.v.cache /\ s.m = r.m
BY DEF IsPair, Still, Same, Visit

LEMMA DroppedIs ==
  ASSUME NEW r, IsPair(r), NEW d,
         d = [r EXCEPT !.v.dropped = TRUE, !.v.connected = FALSE]
  PROVE  /\ IsPair(d) /\ Same(d.v, r.v) /\ d.v.dropped /\ d.v.cache = r.v.cache
         /\ (d.v.finished <=> r.v.finished) /\ d.m = r.m
         /\ (d.v.pending <=> r.v.pending) /\ (d.v.accepts <=> r.v.accepts)
BY DEF IsPair, Same, Visit

\* sendPosition
LEMMA SendPositionIs ==
  ASSUME NEW r, IsPair(r), NEW p \in Nat, NEW u, u = SendPosition(r, p)
  PROVE  PositionSent(u, r, p)
<1>1. CASE r.v.pending
  BY <1>1 DEF SendPosition, PositionSent, IsPair, Still, Same, Visit
<1>2. CASE ~r.v.pending
  <2> DEFINE s == [r EXCEPT !.v.pending = TRUE]
  <2>1. /\ IsPair(s) /\ Still(s.v, r.v) /\ s.v.pending
        /\ (s.v.accepts <=> r.v.accepts) /\ s.v.cache = r.v.cache /\ s.m = r.m
    BY PendingIs
  <2>2. u = Send(s, "position", p)
    BY <1>2 DEF SendPosition
  <2> HIDE DEF s
  <2>3. /\ IsPair(u) /\ u.v = s.v
        /\ u.m = Append(s.m, [type |-> "position", drag |-> s.v.drag, pos |-> p])
    BY <2>1, <2>2, SendIs
  <2> QED
    BY <1>2, <2>1, <2>3 DEF PositionSent, Position, Still, Same
<1> QED
  BY <1>1, <1>2

\* determineProposedAction tells the client of a new action with a position.
LEMMA DetermineIs ==
  ASSUME NEW r, IsPair(r), pos \in Nat, NEW u, u = DetermineProposedAction(r)
  PROVE  u = r \/ PositionSent(u, r, pos)
<1> DEFINE a == IF \/ r.v.preferred \in r.v.supported
                   \/ r.v.preferred = None /\ r.v.supported = {}
                THEN r.v.preferred
                ELSE IF "copy" \in r.v.supported THEN "copy" ELSE None
           s == [r EXCEPT !.v.proposed = a]
<1>1. a \in Action \cup {None}
  BY DEF IsPair, Visit, Action
<1>2. u = r \/ u = SendPosition(s, pos)
  BY DEF DetermineProposedAction
<1> HIDE DEF a
<1>3. IsPair(s) /\ Alike(s.v, r.v) /\ s.m = r.m
  BY <1>1 DEF IsPair, Alike, Still, Same, Visit
<1> HIDE DEF s
<1>4. ASSUME u = SendPosition(s, pos) PROVE PositionSent(u, s, pos)
  BY <1>3, <1>4, SendPositionIs
<1> QED
  BY <1>2, <1>3, <1>4 DEF PositionSent, Alike, Still, Same

\* leave tells the client when it was entered.
LEMMA LeaveIs ==
  ASSUME NEW r, IsPair(r), NEW u, u = Leave(r)
  PROVE  /\ r.v.entered /\ ~r.v.finished => u.m = Append(r.m, LeaveOf(r.v.drag))
         /\ ~r.v.entered \/ r.v.finished => u.m = r.m
<1>1. CASE r.v.entered /\ ~r.v.finished
  <2> DEFINE s == Send(r, "leave", 0)
  <2>1. IsPair(s) /\ s.m = Append(r.m, LeaveOf(r.v.drag))
    BY SendIs DEF LeaveOf
  <2>2. u = DoFinish(s)
    BY <1>1 DEF Leave
  <2> HIDE DEF s
  <2> QED
    BY <1>1, <2>1, <2>2, DoFinishIs
<1>2. CASE ~r.v.entered /\ ~r.v.finished
  <2>1. u = DoFinish(r)
    BY <1>2 DEF Leave
  <2> QED
    BY <1>2, <2>1, DoFinishIs
<1>3. CASE r.v.finished
  BY <1>3 DEF Leave
<1> QED
  BY <1>1, <1>2, <1>3

\* What drop makes of a visit that has entered: it goes on waiting for a
\* status, leaves the client that has not accepted, or drops.
DropOutcome(u, r) ==
  /\ IsPair(u) /\ Same(u.v, r.v)
  /\ r.v.pending => /\ u.v.dropped /\ u.v.pending /\ u.v.cache = r.v.cache
                    /\ (u.v.finished <=> r.v.finished) /\ u.m = r.m
  /\ ~r.v.pending /\ ~r.v.accepts =>
       u.v.finished /\ u.m = Append(r.m, LeaveOf(r.v.drag))
  /\ ~r.v.pending /\ r.v.accepts =>
       /\ u.m = Append(r.m, DropOf(r.v.drag, r.v.at))
       /\ Version[r.v.target] < 2 => u.v.finished
       /\ ~(Version[r.v.target] < 2) =>
            u.v.dropped /\ ~u.v.pending /\ (u.v.finished <=> r.v.finished)

LEMMA DropIs ==
  ASSUME NEW r, IsPair(r), r.v.entered, NEW u, u = Drop(r)
  PROVE  DropOutcome(u, r)
<1> DEFINE d == [r EXCEPT !.v.dropped = TRUE, !.v.connected = FALSE]
<1>1. /\ IsPair(d) /\ Same(d.v, r.v) /\ d.v.dropped /\ d.v.cache = r.v.cache
      /\ (d.v.finished <=> r.v.finished) /\ d.m = r.m
      /\ (d.v.pending <=> r.v.pending) /\ (d.v.accepts <=> r.v.accepts)
  BY DroppedIs
<1>2. /\ d.v.pending => u = d
      /\ ~d.v.pending /\ ~d.v.accepts => u = DoFinish(Send(d, "leave", 0))
      /\ ~d.v.pending /\ d.v.accepts => u = SendDrop(d)
  <2>1. d.v.entered
    BY <1>1 DEF Same
  <2> QED
    BY <2>1 DEF Drop
<1> HIDE DEF d
<1>3. CASE d.v.pending
  BY <1>1, <1>2, <1>3 DEF DropOutcome
<1>4. CASE ~d.v.pending /\ ~d.v.accepts
  <2> DEFINE s == Send(d, "leave", 0)
  <2>1. IsPair(s) /\ s.v = d.v /\ s.m = Append(d.m, LeaveOf(d.v.drag))
    BY <1>1, SendIs DEF LeaveOf
  <2>2. u = DoFinish(s)
    BY <1>2, <1>4
  <2> HIDE DEF s
  <2>3. IsPair(u) /\ Same(u.v, s.v) /\ u.v.finished /\ u.m = s.m
    BY <2>1, <2>2, DoFinishIs
  <2> QED
    BY <1>1, <1>4, <2>1, <2>3 DEF DropOutcome, Same
<1>5. CASE ~d.v.pending /\ d.v.accepts
  <2> DEFINE s == Send(d, "drop", d.v.at)
  <2>1. IsPair(s) /\ s.v = d.v /\ s.m = Append(d.m, DropOf(d.v.drag, d.v.at))
    BY <1>1, SendIs DEF DropOf
  <2>2. u = IF Version[d.v.target] < 2 THEN DoFinish(s) ELSE s
    BY <1>2, <1>5 DEF SendDrop
  <2> HIDE DEF s
  <2>3. CASE Version[d.v.target] < 2
    <3>1. IsPair(u) /\ Same(u.v, s.v) /\ u.v.finished /\ u.m = s.m
      BY <2>1, <2>2, <2>3, DoFinishIs
    <3> QED
      BY <1>1, <1>5, <2>1, <2>3, <3>1 DEF DropOutcome, Same
  <2>4. CASE ~(Version[d.v.target] < 2)
    <3>1. u = s
      BY <2>2, <2>4
    <3> QED
      BY <1>1, <1>5, <2>1, <2>4, <3>1 DEF DropOutcome, Same
  <2> QED
    BY <2>3, <2>4
<1> QED
  BY <1>3, <1>4, <1>5

\* What handleStatus makes of a visit that was not dropped, p being the position
\* the client is to be told: it has nothing more to say, or it says p.
HoverOutcome(u, v, e, p) ==
  /\ IsPair(u) /\ Still(u.v, v)
  /\ \/ /\ ~u.v.pending /\ u.v.cache = None /\ v.cache = None
        /\ u.m = <<>> /\ (u.v.accepts <=> e.accepts)
     \/ /\ u.v.pending /\ u.v.cache \in {None, p}
        /\ u.m = <<Position(v.drag, p)>>

\* And of one that was dropped: a position that was held back comes first.
LateOutcome(u, v, e) ==
  /\ v.cache # None => /\ IsPair(u) /\ Still(u.v, v)
                       /\ u.v.pending /\ u.v.cache = None
                       /\ u.m = <<Position(v.drag, v.cache)>>
  /\ v.cache = None =>
       \E k : /\ IsPair(k) /\ Still(k.v, v) /\ ~k.v.pending /\ k.m = <<>>
              /\ (k.v.accepts <=> e.accepts) /\ DropOutcome(u, k)

\* The parts of handleStatus.
LEMMA KnownIs ==
  ASSUME NEW r, IsPair(r), NEW a \in BOOLEAN
  PROVE  LET s == [r EXCEPT !.v.accepts = a, !.v.pending = FALSE]
         IN /\ IsPair(s) /\ Still(s.v, r.v) /\ ~s.v.pending
            /\ (s.v.accepts <=> a) /\ s.v.cache = r.v.cache /\ s.m = r.m
<1> SUFFICES ASSUME NEW s, s = [r EXCEPT !.v.accepts = a, !.v.pending = FALSE]
             PROVE  /\ IsPair(s) /\ Still(s.v, r.v) /\ ~s.v.pending
                    /\ (s.v.accepts <=> a) /\ s.v.cache = r.v.cache /\ s.m = r.m
  BY Zenon
<1> QED
  BY DEF IsPair, Still, Same, Visit

LEMMA PreferredIs ==
  ASSUME NEW r, IsPair(r), NEW a \in Action \cup {None}, NEW s,
         s = [r EXCEPT !.v.preferred = a]
  PROVE  IsPair(s) /\ Alike(s.v, r.v) /\ s.m = r.m
BY DEF IsPair, Alike, Still, Same, Visit

LEMMA EmptiedIs ==
  ASSUME NEW r, IsPair(r)
  PROVE  LET s == [r EXCEPT !.v.cache = None]
         IN /\ IsPair(s) /\ Still(s.v, r.v) /\ s.v.cache = None
            /\ s.m = r.m /\ (s.v.pending <=> r.v.pending)
<1> SUFFICES ASSUME NEW s, s = [r EXCEPT !.v.cache = None]
             PROVE  /\ IsPair(s) /\ Still(s.v, r.v) /\ s.v.cache = None
                    /\ s.m = r.m /\ (s.v.pending <=> r.v.pending)
  BY Zenon
<1> QED
  BY DEF IsPair, Still, Same, Visit

\* handleStatus
LEMMA StatusIs ==
  ASSUME NEW v \in Visit, NEW e \in Reply, pos \in Nat, v.entered,
         NEW u, u = HandleStatus([v |-> v, m |-> <<>>], e)
  PROVE  /\ ~v.dropped /\ v.cache \in {None, pos} => HoverOutcome(u, v, e, pos)
         /\ v.dropped => LateOutcome(u, v, e)
<1> DEFINE r == [v |-> v, m |-> <<>>]
           known == [r EXCEPT !.v.accepts = e.accepts, !.v.pending = FALSE]
           asked == [known EXCEPT !.v.preferred = e.action]
           s == IF known.v.dropped THEN known ELSE DetermineProposedAction(asked)
           free == [s EXCEPT !.v.cache = None]
<1>1. e.accepts \in BOOLEAN /\ e.action \in Action \cup {None}
  BY DEF Reply
<1>2. IsPair(r) /\ r.v = v /\ r.m = <<>>
  BY DEF IsPair
<1>3. u = IF s.v.cache # None THEN SendPosition(free, s.v.cache)
          ELSE IF s.v.dropped THEN Drop(s) ELSE s
  BY DEF HandleStatus
<1> HIDE DEF r
<1>4. /\ IsPair(known) /\ Still(known.v, v) /\ ~known.v.pending
      /\ (known.v.accepts <=> e.accepts) /\ known.v.cache = v.cache
      /\ known.m = <<>>
  <2>1. /\ IsPair(known) /\ Still(known.v, r.v) /\ ~known.v.pending
        /\ (known.v.accepts <=> e.accepts) /\ known.v.cache = r.v.cache
        /\ known.m = r.m
    BY <1>1, <1>2, KnownIs, Zenon
  <2> QED
    BY <1>2, <2>1
<1> HIDE DEF known
<1>5. IsPair(asked) /\ Alike(asked.v, known.v) /\ asked.m = <<>>
  BY <1>1, <1>4, PreferredIs
<1> HIDE DEF asked
<1>6. CASE ~v.dropped
  <2> SUFFICES ASSUME v.cache \in {None, pos} PROVE HoverOutcome(u, v, e, pos)
    BY <1>6
  <2>1. s = DetermineProposedAction(asked)
    BY <1>4, <1>6 DEF Still
  <2>2. s = asked \/ PositionSent(s, asked, pos)
    BY <2>1, <1>5, DetermineIs
  <2>3. IsPair(s) /\ Still(s.v, v) /\ s.v.cache = v.cache
    BY <2>2, <1>4, <1>5 DEF PositionSent, Alike, Still, Same
  <2>4. \/ ~s.v.pending /\ s.m = <<>> /\ (s.v.accepts <=> e.accepts)
        \/ s.v.pending /\ s.m = <<Position(v.drag, pos)>>
    <3>1. CASE s = asked
      BY <3>1, <1>4, <1>5 DEF Alike
    <3>2. CASE PositionSent(s, asked, pos)
      <4>1. s.v.pending /\ s.m = Append(<<>>, Position(v.drag, pos))
        BY <3>2, <1>4, <1>5 DEF PositionSent, Alike, Still, Same
      <4> QED
        BY <4>1
    <3> QED
      BY <2>2, <3>1, <3>2
  <2> HIDE DEF s
  <2>5. CASE s.v.cache = None
    <3>1. u = s
      BY <1>3, <1>6, <2>3, <2>5 DEF Still
    <3> QED
      BY <3>1, <2>3, <2>4, <2>5 DEF HoverOutcome
  <2>6. CASE s.v.cache # None
    <3>1. u = SendPosition(free, pos)
      BY <1>3, <2>3, <2>6
    <3>2. /\ IsPair(free) /\ Still(free.v, s.v) /\ free.v.cache = None
          /\ free.m = s.m /\ (free.v.pending <=> s.v.pending)
      BY <2>3, EmptiedIs, Zenon
    <3> HIDE DEF free
    <3>3. PositionSent(u, free, pos)
      BY <3>1, <3>2, SendPositionIs
    <3>4. IsPair(u) /\ Still(u.v, v) /\ u.v.pending /\ u.v.cache \in {None, pos}
      BY <2>3, <3>2, <3>3 DEF PositionSent, Still, Same
    <3>5. u.m = <<Position(v.drag, pos)>>
      <4>1. CASE s.v.pending
        BY <4>1, <2>4, <3>2, <3>3 DEF PositionSent
      <4>2. CASE ~s.v.pending
        <5>1. u.m = Append(<<>>, Position(v.drag, pos))
          BY <4>2, <2>3, <2>4, <3>2, <3>3 DEF PositionSent, Still, Same
        <5> QED
          BY <5>1
      <4> QED
        BY <4>1, <4>2
    <3> QED
      BY <3>4, <3>5 DEF HoverOutcome
  <2> QED
    BY <2>5, <2>6
<1>7. CASE v.dropped
  <2>1. s = known
    BY <1>4, <1>7 DEF Still
  <2>2. CASE v.cache # None
    <3>1. v.cache \in Nat
      BY <2>2 DEF Visit
    <3>2. /\ IsPair(free) /\ Still(free.v, known.v) /\ free.v.cache = None
          /\ free.m = <<>> /\ ~free.v.pending
      <4> HIDE DEF s
      <4>1. /\ IsPair(free) /\ Still(free.v, s.v) /\ free.v.cache = None
            /\ free.m = s.m /\ (free.v.pending <=> s.v.pending)
        <5>1. IsPair(s)
          BY <1>4, <2>1
        <5> QED
          BY <5>1, EmptiedIs, Zenon
      <4> QED
        BY <1>4, <2>1, <4>1
    <3>3. u = SendPosition(free, v.cache)
      BY <1>3, <1>4, <2>1, <2>2
    <3> HIDE DEF free
    <3>4. PositionSent(u, free, v.cache)
      BY <3>1, <3>2, <3>3, SendPositionIs
    <3>5. u.m = Append(<<>>, Position(v.drag, v.cache))
      BY <1>4, <3>2, <3>4 DEF PositionSent, Still, Same
    <3>6. u.m = <<Position(v.drag, v.cache)>>
      BY <3>5
    <3> QED
      BY <1>4, <1>7, <2>2, <3>2, <3>4, <3>6 DEF LateOutcome, PositionSent, Still, Same
  <2>3. CASE v.cache = None
    <3>1. u = Drop(known)
      BY <1>3, <1>4, <1>7, <2>1, <2>3 DEF Still
    <3>2. known.v.entered
      BY <1>4 DEF Still, Same
    <3>3. DropOutcome(u, known)
      BY <1>4, <3>1, <3>2, DropIs
    <3> QED
      BY <1>4, <1>7, <2>3, <3>3 DEF LateOutcome
  <2> QED
    BY <1>7, <2>2, <2>3
<1> QED
  BY <1>6, <1>7

-----------------------------------------------------------------------------
(* The session of a window w: q is the queue to its client, t the client,  *)
(* f what clients have sent to KWin, v the visit and p the position that   *)
(* the client is to be told last.                                          *)

NoReply(f, w) == \A i \in 1..Len(f) : f[i].window # w

OneReply(f, w, type, accepts) ==
  \E i \in 1..Len(f) :
    /\ f[i].window = w /\ f[i].type = type /\ f[i].accepts = accepts
    /\ \A j \in 1..Len(f) : f[j].window = w => j = i

Quiet(q, t, f, w) == q = <<>> /\ NoReply(f, w) /\ t.over = 0 /\ t.busy = 0

\* The position p is held back, or nothing is and p is the position s.
Latest(v, s, p) == v.cache = p \/ (v.cache = None /\ s = p)

Entering(q, t, f, w, v, p) ==
  /\ v.pending /\ NoReply(f, w) /\ t.over = 0 /\ t.busy = 0
  /\ \E s \in Nat : q = <<Enter(v.drag), Position(v.drag, s)>> /\ Latest(v, s, p)

Asking(q, t, f, w, v, p) ==
  /\ v.pending /\ NoReply(f, w) /\ t.over = v.drag /\ t.busy = 0
  /\ \E s \in Nat : q = <<Position(v.drag, s)>> /\ Latest(v, s, p)

Replied(q, t, f, w, v, p) ==
  /\ v.pending /\ OneReply(f, w, "status", t.accepted)
  /\ t.over = v.drag /\ t.busy = 0 /\ q = <<>> /\ Latest(v, t.told, p)

Settled(q, t, f, w, v, p) ==
  /\ ~v.pending /\ ~v.dropped /\ v.cache = None /\ NoReply(f, w)
  /\ t.over = v.drag /\ t.busy = 0 /\ q = <<>>
  /\ t.told = p /\ (t.accepted <=> v.accepts)

Dropping(q, t, f, w, v, p) ==
  /\ ~v.pending /\ v.dropped /\ NoReply(f, w) /\ ~(Version[w] < 2)
  /\ t.over = v.drag /\ t.busy = 0 /\ q = <<DropOf(v.drag, p)>>
  /\ t.told = p /\ t.accepted

Finishing(q, t, f, w, v) ==
  /\ ~v.pending /\ v.dropped /\ q = <<>> /\ t.over = 0
  /\ \/ t.busy # 0 /\ NoReply(f, w)
     \/ t.busy = 0 /\ OneReply(f, w, "finished", TRUE)

Session(q, t, f, w, v, p) ==
  \/ Entering(q, t, f, w, v, p) \/ Asking(q, t, f, w, v, p)
  \/ Replied(q, t, f, w, v, p) \/ Settled(q, t, f, w, v, p)
  \/ Dropping(q, t, f, w, v, p) \/ Finishing(q, t, f, w, v)

\* No visit waits for the client any more.
LateReply(f, w) ==
  NoReply(f, w) \/ \E a \in BOOLEAN : OneReply(f, w, "status", a)

Gone(q, t, f, w) ==
  /\ t.busy = 0
  /\ \/ q = <<>> /\ t.over = 0 /\ LateReply(f, w)
     \/ \E d \in Drag :
          \/ q = <<LeaveOf(d)>> /\ t.over = d /\ LateReply(f, w)
          \/ /\ NoReply(f, w) /\ t.over = 0
             /\ \E s \in Nat : q = <<Enter(d), Position(d, s), LeaveOf(d)>>
          \/ /\ NoReply(f, w) /\ t.over = d
             /\ \E s \in Nat : q = <<Position(d, s), LeaveOf(d)>>
          \/ /\ NoReply(f, w) /\ t.over = d /\ Version[w] < 2
             /\ q = <<DropOf(d, t.told)>> /\ t.accepted

-----------------------------------------------------------------------------
(* Replies that come and go.                                               *)

\* The same replies of w are in f and in g.
SameReplies(f, g, w) ==
  /\ NoReply(f, w) <=> NoReply(g, w)
  /\ \A type, a : OneReply(f, w, type, a) <=> OneReply(g, w, type, a)

LEMMA AppendReply ==
  ASSUME NEW f \in Seq(Reply), NEW e \in Reply, NEW g, g = Append(f, e), NEW w
  PROVE  /\ e.window # w => SameReplies(f, g, w)
         /\ e.window = w /\ NoReply(f, w) => OneReply(g, w, e.type, e.accepts)
<1>1. /\ Len(g) = Len(f) + 1 /\ g[Len(g)] = e /\ Len(f) \in Nat
      /\ \A i \in 1..Len(f) : g[i] = f[i]
  OBVIOUS
<1>2. ASSUME e.window # w PROVE SameReplies(f, g, w)
  <2>1. NoReply(f, w) <=> NoReply(g, w)
    BY <1>1, <1>2 DEF NoReply
  <2>2. ASSUME NEW type, NEW a, OneReply(f, w, type, a)
        PROVE  OneReply(g, w, type, a)
    BY <1>1, <1>2, <2>2 DEF OneReply
  <2>3. ASSUME NEW type, NEW a, OneReply(g, w, type, a)
        PROVE  OneReply(f, w, type, a)
    <3>1. PICK i \in 1..Len(g) :
            /\ g[i].window = w /\ g[i].type = type /\ g[i].accepts = a
            /\ \A j \in 1..Len(g) : g[j].window = w => j = i
      BY <2>3 DEF OneReply
    <3>2. i \in 1..Len(f)
      BY <1>1, <1>2, <3>1
    <3> QED
      BY <1>1, <3>1, <3>2 DEF OneReply
  <2> QED
    BY <2>1, <2>2, <2>3 DEF SameReplies
<1>3. ASSUME e.window = w, NoReply(f, w) PROVE OneReply(g, w, e.type, e.accepts)
  BY <1>1, <1>3 DEF NoReply, OneReply
<1> QED
  BY <1>2, <1>3

LEMMA TailReply ==
  ASSUME NEW f \in Seq(Reply), f # <<>>, NEW e, e = Head(f),
         NEW g, g = Tail(f), NEW w
  PROVE  /\ e.window # w => SameReplies(f, g, w)
         /\ e.window = w => ~NoReply(f, w)
<1>1. /\ Len(g) = Len(f) - 1 /\ f[1] = e /\ Len(f) \in Nat /\ Len(f) > 0
      /\ \A i \in 1..Len(g) : g[i] = f[i + 1]
  OBVIOUS
<1>2. \A i \in 2..Len(f) : i - 1 \in 1..Len(g) /\ f[i] = g[i - 1]
  <2> SUFFICES ASSUME NEW i \in 2..Len(f)
               PROVE  i - 1 \in 1..Len(g) /\ f[i] = g[i - 1]
    OBVIOUS
  <2>1. i - 1 \in 1..Len(g) /\ (i - 1) + 1 = i
    BY <1>1
  <2> QED
    BY <1>1, <2>1
<1>3. ASSUME e.window # w PROVE SameReplies(f, g, w)
  <2>1. NoReply(f, w) <=> NoReply(g, w)
    <3>1. ASSUME NoReply(f, w) PROVE NoReply(g, w)
      BY <1>1, <3>1 DEF NoReply
    <3>2. ASSUME NoReply(g, w), NEW i \in 1..Len(f) PROVE f[i].window # w
      <4>1. CASE i = 1
        BY <1>1, <1>3, <4>1
      <4>2. CASE i \in 2..Len(f)
        BY <1>2, <3>2, <4>2 DEF NoReply
      <4> QED
        BY <1>1, <4>1, <4>2
    <3> QED
      BY <3>1, <3>2 DEF NoReply
  <2>2. ASSUME NEW type, NEW a, OneReply(f, w, type, a)
        PROVE  OneReply(g, w, type, a)
    <3>1. PICK i \in 1..Len(f) :
            /\ f[i].window = w /\ f[i].type = type /\ f[i].accepts = a
            /\ \A j \in 1..Len(f) : f[j].window = w => j = i
      BY <2>2 DEF OneReply
    <3>2. i \in 2..Len(f)
      BY <1>1, <1>3, <3>1
    <3>3. i - 1 \in 1..Len(g) /\ g[i - 1] = f[i]
      BY <1>2, <3>2
    <3>4. \A j \in 1..Len(g) : g[j].window = w => j = i - 1
      BY <1>1, <3>1
    <3> QED
      BY <3>1, <3>3, <3>4 DEF OneReply
  <2>3. ASSUME NEW type, NEW a, OneReply(g, w, type, a)
        PROVE  OneReply(f, w, type, a)
    <3>1. PICK i \in 1..Len(g) :
            /\ g[i].window = w /\ g[i].type = type /\ g[i].accepts = a
            /\ \A j \in 1..Len(g) : g[j].window = w => j = i
      BY <2>3 DEF OneReply
    <3>2. i + 1 \in 1..Len(f) /\ f[i + 1] = g[i]
      BY <1>1
    <3>3. ASSUME NEW j \in 1..Len(f), f[j].window = w PROVE j = i + 1
      <4>1. j \in 2..Len(f)
        BY <1>1, <1>3, <3>3
      <4>2. j - 1 = i
        BY <1>2, <3>1, <3>3, <4>1
      <4> QED
        BY <4>1, <4>2
    <3> QED
      BY <3>1, <3>2, <3>3 DEF OneReply
  <2> QED
    BY <2>1, <2>2, <2>3 DEF SameReplies
<1>4. ASSUME e.window = w PROVE ~NoReply(f, w)
  BY <1>1, <1>4 DEF NoReply
<1> QED
  BY <1>3, <1>4

\* The only reply of w is taken.
LEMMA TailTakes ==
  ASSUME NEW f \in Seq(Reply), f # <<>>, NEW e, e = Head(f),
         NEW g, g = Tail(f), NEW w, e.window = w,
         NEW type, NEW a, OneReply(f, w, type, a)
  PROVE  NoReply(g, w) /\ e.type = type /\ e.accepts = a
<1>1. /\ Len(g) = Len(f) - 1 /\ f[1] = e /\ Len(f) \in Nat /\ Len(f) > 0
      /\ \A i \in 1..Len(g) : g[i] = f[i + 1]
  OBVIOUS
<1>2. PICK i \in 1..Len(f) :
        /\ f[i].window = w /\ f[i].type = type /\ f[i].accepts = a
        /\ \A j \in 1..Len(f) : f[j].window = w => j = i
  BY DEF OneReply
<1>3. i = 1
  BY <1>1, <1>2
<1>4. NoReply(g, w)
  BY <1>1, <1>2, <1>3 DEF NoReply
<1> QED
  BY <1>1, <1>2, <1>3, <1>4

\* Sessions depend on the replies of their own window only.
LEMMA RepliesKeep ==
  ASSUME NEW f, NEW g, NEW w, SameReplies(f, g, w), NEW q, NEW t
  PROVE  /\ Quiet(q, t, f, w) => Quiet(q, t, g, w)
         /\ Gone(q, t, f, w) => Gone(q, t, g, w)
         /\ \A v, p : Session(q, t, f, w, v, p) => Session(q, t, g, w, v, p)
<1>1. Quiet(q, t, f, w) => Quiet(q, t, g, w)
  BY DEF SameReplies, Quiet
<1>2. LateReply(f, w) => LateReply(g, w)
  BY DEF SameReplies, LateReply
<1>3. Gone(q, t, f, w) => Gone(q, t, g, w)
  BY <1>2 DEF SameReplies, Gone
<1>4. ASSUME NEW v, NEW p, Session(q, t, f, w, v, p)
      PROVE  Session(q, t, g, w, v, p)
  BY <1>4 DEF SameReplies, Session, Entering, Asking, Replied, Settled, Dropping,
     Finishing
<1> QED
  BY <1>1, <1>3, <1>4

-----------------------------------------------------------------------------
(* What the client does.                                                   *)

\* The types of queues and clients.
Client == [over : Drag \cup {0}, told : Nat, accepted : BOOLEAN,
           busy : Drag \cup {0}]

LEMMA ShortQueues ==
  ASSUME NEW a, NEW b, NEW c
  PROVE  /\ Head(<<a>>) = a /\ Tail(<<a>>) = <<>> /\ <<a>> # <<>>
         /\ Head(<<a, b>>) = a /\ Tail(<<a, b>>) = <<b>> /\ <<a, b>> # <<>>
         /\ Head(<<a, b, c>>) = a /\ Tail(<<a, b, c>>) = <<b, c>>
         /\ <<a, b, c>> # <<>>
OBVIOUS

\* The stage of a session shows in its queue.
LEMMA StageHeads ==
  ASSUME NEW q, NEW t, NEW f, NEW w, NEW v, NEW p
  PROVE  /\ Entering(q, t, f, w, v, p) => Head(q).type = "enter"
         /\ Asking(q, t, f, w, v, p) => Head(q).type = "position"
         /\ Dropping(q, t, f, w, v, p) => Head(q).type = "drop"
         /\ \/ Replied(q, t, f, w, v, p) \/ Settled(q, t, f, w, v, p)
            \/ Finishing(q, t, f, w, v)
            => q = <<>>
<1>1. Entering(q, t, f, w, v, p) => Head(q).type = "enter"
  BY DEF Entering, Enter
<1>2. Asking(q, t, f, w, v, p) => Head(q).type = "position"
  BY DEF Asking, Position
<1>3. Dropping(q, t, f, w, v, p) => Head(q).type = "drop"
  BY DEF Dropping, DropOf
<1> QED
  BY <1>1, <1>2, <1>3 DEF Replied, Settled, Finishing

LEMMA ClientEnters ==
  ASSUME NEW q, NEW t \in Client, NEW f, NEW w, q # <<>>,
         Head(q).type = "enter", t.busy = 0,
         NEW s, s = [t EXCEPT !.over = Head(q).drag]
  PROVE  /\ ~Quiet(q, t, f, w)
         /\ Gone(q, t, f, w) => Gone(Tail(q), s, f, w)
         /\ \A v, p : Session(q, t, f, w, v, p) => Session(Tail(q), s, f, w, v, p)
<1> USE DEF Enter, Position, LeaveOf, DropOf
<1>1. /\ s.told = t.told /\ s.busy = 0 /\ s.over = Head(q).drag
      /\ (s.accepted <=> t.accepted)
  BY DEF Client
<1>2. ASSUME Gone(q, t, f, w) PROVE Gone(Tail(q), s, f, w)
  <2>1. PICK d \in Drag :
          /\ NoReply(f, w)
          /\ \E n \in Nat : q = <<Enter(d), Position(d, n), LeaveOf(d)>>
    BY <1>2, ShortQueues DEF Gone
  <2>2. PICK n \in Nat : q = <<Enter(d), Position(d, n), LeaveOf(d)>>
    BY <2>1
  <2>3. Head(q).drag = d /\ Tail(q) = <<Position(d, n), LeaveOf(d)>>
    BY <2>2
  <2> QED
    BY <1>1, <2>1, <2>3 DEF Gone
<1>3. ASSUME NEW v, NEW p, Session(q, t, f, w, v, p)
      PROVE  Session(Tail(q), s, f, w, v, p)
  <2>1. Entering(q, t, f, w, v, p)
    BY <1>3, StageHeads DEF Session
  <2>2. PICK n \in Nat :
          q = <<Enter(v.drag), Position(v.drag, n)>> /\ Latest(v, n, p)
    BY <2>1 DEF Entering
  <2>3. Head(q).drag = v.drag /\ Tail(q) = <<Position(v.drag, n)>>
    BY <2>2
  <2>4. Asking(Tail(q), s, f, w, v, p)
    BY <1>1, <2>1, <2>2, <2>3 DEF Entering, Asking
  <2> QED
    BY <2>4 DEF Session
<1> QED
  BY <1>2, <1>3 DEF Quiet

LEMMA ClientAnswers ==
  ASSUME NEW q, NEW t \in Client, NEW f, NEW w, q # <<>>,
         Head(q).type = "position", t.busy = 0,
         NEW a \in BOOLEAN, NEW s, NEW g,
         s = [t EXCEPT !.told = Head(q).pos, !.accepted = a],
         NoReply(f, w) => OneReply(g, w, "status", a)
  PROVE  /\ ~Quiet(q, t, f, w)
         /\ Gone(q, t, f, w) => NoReply(f, w) /\ Gone(Tail(q), s, g, w)
         /\ \A v, p : Session(q, t, f, w, v, p) =>
              NoReply(f, w) /\ Session(Tail(q), s, g, w, v, p)
<1> USE DEF Enter, Position, LeaveOf, DropOf
<1>1. /\ s.told = Head(q).pos /\ s.busy = 0 /\ s.over = t.over
      /\ s.accepted = a
  BY DEF Client
<1>2. ASSUME Gone(q, t, f, w) PROVE NoReply(f, w) /\ Gone(Tail(q), s, g, w)
  <2>1. PICK d \in Drag :
          /\ NoReply(f, w) /\ t.over = d
          /\ \E n \in Nat : q = <<Position(d, n), LeaveOf(d)>>
    BY <1>2, ShortQueues DEF Gone
  <2>2. Tail(q) = <<LeaveOf(d)>>
    BY <2>1
  <2>3. LateReply(g, w)
    BY <2>1 DEF LateReply
  <2> QED
    BY <1>1, <2>1, <2>2, <2>3 DEF Gone
<1>3. ASSUME NEW v, NEW p, Session(q, t, f, w, v, p)
      PROVE  NoReply(f, w) /\ Session(Tail(q), s, g, w, v, p)
  <2>1. Asking(q, t, f, w, v, p)
    BY <1>3, StageHeads DEF Session
  <2>2. PICK n \in Nat : q = <<Position(v.drag, n)>> /\ Latest(v, n, p)
    BY <2>1 DEF Asking
  <2>3. Head(q).pos = n /\ Tail(q) = <<>>
    BY <2>2
  <2>4. OneReply(g, w, "status", s.accepted)
    BY <1>1, <2>1 DEF Asking, OneReply
  <2>5. Replied(Tail(q), s, g, w, v, p)
    BY <1>1, <2>1, <2>2, <2>3, <2>4 DEF Asking, Replied
  <2> QED
    BY <2>1, <2>5 DEF Session, Asking
<1> QED
  BY <1>2, <1>3 DEF Quiet

LEMMA ClientLeaves ==
  ASSUME NEW q, NEW t \in Client, NEW f, NEW w, q # <<>>,
         Head(q).type = "leave", t.busy = 0,
         NEW s, s = [t EXCEPT !.over = 0, !.told = 0, !.accepted = FALSE]
  PROVE  /\ ~Quiet(q, t, f, w)
         /\ Gone(q, t, f, w) => Gone(Tail(q), s, f, w)
         /\ \A v, p : ~Session(q, t, f, w, v, p)
<1> USE DEF Enter, Position, LeaveOf, DropOf
<1>1. s.busy = 0 /\ s.over = 0
  BY DEF Client
<1>2. ASSUME Gone(q, t, f, w) PROVE Gone(Tail(q), s, f, w)
  <2>1. PICK d \in Drag : q = <<LeaveOf(d)>> /\ LateReply(f, w)
    BY <1>2, ShortQueues DEF Gone
  <2>2. Tail(q) = <<>>
    BY <2>1
  <2> QED
    BY <1>1, <2>1, <2>2 DEF Gone
<1>3. ASSUME NEW v, NEW p PROVE ~Session(q, t, f, w, v, p)
  BY StageHeads DEF Session
<1> QED
  BY <1>2, <1>3 DEF Quiet

LEMMA ClientDrops ==
  ASSUME NEW q \in Seq(Message), NEW t \in Client, NEW f, NEW w, q # <<>>,
         Head(q).type = "drop", t.busy = 0,
         NEW s, s = [t EXCEPT !.over = 0, !.told = 0, !.accepted = FALSE,
                       !.busy = IF Version[w] < 2 THEN 0 ELSE Head(q).drag]
  PROVE  /\ ~Quiet(q, t, f, w)
         /\ Gone(q, t, f, w) => Gone(Tail(q), s, f, w)
         /\ \A v, p : Session(q, t, f, w, v, p) => Session(Tail(q), s, f, w, v, p)
<1> USE DEF Enter, Position, LeaveOf, DropOf
<1>1. /\ s.over = 0
      /\ Version[w] < 2 => s.busy = 0
      /\ ~(Version[w] < 2) => s.busy = Head(q).drag
  BY DEF Client
<1>2. ASSUME Gone(q, t, f, w) PROVE Gone(Tail(q), s, f, w)
  <2>1. PICK d \in Drag : /\ NoReply(f, w) /\ Version[w] < 2
                          /\ q = <<DropOf(d, t.told)>>
    BY <1>2, ShortQueues DEF Gone
  <2>2. Tail(q) = <<>>
    BY <2>1
  <2> QED
    BY <1>1, <2>1, <2>2 DEF Gone, LateReply
<1>3. ASSUME NEW v, NEW p, Session(q, t, f, w, v, p)
      PROVE  Session(Tail(q), s, f, w, v, p)
  <2>1. Dropping(q, t, f, w, v, p)
    BY <1>3, StageHeads DEF Session
  <2>2. Tail(q) = <<>>
    BY <2>1 DEF Dropping
  <2>3. Head(q) \in Message
    OBVIOUS
  <2>4. Head(q).drag # 0
    BY <2>3 DEF Message, Drag
  <2>5. Finishing(Tail(q), s, f, w, v)
    BY <1>1, <2>1, <2>2, <2>4 DEF Dropping, Finishing
  <2> QED
    BY <2>5 DEF Session
<1> QED
  BY <1>2, <1>3 DEF Quiet

LEMMA ClientFinishes ==
  ASSUME NEW q, NEW t \in Client, NEW f, NEW w, t.busy # 0,
         NEW s, NEW g, s.over = t.over, s.busy = 0,
         NoReply(f, w) => OneReply(g, w, "finished", TRUE)
  PROVE  /\ ~Quiet(q, t, f, w) /\ ~Gone(q, t, f, w)
         /\ \A v, p : Session(q, t, f, w, v, p) =>
              NoReply(f, w) /\ Session(q, s, g, w, v, p)
<1>1. s.over = t.over /\ s.busy = 0
  OBVIOUS
<1>2. ASSUME NEW v, NEW p, Session(q, t, f, w, v, p)
      PROVE  NoReply(f, w) /\ Session(q, s, g, w, v, p)
  <2>1. Finishing(q, t, f, w, v)
    BY <1>2 DEF Session, Entering, Asking, Replied, Settled, Dropping
  <2>2. NoReply(f, w) /\ Finishing(q, s, g, w, v)
    BY <1>1, <2>1 DEF Finishing
  <2> QED
    BY <2>2 DEF Session
<1> QED
  BY <1>2 DEF Quiet, Gone

-----------------------------------------------------------------------------
(* What KWin does.                                                         *)

LEMMA ShortSequences ==
  ASSUME NEW S, NEW s \in Seq(S)
  PROVE  /\ Len(s) = 2 => s = <<s[1], s[2]>>
         /\ Len(s) = 3 => s = <<s[1], s[2], s[3]>>
OBVIOUS

LEMMA ShortAppends ==
  ASSUME NEW a, NEW b, NEW c
  PROVE  /\ Append(<<>>, a) = <<a>> /\ Append(<<a>>, b) = <<a, b>>
         /\ <<>> \o <<>> = <<>> /\ <<>> \o <<a>> = <<a>>
         /\ <<>> \o <<a, b>> = <<a, b>> /\ <<a>> \o <<>> = <<a>>
         /\ <<a>> \o <<b>> = <<a, b>> /\ <<a, b>> \o <<>> = <<a, b>>
         /\ <<a, b>> \o <<c>> = <<a, b, c>>
<1> DEFINE S == {a, b, c}
<1>1. <<a>> \in Seq(S) /\ <<b>> \in Seq(S) /\ <<c>> \in Seq(S) /\ <<a, b>> \in Seq(S)
  OBVIOUS
<1>2. Append(<<a>>, b) = <<a, b>>
  <2> DEFINE s == Append(<<a>>, b)
  <2>1. s \in Seq(S) /\ Len(s) = 2 /\ s[1] = a /\ s[2] = b
    BY <1>1
  <2> HIDE DEF s, S
  <2>2. s = <<s[1], s[2]>>
    BY <2>1, ShortSequences
  <2> QED
    BY <2>1, <2>2, Zenon DEF s
<1>3. <<a>> \o <<b>> = <<a, b>>
  <2> DEFINE s == <<a>> \o <<b>>
  <2>1. s \in Seq(S) /\ Len(s) = 2 /\ s[1] = a /\ s[2] = b
    BY <1>1
  <2> HIDE DEF s, S
  <2>2. s = <<s[1], s[2]>>
    BY <2>1, ShortSequences
  <2> QED
    BY <2>1, <2>2, Zenon DEF s
<1>4. <<a, b>> \o <<c>> = <<a, b, c>>
  <2> DEFINE s == <<a, b>> \o <<c>>
  <2>1. s \in Seq(S) /\ Len(s) = 3 /\ s[1] = a /\ s[2] = b /\ s[3] = c
    BY <1>1
  <2> HIDE DEF s, S
  <2>2. s = <<s[1], s[2], s[3]>>
    BY <2>1, ShortSequences
  <2> QED
    BY <2>1, <2>2, Zenon DEF s
<1>5. <<>> \o <<>> = <<>> /\ <<>> \o <<a>> = <<a>> /\ <<a>> \o <<>> = <<a>>
  OBVIOUS
<1>6. <<>> \o <<a, b>> = <<a, b>> /\ <<a, b>> \o <<>> = <<a, b>>
  OBVIOUS
<1>7. Append(<<>>, a) = <<a>>
  OBVIOUS
<1> QED
  BY <1>2, <1>3, <1>4, <1>5, <1>6, <1>7

\* While a visit hovers it waits for a status, or is settled.
LEMMA HoverStages ==
  ASSUME NEW q, NEW t, NEW f, NEW w, NEW v, NEW p,
         Session(q, t, f, w, v, p), ~v.dropped
  PROVE  IF v.pending
         THEN \/ Entering(q, t, f, w, v, p) \/ Asking(q, t, f, w, v, p)
              \/ Replied(q, t, f, w, v, p)
         ELSE Settled(q, t, f, w, v, p)
BY DEF Session, Entering, Asking, Replied, Settled, Dropping, Finishing

\* The pointer has moved to n, or the proposed action is told at n.
LEMMA PositionKeepsSession ==
  ASSUME NEW q, NEW t, NEW f, NEW w, NEW v \in Visit, NEW p, NEW n \in Nat,
         Session(q, t, f, w, v, p), ~v.dropped,
         NEW r, r.v = v, r.m = <<>>, NEW u, PositionSent(u, r, n)
  PROVE  Session(q \o u.m, t, f, w, u.v, n)
<1>1. u.v.pending /\ u.v.drag = v.drag
  BY DEF PositionSent, Still, Same
<1>2. CASE v.pending
  <2>1. u.m = <<>> /\ u.v.cache = n
    BY <1>2 DEF PositionSent
  <2>2. CASE Entering(q, t, f, w, v, p)
    <3>1. PICK s \in Nat : q = <<Enter(v.drag), Position(v.drag, s)>>
      BY <2>2 DEF Entering
    <3>2. q \o u.m = q
      BY <2>1, <3>1, ShortAppends
    <3>3. Entering(q, t, f, w, u.v, n)
      BY <1>1, <2>1, <2>2, <3>1 DEF Entering, Latest
    <3> QED
      BY <3>2, <3>3 DEF Session
  <2>3. CASE Asking(q, t, f, w, v, p)
    <3>1. PICK s \in Nat : q = <<Position(v.drag, s)>>
      BY <2>3 DEF Asking
    <3>2. q \o u.m = q
      BY <2>1, <3>1, ShortAppends
    <3>3. Asking(q, t, f, w, u.v, n)
      BY <1>1, <2>1, <2>3, <3>1 DEF Asking, Latest
    <3> QED
      BY <3>2, <3>3 DEF Session
  <2>4. CASE Replied(q, t, f, w, v, p)
    <3>1. q \o u.m = q
      BY <2>1, <2>4, ShortAppends DEF Replied
    <3>2. Replied(q, t, f, w, u.v, n)
      BY <1>1, <2>1, <2>4 DEF Replied, Latest
    <3> QED
      BY <3>1, <3>2 DEF Session
  <2> QED
    BY <1>2, <2>2, <2>3, <2>4, HoverStages
<1>3. CASE ~v.pending
  <2>1. Settled(q, t, f, w, v, p)
    BY <1>3, HoverStages
  <2>2. u.v.cache = None /\ u.m = <<Position(v.drag, n)>>
    BY <1>3, <2>1, ShortAppends DEF PositionSent, Settled
  <2>3. q \o u.m = <<Position(v.drag, n)>>
    BY <2>1, <2>2, ShortAppends DEF Settled
  <2>4. Asking(q \o u.m, t, f, w, u.v, n)
    BY <1>1, <2>1, <2>2, <2>3 DEF Settled, Asking, Latest
  <2> QED
    BY <2>4 DEF Session
<1> QED
  BY <1>2, <1>3

\* The pointer leaves: a last position may go before the leave.
LEMMA LeaveEndsSession ==
  ASSUME NEW q, NEW t \in Client, NEW f, NEW w, NEW v \in Visit, NEW p, NEW n \in Nat,
         Session(q, t, f, w, v, p), ~v.dropped, NEW m,
         v.pending => m = <<LeaveOf(v.drag)>>,
         ~v.pending => m = <<Position(v.drag, n), LeaveOf(v.drag)>>
  PROVE  Gone(q \o m, t, f, w)
<1>1. v.drag \in Drag
  BY DEF Visit
<1>2. CASE Entering(q, t, f, w, v, p)
  <2>1. PICK s \in Nat : q = <<Enter(v.drag), Position(v.drag, s)>>
    BY <1>2 DEF Entering
  <2>2. q \o m = <<Enter(v.drag), Position(v.drag, s), LeaveOf(v.drag)>>
    <3>1. m = <<LeaveOf(v.drag)>>
      BY <1>2 DEF Entering
    <3> QED
      BY <2>1, <3>1, ShortAppends
  <2> QED
    BY <1>1, <1>2, <2>2 DEF Gone, Entering
<1>3. CASE Asking(q, t, f, w, v, p)
  <2>1. PICK s \in Nat : q = <<Position(v.drag, s)>>
    BY <1>3 DEF Asking
  <2>2. q \o m = <<Position(v.drag, s), LeaveOf(v.drag)>>
    <3>1. m = <<LeaveOf(v.drag)>>
      BY <1>3 DEF Asking
    <3> QED
      BY <2>1, <3>1, ShortAppends
  <2> QED
    BY <1>1, <1>3, <2>2 DEF Gone, Asking
<1>4. CASE Replied(q, t, f, w, v, p)
  <2>1. q \o m = <<LeaveOf(v.drag)>>
    BY <1>4, ShortAppends DEF Replied
  <2>2. LateReply(f, w)
    BY <1>4 DEF Replied, LateReply, Client
  <2> QED
    BY <1>1, <1>4, <2>1, <2>2 DEF Gone, Replied
<1>5. CASE Settled(q, t, f, w, v, p)
  <2>1. q \o m = <<Position(v.drag, n), LeaveOf(v.drag)>>
    BY <1>5, ShortAppends DEF Settled
  <2> QED
    BY <1>1, <1>5, <2>1 DEF Gone, Settled
<1> QED
  BY <1>2, <1>3, <1>4, <1>5, HoverStages

\* The client has answered the last position, which is that of the drop.
Standing(q, t, f, w, v, p) ==
  /\ NoReply(f, w) /\ t.over = v.drag /\ t.busy = 0 /\ q = <<>>
  /\ t.told = p /\ (t.accepted <=> v.accepts)

\* A visit that is over leaves the window, any other one keeps its session.
Goes(q, t, f, w, v, p) ==
  IF v.finished THEN Gone(q, t, f, w) ELSE Session(q, t, f, w, v, p)

LEMMA DropWhenStanding ==
  ASSUME NEW q, NEW t, NEW f, NEW w, NEW p, NEW r, IsPair(r), r.m = <<>>,
         ~r.v.pending, ~r.v.finished, r.v.target = w, r.v.at = p,
         Standing(q, t, f, w, r.v, p), NEW u, DropOutcome(u, r)
  PROVE  Goes(q \o u.m, t, f, w, u.v, p)
<1>1. r.v.drag \in Drag /\ u.v.drag = r.v.drag
  BY DEF IsPair, Visit, DropOutcome, Same
<1>2. CASE ~r.v.accepts
  <2>1. u.v.finished /\ u.m = <<LeaveOf(r.v.drag)>>
    BY <1>2, ShortAppends DEF DropOutcome
  <2>2. q \o u.m = <<LeaveOf(r.v.drag)>>
    BY <2>1, ShortAppends DEF Standing
  <2> QED
    BY <1>1, <2>1, <2>2 DEF Goes, Gone, Standing, LateReply
<1>3. CASE r.v.accepts
  <2>1. u.m = <<DropOf(r.v.drag, p)>>
    BY <1>3, ShortAppends DEF DropOutcome
  <2>2. q \o u.m = <<DropOf(r.v.drag, p)>> /\ t.accepted /\ t.told = p
    BY <1>3, <2>1, ShortAppends DEF Standing
  <2>3. CASE Version[w] < 2
    <3>1. u.v.finished
      BY <1>3, <2>3 DEF DropOutcome
    <3> QED
      BY <1>1, <2>2, <2>3, <3>1 DEF Goes, Gone, Standing
  <2>4. CASE ~(Version[w] < 2)
    <3>1. u.v.dropped /\ ~u.v.pending /\ ~u.v.finished
      BY <1>3, <2>4 DEF DropOutcome
    <3>2. Dropping(q \o u.m, t, f, w, u.v, p)
      BY <1>1, <2>2, <2>4, <3>1 DEF Dropping, Standing
    <3> QED
      BY <3>1, <3>2 DEF Goes, Session
  <2> QED
    BY <2>3, <2>4
<1> QED
  BY <1>2, <1>3

\* drop
LEMMA DropKeepsSession ==
  ASSUME NEW q, NEW t, NEW f, NEW w, NEW p, NEW r, IsPair(r), r.m = <<>>,
         ~r.v.dropped, ~r.v.finished, r.v.target = w, r.v.at = p,
         Session(q, t, f, w, r.v, p), NEW u, DropOutcome(u, r)
  PROVE  Goes(q \o u.m, t, f, w, u.v, p)
<1>1. CASE r.v.pending
  <2>1. /\ u.m = <<>> /\ u.v.pending /\ u.v.cache = r.v.cache /\ ~u.v.finished
        /\ u.v.drag = r.v.drag
    BY <1>1 DEF DropOutcome, Same
  <2>2. Session(q, t, f, w, u.v, p)
    <3>1. \/ Entering(q, t, f, w, r.v, p) \/ Asking(q, t, f, w, r.v, p)
          \/ Replied(q, t, f, w, r.v, p)
      BY <1>1, HoverStages
    <3> QED
      BY <2>1, <3>1 DEF Session, Entering, Asking, Replied, Latest
  <2>3. q \o u.m = q
    <3>1. \/ q = <<>> \/ \E a : q = <<a>> \/ \E b : q = <<a, b>>
      BY <1>1, HoverStages DEF Entering, Asking, Replied
    <3> QED
      BY <2>1, <3>1, ShortAppends
  <2> QED
    BY <2>1, <2>2, <2>3 DEF Goes
<1>2. CASE ~r.v.pending
  <2>1. Standing(q, t, f, w, r.v, p)
    BY <1>2, HoverStages DEF Settled, Standing
  <2> QED
    BY <1>2, <2>1, DropWhenStanding
<1> QED
  BY <1>1, <1>2

\* The messages are what TypeOK says.
LEMMA MessagesTyped ==
  ASSUME NEW d \in Drag, NEW p \in Nat
  PROVE  /\ Enter(d) \in Message /\ <<Position(d, p)>> \in Seq(Message)
         /\ <<LeaveOf(d)>> \in Seq(Message) /\ <<DropOf(d, p)>> \in Seq(Message)
<1>1. /\ Enter(d) \in Message /\ Position(d, p) \in Message
      /\ LeaveOf(d) \in Message /\ DropOf(d, p) \in Message
  BY DEF Enter, Position, LeaveOf, DropOf, Message
<1>2. \A m \in Message : <<m>> \in Seq(Message)
  OBVIOUS
<1> QED
  BY <1>1, <1>2

LEMMA DropTyped ==
  ASSUME NEW r, IsPair(r), r.m = <<>>, NEW u, DropOutcome(u, r)
  PROVE  u.m \in Seq(Message)
<1>1. r.v.drag \in Drag /\ r.v.at \in Nat /\ <<>> \in Seq(Message)
  BY DEF IsPair, Visit
<1>2. \/ u.m = <<>> \/ u.m = <<LeaveOf(r.v.drag)>>
      \/ u.m = <<DropOf(r.v.drag, r.v.at)>>
  BY ShortAppends DEF DropOutcome
<1>3. \A m : m = <<>> => m \in Seq(Message)
  BY <1>1, Zenon
<1> QED
  BY <1>1, <1>2, <1>3, MessagesTyped

\* handleClientMessage: an answer of the client of w is handled by the visit
\* that is in a session with w.
LEMMA MessageKeepsSession ==
  ASSUME NEW q, NEW t, NEW f \in Seq(Reply), f # <<>>, NEW w,
         NEW v \in Visit, v.entered, ~v.finished, v.target = w,
         NEW p \in Nat, pos \in Nat,
         NEW e, e = Head(f), e.window = w, NEW g, g = Tail(f),
         Session(q, t, f, w, v, p),
         v.dropped => v.at = p, ~v.dropped => p = pos,
         NEW u, u = Handle(v, e)
  PROVE  /\ IsPair(u) /\ Same(u.v, v) /\ u.m \in Seq(Message)
         /\ Goes(q \o u.m, t, g, w, u.v, p)
         /\ ~v.dropped => Still(u.v, v)
         /\ v.dropped /\ ~u.v.finished => u.v.dropped
<1> DEFINE r == [v |-> v, m |-> <<>>]
<1>1. e \in Reply /\ v.drag \in Drag /\ <<>> \in Seq(Message)
  BY DEF Visit
<1>2. /\ ~NoReply(f, w)
      /\ \A type, a : OneReply(f, w, type, a) =>
           NoReply(g, w) /\ e.type = type /\ e.accepts = a
  <2>1. ~NoReply(f, w)
    BY TailReply
  <2>2. ASSUME NEW type, NEW a, OneReply(f, w, type, a)
        PROVE  NoReply(g, w) /\ e.type = type /\ e.accepts = a
    BY <2>2, TailTakes
  <2> QED
    BY <2>1, <2>2
<1>3. CASE Replied(q, t, f, w, v, p)
  <2>1. /\ NoReply(g, w) /\ e.type = "status" /\ (e.accepts <=> t.accepted)
        /\ q = <<>> /\ t.over = v.drag /\ t.busy = 0 /\ Latest(v, t.told, p)
    BY <1>2, <1>3 DEF Replied
  <2>2. u = HandleStatus(r, e)
    BY <2>1 DEF Handle
  <2>3. CASE ~v.dropped
    <3>1. v.cache \in {None, pos}
      BY <2>1, <2>3 DEF Latest
    <3>2. HoverOutcome(u, v, e, pos)
      BY <1>1, <2>2, <2>3, <3>1, StatusIs
    <3>3. IsPair(u) /\ Still(u.v, v) /\ Same(u.v, v) /\ ~u.v.finished
      BY <3>2 DEF HoverOutcome, Still
    <3>4. CASE ~u.v.pending
      <4>1. /\ u.v.cache = None /\ v.cache = None /\ u.m = <<>>
            /\ (u.v.accepts <=> e.accepts)
        BY <3>2, <3>4 DEF HoverOutcome
      <4>2. q \o u.m = <<>>
        BY <2>1, <4>1, ShortAppends
      <4>3. t.told = p
        BY <2>1, <4>1, DragAssumption DEF Latest
      <4>4. Settled(q \o u.m, t, g, w, u.v, p)
        BY <2>1, <2>3, <3>3, <3>4, <4>1, <4>2, <4>3 DEF Settled, Still, Same
      <4>5. u.m \in Seq(Message)
        BY <1>1, <4>1, Zenon
      <4> QED
        BY <2>3, <3>3, <4>4, <4>5 DEF Goes, Session
    <3>5. CASE u.v.pending
      <4>1. u.v.cache \in {None, p} /\ u.m = <<Position(v.drag, p)>>
        BY <2>3, <3>2, <3>5 DEF HoverOutcome
      <4>2. q \o u.m = <<Position(v.drag, p)>>
        BY <2>1, <4>1, ShortAppends
      <4>3. Asking(q \o u.m, t, g, w, u.v, p)
        BY <2>1, <3>3, <3>5, <4>1, <4>2 DEF Asking, Latest, Still, Same
      <4>4. u.m \in Seq(Message)
        BY <1>1, <4>1, MessagesTyped
      <4> QED
        BY <2>3, <3>3, <4>3, <4>4 DEF Goes, Session
    <3> QED
      BY <3>4, <3>5
  <2>4. CASE v.dropped
    <3>1. LateOutcome(u, v, e)
      BY <1>1, <2>2, <2>4, StatusIs
    <3>2. CASE v.cache # None
      <4>1. /\ IsPair(u) /\ Still(u.v, v) /\ u.v.pending /\ u.v.cache = None
            /\ u.m = <<Position(v.drag, p)>>
        BY <2>1, <3>1, <3>2 DEF LateOutcome, Latest
      <4>2. q \o u.m = <<Position(v.drag, p)>>
        BY <2>1, <4>1, ShortAppends
      <4>3. Asking(q \o u.m, t, g, w, u.v, p)
        BY <2>1, <4>1, <4>2 DEF Asking, Latest, Still, Same
      <4>4. u.m \in Seq(Message)
        BY <1>1, <4>1, MessagesTyped
      <4> QED
        BY <2>4, <4>1, <4>3, <4>4 DEF Goes, Session, Still
    <3>3. CASE v.cache = None
      <4>1. PICK k : /\ IsPair(k) /\ Still(k.v, v) /\ ~k.v.pending /\ k.m = <<>>
                     /\ (k.v.accepts <=> e.accepts) /\ DropOutcome(u, k)
        BY <3>1, <3>3 DEF LateOutcome
      <4>2. /\ k.v.drag = v.drag /\ k.v.target = w /\ k.v.at = p /\ ~k.v.finished
            /\ Same(u.v, v) /\ IsPair(u)
        BY <2>4, <4>1 DEF Still, Same, DropOutcome
      <4>3. t.told = p
        BY <2>1, <3>3, DragAssumption DEF Latest
      <4>4. Standing(q, t, g, w, k.v, p)
        BY <2>1, <4>1, <4>2, <4>3 DEF Standing
      <4>5. Goes(q \o u.m, t, g, w, u.v, p)
        BY <4>1, <4>2, <4>4, DropWhenStanding
      <4>6. u.v.finished \/ u.v.dropped
        BY <4>1 DEF DropOutcome
      <4> QED
        BY <2>4, <4>1, <4>2, <4>5, <4>6, DropTyped
    <3> QED
      BY <3>2, <3>3
  <2> QED
    BY <2>3, <2>4
<1>4. CASE Finishing(q, t, f, w, v)
  <2>1. /\ NoReply(g, w) /\ e.type = "finished"
        /\ q = <<>> /\ t.over = 0 /\ t.busy = 0 /\ v.dropped
    BY <1>2, <1>4 DEF Finishing
  <2>2. u = DoFinish(r) /\ IsPair(r)
    BY <2>1 DEF Handle, IsPair
  <2>3. IsPair(u) /\ Same(u.v, v) /\ u.v.finished /\ u.m = <<>>
    BY <2>2, DoFinishIs
  <2>4. Gone(q \o u.m, t, g, w)
    BY <2>1, <2>3, ShortAppends DEF Gone, LateReply
  <2>5. u.m \in Seq(Message)
    BY <1>1, <2>3, Zenon
  <2> QED
    BY <2>1, <2>3, <2>4, <2>5 DEF Goes
<1> QED
  BY <1>2, <1>3, <1>4 DEF Session, Entering, Asking, Settled, Dropping

-----------------------------------------------------------------------------
(* The invariant.                                                          *)

OldInv ==
  \A i \in 1..Len(old) :
    /\ old[i].entered /\ ~old[i].finished
    /\ ~old[i].dropped => wl = <<"drop">> /\ i = Len(old) /\ old[i].at = pos
    /\ old[i].target # visit.target
    /\ \A j \in 1..Len(old) : old[j].target = old[i].target => j = i

VisitInv ==
  /\ ~drag => visit = NoVisit
  /\ drag => drags \in Drag
  /\ visit # NoVisit =>
       /\ ~visit.dropped
       /\ visit.connected <=> ~visit.finished
       /\ visit.entered <=> (visit.connected /\ wl # <<"enter", "actions">>)
       /\ ~visit.entered => visit.cache = None /\ ~visit.pending

WlInv ==
  \/ wl = <<>>
  \/ wl \in {<<"enter", "actions">>, <<"actions">>} /\ visit # NoVisit
  \/ wl = <<"drop">> /\ ~drag /\ old # <<>> /\ ~old[Len(old)].dropped

\* Each window is in a session with the one visit it has, if any.
Window1Inv(w) ==
  /\ visit.target = w =>
       IF visit.entered THEN Session(toX[w], target[w], fromX, w, visit, pos)
       ELSE Quiet(toX[w], target[w], fromX, w)
  /\ \A i \in 1..Len(old) : old[i].target = w =>
       Session(toX[w], target[w], fromX, w, old[i], old[i].at)
  /\ visit.target # w /\ (\A i \in 1..Len(old) : old[i].target # w) =>
       Gone(toX[w], target[w], fromX, w)

DragInv == OldInv /\ VisitInv /\ WlInv /\ \A w \in Window : Window1Inv(w)

LEMMA WlQueues ==
  /\ <<>> # <<"drop">> /\ <<>> # <<"actions">> /\ <<>> # <<"enter", "actions">>
  /\ <<"drop">> # <<"actions">> /\ <<"drop">> # <<"enter", "actions">>
  /\ <<"actions">> # <<"enter", "actions">>
  /\ Head(<<"drop">>) = "drop" /\ Tail(<<"drop">>) = <<>>
  /\ Head(<<"actions">>) = "actions" /\ Tail(<<"actions">>) = <<>>
  /\ Head(<<"enter", "actions">>) = "enter"
  /\ Tail(<<"enter", "actions">>) = <<"actions">>
  /\ <<>> \o <<"enter", "actions">> = <<"enter", "actions">>
  /\ Append(<<>>, "drop") = <<"drop">>
  /\ {<<>>, <<"drop">>, <<"actions">>, <<"enter", "actions">>}
       \subseteq Seq({"enter", "actions", "drop"})
OBVIOUS

LEMMA VisitOrNone ==
  ASSUME TypeOK
  PROVE  /\ visit = NoVisit => visit.target = None /\ None \notin Window
         /\ visit # NoVisit => visit \in Visit /\ visit.target \in Window
BY DragAssumption DEF TypeOK, NoVisit, Visit

LEMMA OldTyped ==
  ASSUME TypeOK
  PROVE  /\ Len(old) \in Nat
         /\ \A i \in 1..Len(old) : old[i] \in Visit /\ old[i].target \in Window
<1>1. Len(old) \in Nat /\ \A i \in 1..Len(old) : old[i] \in Visit
  BY DEF TypeOK
<1> QED
  BY <1>1 DEF Visit

LEMMA Delivers ==
  ASSUME TypeOK, NEW w \in Window, NEW m \in Seq(Message), Deliver(w, m)
  PROVE  /\ toX' \in [Window -> Seq(Message)] /\ toX'[w] = toX[w] \o m
         /\ \A x \in Window : x # w => toX'[x] = toX[x]
<1>1. toX[w] \o m \in Seq(Message)
  BY DEF TypeOK
<1> QED
  BY <1>1 DEF Deliver, TypeOK

\* Without a drop on its way every old visit was dropped.
LEMMA OldDropped ==
  ASSUME OldInv, wl # <<"drop">>
  PROVE  \A i \in 1..Len(old) : old[i].dropped
BY DEF OldInv

\* A window that a step does not touch stays as it is.
LEMMA WindowKept ==
  ASSUME NEW w, Window1Inv(w), toX'[w] = toX[w], target'[w] = target[w],
         SameReplies(fromX, fromX', w), old' = old,
         visit.target = w => visit' = visit /\ pos' = pos,
         visit.target # w => visit'.target # w
  PROVE  Window1Inv(w)'
<1>1. ASSUME NEW v, NEW p, Session(toX[w], target[w], fromX, w, v, p)
      PROVE  Session(toX'[w], target'[w], fromX', w, v, p)
  BY <1>1, RepliesKeep
<1>2. Quiet(toX[w], target[w], fromX, w) => Quiet(toX'[w], target'[w], fromX', w)
  BY RepliesKeep
<1>3. Gone(toX[w], target[w], fromX, w) => Gone(toX'[w], target'[w], fromX', w)
  BY RepliesKeep
<1> QED
  BY <1>1, <1>2, <1>3 DEF Window1Inv

LEMMA NoNews == \A w : SameReplies(fromX, fromX, w)
BY DEF SameReplies

-----------------------------------------------------------------------------
(* The steps of the user.                                                  *)

LEMMA StartDragStep ==
  ASSUME TypeOK, DragInv, StartDrag
  PROVE  TypeOK' /\ DragInv'
<1> USE DEF StartDrag, Prompt
<1>1. visit = NoVisit /\ wl = <<>> /\ drags + 1 \in Drag
  BY DEF TypeOK, DragInv, VisitInv, Drag
<1>2. TypeOK'
  BY <1>1 DEF TypeOK, Drag
<1>3. OldInv'
  BY <1>1, OldDropped, WlQueues DEF DragInv, OldInv
<1>4. VisitInv' /\ WlInv'
  BY <1>1 DEF VisitInv, WlInv
<1>5. ASSUME NEW w \in Window PROVE Window1Inv(w)'
  <2>1. visit.target # w
    BY <1>1, VisitOrNone
  <2> QED
    BY <2>1, WindowKept, NoNews DEF DragInv
<1> QED
  BY <1>2, <1>3, <1>4, <1>5 DEF DragInv

\* What a visit does when the pointer has moved.
LEMMA MovedIs ==
  ASSUME NEW v \in Visit, pos \in Nat, NEW u, u = Moved(v)
  PROVE  /\ IsPair(u) /\ Still(u.v, v) /\ u.m \in Seq(Message)
         /\ v.entered /\ v.connected =>
              PositionSent(u, [v |-> v, m |-> <<>>], pos + 1)
         /\ ~(v.entered /\ v.connected) => u.v = v /\ u.m = <<>>
<1> DEFINE r == [v |-> v, m |-> <<>>]
<1>1. IsPair(r) /\ r.v = v /\ r.m = <<>> /\ <<>> \in Seq(Message)
  BY DEF IsPair
<1>2. CASE v.entered /\ v.connected
  <2>1. u = SendPosition(r, pos + 1)
    BY <1>2 DEF Moved
  <2> HIDE DEF r
  <2>2. PositionSent(u, r, pos + 1)
    BY <1>1, <2>1, SendPositionIs
  <2>3. u.m = <<>> \/ u.m = <<Position(v.drag, pos + 1)>>
    BY <1>1, <2>2, ShortAppends DEF PositionSent
  <2>4. v.drag \in Drag
    BY DEF Visit
  <2>5. u.m \in Seq(Message)
    <3>1. CASE u.m = <<>>
      BY <1>1, <3>1, Zenon
    <3>2. CASE u.m = <<Position(v.drag, pos + 1)>>
      BY <2>4, <3>2, MessagesTyped
    <3> QED
      BY <2>3, <3>1, <3>2
  <2>6. IsPair(u) /\ Still(u.v, v)
    BY <1>1, <2>2 DEF PositionSent
  <2>7. PositionSent(u, [v |-> v, m |-> <<>>], pos + 1)
    BY <2>2, Zenon DEF r
  <2> QED
    BY <1>2, <2>5, <2>6, <2>7
<1>3. CASE ~(v.entered /\ v.connected)
  <2>1. u = r
    BY <1>3 DEF Moved
  <2>2. IsPair(u) /\ u.v = v /\ u.m = <<>> /\ u.m \in Seq(Message)
    BY <1>1, <2>1, Zenon
  <2> QED
    BY <1>3, <2>2 DEF Still, Same
<1> QED
  BY <1>2, <1>3

LEMMA MoveWithinStep ==
  ASSUME TypeOK, DragInv, MoveWithin
  PROVE  TypeOK' /\ DragInv'
<1> USE DEF MoveWithin, Prompt
<1> DEFINE u == Moved(visit)
           w == visit.target
<1>1. visit \in Visit /\ w \in Window /\ pos \in Nat /\ wl = <<>>
  BY VisitOrNone DEF TypeOK
<1>2. visit' = u.v /\ Deliver(w, u.m)
  OBVIOUS
<1>3. /\ IsPair(u) /\ Still(u.v, visit) /\ u.m \in Seq(Message)
      /\ visit.entered /\ visit.connected =>
           PositionSent(u, [v |-> visit, m |-> <<>>], pos + 1)
      /\ ~(visit.entered /\ visit.connected) => u.v = visit /\ u.m = <<>>
  BY <1>1, MovedIs
<1> HIDE DEF u
<1>4. /\ toX' \in [Window -> Seq(Message)] /\ toX'[w] = toX[w] \o u.m
      /\ \A x \in Window : x # w => toX'[x] = toX[x]
  BY <1>1, <1>2, <1>3, Delivers
<1>5. visit' \in Visit /\ visit'.target = w /\ visit' # NoVisit
  BY <1>1, <1>2, <1>3, DragAssumption DEF Still, Same, NoVisit
<1>6. TypeOK'
  BY <1>1, <1>4, <1>5 DEF TypeOK
<1>7. OldInv'
  BY <1>1, <1>5, OldDropped, WlQueues DEF DragInv, OldInv
<1>8. VisitInv' /\ WlInv'
  <2>1. visit.entered <=> visit.connected
    BY <1>1, WlQueues DEF DragInv, VisitInv
  <2>2. ~visit.entered => u.v = visit
    BY <1>3
  <2> QED
    BY <1>1, <1>2, <1>3, <1>5, <2>1, <2>2 DEF DragInv, VisitInv, WlInv, Still, Same
<1>9. ASSUME NEW x \in Window PROVE Window1Inv(x)'
  <2>1. CASE x # w
    BY <1>4, <1>5, <2>1, WindowKept, NoNews DEF DragInv
  <2>2. CASE x = w /\ visit.entered
    <3>1. Session(toX[w], target[w], fromX, w, visit, pos)
      BY <1>1, <2>2 DEF DragInv, Window1Inv
    <3>2. visit.connected /\ ~visit.dropped
      BY <1>1, <2>2 DEF DragInv, VisitInv
    <3>3. PositionSent(u, [v |-> visit, m |-> <<>>], pos + 1)
      BY <1>3, <2>2, <3>2
    <3> DEFINE r == [v |-> visit, m |-> <<>>]
    <3>4. r.v = visit /\ r.m = <<>> /\ PositionSent(u, r, pos + 1)
      BY <3>3
    <3> HIDE DEF r
    <3>5. Session(toX[w] \o u.m, target[w], fromX, w, u.v, pos + 1)
      BY <1>1, <3>1, <3>2, <3>4, PositionKeepsSession
    <3>6. visit'.entered
      BY <1>2, <1>3, <2>2 DEF Still, Same
    <3>7. \A i \in 1..Len(old) : old[i].target # w
      BY DEF DragInv, OldInv
    <3> QED
      BY <1>2, <1>4, <1>5, <2>2, <3>5, <3>6, <3>7 DEF Window1Inv
  <2>3. CASE x = w /\ ~visit.entered
    <3>1. visit' = visit /\ u.m = <<>>
      BY <1>2, <1>3, <2>3
    <3>2. Quiet(toX[w], target[w], fromX, w)
      BY <1>1, <2>3 DEF DragInv, Window1Inv
    <3>3. toX'[w] = toX[w]
      BY <1>4, <3>1, <3>2, ShortAppends DEF Quiet
    <3>4. \A i \in 1..Len(old) : old[i].target # w
      BY DEF DragInv, OldInv
    <3> QED
      BY <2>3, <3>1, <3>2, <3>3, <3>4 DEF Window1Inv
  <2> QED
    BY <2>1, <2>2, <2>3
<1> QED
  BY <1>6, <1>7, <1>8, <1>9 DEF DragInv

LEMMA NewVisitIs ==
  ASSUME NEW w \in Window, drags \in Drag, NEW v, v = NewVisit(w)
  PROVE  /\ v \in Visit /\ v.target = w /\ ~v.dropped /\ ~v.entered /\ ~v.pending
         /\ v.cache = None /\ (v.connected <=> ~v.finished)
<1>1. Version[w] \in Nat /\ (Version[w] > 0) \in BOOLEAN /\ (Version[w] = 0) \in BOOLEAN
  BY DragAssumption
<1>2. v \in Visit
  BY <1>1 DEF NewVisit, Visit
<1>3. (v.connected <=> Version[w] > 0) /\ (v.finished <=> Version[w] = 0)
  BY DEF NewVisit
<1> QED
  BY <1>1, <1>2, <1>3 DEF NewVisit

\* What is sent to the window that the pointer leaves.
LEMMA LeavingIs ==
  ASSUME NEW v \in Visit, pos \in Nat, NEW m, m = Leave(Moved(v)).m,
         v.connected <=> ~v.finished, v.entered => v.connected
  PROVE  /\ v.entered /\ v.pending => m = <<LeaveOf(v.drag)>>
         /\ v.entered /\ ~v.pending =>
              m = <<Position(v.drag, pos + 1), LeaveOf(v.drag)>>
         /\ ~v.entered => m = <<>>
         /\ m \in Seq(Message)
<1> DEFINE s == Moved(v)
           u == Leave(s)
<1>1. /\ IsPair(s) /\ Still(s.v, v)
      /\ v.entered /\ v.connected =>
           PositionSent(s, [v |-> v, m |-> <<>>], pos + 1)
      /\ ~(v.entered /\ v.connected) => s.v = v /\ s.m = <<>>
  BY MovedIs
<1>2. m = u.m
  OBVIOUS
<1> HIDE DEF s
<1>3. /\ s.v.entered /\ ~s.v.finished => u.m = Append(s.m, LeaveOf(s.v.drag))
      /\ ~s.v.entered \/ s.v.finished => u.m = s.m
  BY <1>1, LeaveIs
<1> HIDE DEF u
<1>4. (s.v.entered <=> v.entered) /\ (s.v.finished <=> v.finished) /\ s.v.drag = v.drag
  BY <1>1 DEF Still, Same
<1>5. v.drag \in Drag /\ pos + 1 \in Nat
  BY DEF Visit
<1>6. CASE ~v.entered
  <2>1. m = <<>>
    BY <1>1, <1>2, <1>3, <1>4, <1>6
  <2>2. <<>> \in Seq(Message)
    OBVIOUS
  <2>3. m \in Seq(Message)
    BY <2>1, <2>2, Zenon
  <2> QED
    BY <1>6, <2>1, <2>3
<1>7. CASE v.entered /\ v.pending
  <2>1. s.m = <<>>
    BY <1>1, <1>7 DEF PositionSent
  <2>2. m = <<LeaveOf(v.drag)>>
    BY <1>2, <1>3, <1>4, <1>7, <2>1, ShortAppends
  <2> QED
    BY <1>5, <1>7, <2>2, MessagesTyped
<1>8. CASE v.entered /\ ~v.pending
  <2>1. s.m = <<Position(v.drag, pos + 1)>>
    BY <1>1, <1>8, ShortAppends DEF PositionSent
  <2>2. m = <<Position(v.drag, pos + 1), LeaveOf(v.drag)>>
    BY <1>2, <1>3, <1>4, <1>8, <2>1, ShortAppends
  <2>3. Position(v.drag, pos + 1) \in Message /\ LeaveOf(v.drag) \in Message
    BY <1>5 DEF Position, LeaveOf, Message
  <2>4. m \in Seq(Message)
    BY <2>2, <2>3
  <2> QED
    BY <1>8, <2>2, <2>4
<1> QED
  BY <1>6, <1>7, <1>8

LEMMA MoveToStep ==
  ASSUME TypeOK, DragInv, Revisit = FALSE,
         NEW t \in Window \cup {Nowhere}, MoveTo(t)
  PROVE  TypeOK' /\ DragInv'
<1> USE DEF MoveTo, Prompt
<1> DEFINE w == visit.target
           m == Leave(Moved(visit)).m
<1>1. /\ wl = <<>> /\ drags \in Drag /\ pos \in Nat /\ pos' \in Nat
      /\ old' = old /\ target' = target /\ fromX' = fromX
  BY DEF TypeOK, DragInv, VisitInv
<1>2. /\ t = Nowhere => visit' = NoVisit
      /\ t # Nowhere => /\ t \in Window /\ visit' = NewVisit(t)
  OBVIOUS
<1>3. t # Nowhere =>
        /\ visit' \in Visit /\ visit'.target = t /\ ~visit'.dropped
        /\ ~visit'.entered /\ ~visit'.pending /\ visit'.cache = None
        /\ (visit'.connected <=> ~visit'.finished)
  BY <1>1, <1>2, NewVisitIs
<1>4. /\ t = Nowhere => wl' = <<>>
      /\ t # Nowhere => wl' = <<"enter", "actions">>
  BY <1>1, WlQueues
<1>5. visit # NoVisit =>
        /\ visit \in Visit /\ w \in Window /\ ~visit.dropped
        /\ (visit.connected <=> ~visit.finished)
        /\ (visit.entered <=> visit.connected)
  BY <1>1, VisitOrNone, WlQueues DEF DragInv, VisitInv
<1>6. visit # NoVisit =>
        /\ visit.entered /\ visit.pending => m = <<LeaveOf(visit.drag)>>
        /\ visit.entered /\ ~visit.pending =>
             m = <<Position(visit.drag, pos + 1), LeaveOf(visit.drag)>>
        /\ ~visit.entered => m = <<>>
        /\ m \in Seq(Message)
  BY <1>1, <1>5, LeavingIs
<1>7. /\ visit = NoVisit => toX' = toX
      /\ visit # NoVisit => Deliver(w, m)
  OBVIOUS
<1> HIDE DEF m
<1>8. /\ toX' \in [Window -> Seq(Message)]
      /\ visit # NoVisit => toX'[w] = toX[w] \o m
      /\ \A x \in Window : x # w => toX'[x] = toX[x]
  <2>1. CASE visit = NoVisit
    BY <1>7, <2>1 DEF TypeOK
  <2>2. CASE visit # NoVisit
    BY <1>5, <1>6, <1>7, <2>2, Delivers
  <2> QED
    BY <2>1, <2>2
<1>9. w # t /\ (t # Nowhere => Answered(t))
  OBVIOUS
<1>10. TypeOK'
  BY <1>1, <1>2, <1>3, <1>4, <1>8, WlQueues DEF TypeOK
<1> HIDE DEF MoveTo
<1>11. drag' = drag /\ drags' = drags /\ drag
  BY DEF MoveTo
<1>12. OldInv'
  <2>1. \A i \in 1..Len(old) : old[i].target # visit'.target
    <3>1. CASE t = Nowhere
      <4>1. visit'.target = None
        BY <1>2, <3>1 DEF NoVisit
      <4>2. \A i \in 1..Len(old) : old[i].target \in Window
        BY OldTyped
      <4> QED
        BY <4>1, <4>2, DragAssumption
    <3>2. CASE t # Nowhere
      BY <1>2, <1>3, <1>9, <3>2 DEF Answered
    <3> QED
      BY <3>1, <3>2
  <2> QED
    BY <1>1, <2>1, OldDropped, WlQueues DEF DragInv, OldInv
<1>13. VisitInv' /\ WlInv'
  <2>1. CASE t = Nowhere
    BY <1>1, <1>2, <1>4, <1>11, <2>1 DEF VisitInv, WlInv
  <2>2. CASE t # Nowhere
    <3>1. visit' # NoVisit
      BY <1>2, <1>3, <2>2, DragAssumption DEF NoVisit
    <3> QED
      BY <1>1, <1>3, <1>4, <1>11, <2>2, <3>1 DEF VisitInv, WlInv
  <2> QED
    BY <2>1, <2>2
<1>14. ASSUME NEW x \in Window PROVE Window1Inv(x)'
  <2>1. visit'.target = x <=> t = x
    BY <1>2, <1>3, DragAssumption DEF NoVisit
  <2>2. CASE x # w /\ x # t
    BY <1>1, <1>8, <2>1, <2>2, WindowKept, NoNews DEF DragInv
  <2>3. CASE x = t
    <3>1. t # Nowhere /\ t # w
      BY <1>9, <2>3, DragAssumption
    <3>2. \A i \in 1..Len(old) : old[i].target # t
      BY <1>9, <3>1, <1>2 DEF Answered
    <3>3. Gone(toX[t], target[t], fromX, t)
      BY <2>3, <3>1, <3>2 DEF DragInv, Window1Inv
    <3>4. toX[t] = <<>> /\ NoReply(fromX, t) /\ target[t].busy = 0
      BY <1>2, <1>9, <3>1 DEF Answered, NoReply
    <3>5. target[t].over = 0
      BY <3>3, <3>4, ShortQueues DEF Gone
    <3>6. Quiet(toX'[t], target'[t], fromX', t)
      BY <1>1, <1>8, <2>3, <3>1, <3>4, <3>5 DEF Quiet
    <3> QED
      BY <1>1, <1>3, <2>1, <2>3, <3>1, <3>2, <3>6 DEF Window1Inv
  <2>4. CASE x = w
    <3>1. visit # NoVisit /\ x # t
      BY <1>9, <2>4, VisitOrNone
    <3>2. \A i \in 1..Len(old) : old[i].target # w
      BY DEF DragInv, OldInv
    <3>3. target[w] \in Client
      BY <2>4 DEF TypeOK, Client
    <3>4. Gone(toX[w] \o m, target[w], fromX, w)
      <4>1. CASE visit.entered
        <5>1. Session(toX[w], target[w], fromX, w, visit, pos)
          BY <2>4, <4>1 DEF DragInv, Window1Inv
        <5> QED
          BY <1>1, <1>5, <1>6, <3>1, <3>3, <4>1, <5>1, LeaveEndsSession
      <4>2. CASE ~visit.entered
        <5>1. Quiet(toX[w], target[w], fromX, w)
          BY <2>4, <4>2 DEF DragInv, Window1Inv
        <5>2. toX[w] \o m = <<>>
          BY <1>6, <3>1, <4>2, <5>1, ShortAppends DEF Quiet
        <5> QED
          BY <5>1, <5>2 DEF Quiet, Gone, LateReply
      <4> QED
        BY <4>1, <4>2
    <3> QED
      BY <1>1, <1>8, <2>1, <2>4, <3>1, <3>2, <3>4 DEF Window1Inv
  <2> QED
    BY <2>2, <2>3, <2>4
<1> QED
  BY <1>10, <1>12, <1>13, <1>14 DEF DragInv

\* A session does not depend on where the visit was dropped.
LEMMA SessionOfDropped ==
  ASSUME NEW q, NEW t, NEW f, NEW w, NEW v \in Visit, NEW p,
         Session(q, t, f, w, v, p), NEW n \in Nat, NEW u, u = [v EXCEPT !.at = n]
  PROVE  /\ u \in Visit /\ u.at = n /\ u.target = v.target
         /\ (u.entered <=> v.entered) /\ (u.finished <=> v.finished)
         /\ (u.dropped <=> v.dropped)
         /\ Session(q, t, f, w, u, p)
<1>1. /\ u \in Visit /\ u.at = n /\ u.target = v.target /\ u.drag = v.drag
      /\ (u.entered <=> v.entered) /\ (u.finished <=> v.finished)
      /\ (u.dropped <=> v.dropped) /\ (u.pending <=> v.pending)
      /\ (u.accepts <=> v.accepts) /\ u.cache = v.cache
  BY DEF Visit
<1>2. Session(q, t, f, w, u, p)
  BY <1>1 DEF Session, Entering, Asking, Replied, Settled, Dropping, Finishing, Latest
<1> QED
  BY <1>1, <1>2

LEMMA EndDragStep ==
  ASSUME TypeOK, DragInv, EndDrag
  PROVE  TypeOK' /\ DragInv'
<1> USE DEF EndDrag, Prompt
<1> DEFINE w == visit.target
           u == [visit EXCEPT !.at = pos]
<1>1. /\ wl = <<>> /\ drag' = FALSE /\ visit' = NoVisit /\ visit'.target = None
      /\ drags' = drags /\ pos' = pos /\ toX' = toX /\ fromX' = fromX
      /\ target' = target /\ pos \in Nat
  BY DEF NoVisit, TypeOK
<1>2. \A x \in Window : visit'.target # x
  BY <1>1, DragAssumption
<1>3. \A i \in 1..Len(old) : old[i] \in Visit /\ old[i].target \in Window
  BY OldTyped
<1>4. VisitInv'
  BY <1>1 DEF VisitInv
<1>5. CASE visit = NoVisit \/ visit.finished
  <2>1. old' = old /\ wl' = wl
    BY <1>5
  <2>2. TypeOK'
    BY <1>1, <2>1 DEF TypeOK
  <2>3. OldInv'
    BY <1>1, <1>2, <1>3, <2>1, OldDropped, WlQueues DEF DragInv, OldInv
  <2>4. WlInv'
    BY <1>1, <2>1 DEF WlInv
  <2>5. ASSUME NEW x \in Window PROVE Window1Inv(x)'
    <3>1. CASE visit.target = x
      <4>1. visit # NoVisit /\ ~visit.entered
        BY <1>5, <3>1, VisitOrNone DEF DragInv, VisitInv
      <4>2. Quiet(toX[x], target[x], fromX, x)
        BY <3>1, <4>1 DEF DragInv, Window1Inv
      <4>3. Gone(toX[x], target[x], fromX, x)
        BY <4>2 DEF Quiet, Gone, LateReply
      <4>4. \A i \in 1..Len(old) : old[i].target # x
        BY <3>1 DEF DragInv, OldInv
      <4> QED
        BY <1>1, <1>2, <2>1, <4>3, <4>4 DEF Window1Inv
    <3>2. CASE visit.target # x
      BY <1>1, <1>2, <2>1, <3>2, WindowKept, NoNews DEF DragInv
    <3> QED
      BY <3>1, <3>2
  <2> QED
    BY <1>4, <2>2, <2>3, <2>4, <2>5 DEF DragInv
<1>6. CASE visit # NoVisit /\ ~visit.finished
  <2>1. old' = Append(old, u) /\ wl' = <<"drop">>
    BY <1>1, <1>6, WlQueues
  <2>2. visit \in Visit /\ w \in Window /\ visit.entered /\ ~visit.dropped
    BY <1>1, <1>6, VisitOrNone, WlQueues DEF DragInv, VisitInv
  <2>3. Session(toX[w], target[w], fromX, w, visit, pos)
    BY <2>2 DEF DragInv, Window1Inv
  <2>4. /\ u \in Visit /\ u.at = pos /\ u.target = w
        /\ u.entered /\ ~u.finished /\ ~u.dropped
        /\ Session(toX[w], target[w], fromX, w, u, pos)
    BY <1>1, <1>6, <2>2, <2>3, SessionOfDropped
  <2> HIDE DEF u
  <2>5. /\ old' \in Seq(Visit) /\ Len(old') = Len(old) + 1 /\ Len(old) \in Nat
        /\ old'[Len(old')] = u /\ \A i \in 1..Len(old) : old'[i] = old[i]
    BY <2>1, <2>4 DEF TypeOK
  <2>6. \A i \in 1..Len(old) : old[i].target # w
    BY DEF DragInv, OldInv
  <2>7. TypeOK'
    BY <1>1, <2>1, <2>5, WlQueues DEF TypeOK
  <2>8. OldInv'
    <3> SUFFICES ASSUME NEW i \in 1..Len(old')
                 PROVE  /\ old'[i].entered /\ ~old'[i].finished
                        /\ ~old'[i].dropped => i = Len(old') /\ old'[i].at = pos
                        /\ old'[i].target # visit'.target
                        /\ \A j \in 1..Len(old') :
                             old'[j].target = old'[i].target => j = i
      BY <1>1, <2>1 DEF OldInv
    <3>1. CASE i = Len(old')
      BY <1>2, <2>2, <2>4, <2>5, <2>6, <3>1
    <3>2. CASE i \in 1..Len(old)
      <4>1. old'[i] = old[i] /\ old[i].dropped
        BY <1>1, <2>5, <3>2, OldDropped, WlQueues DEF DragInv
      <4>2. ASSUME NEW j \in 1..Len(old'), old'[j].target = old'[i].target
            PROVE  j = i
        BY <2>4, <2>5, <2>6, <3>2, <4>1, <4>2 DEF DragInv, OldInv
      <4> QED
        BY <1>2, <1>3, <3>2, <4>1, <4>2 DEF DragInv, OldInv
    <3> QED
      BY <2>5, <3>1, <3>2
  <2>9. WlInv'
    BY <1>1, <2>1, <2>4, <2>5 DEF WlInv
  <2>10. ASSUME NEW x \in Window PROVE Window1Inv(x)'
    <3>1. ASSUME NEW i \in 1..Len(old'), old'[i].target = x
          PROVE  Session(toX[x], target[x], fromX, x, old'[i], old'[i].at)
      <4>1. CASE i = Len(old')
        BY <2>4, <2>5, <3>1, <4>1
      <4>2. CASE i \in 1..Len(old)
        BY <2>5, <3>1, <4>2 DEF DragInv, Window1Inv
      <4> QED
        BY <2>5, <4>1, <4>2
    <3>2. ASSUME \A i \in 1..Len(old') : old'[i].target # x
          PROVE  Gone(toX[x], target[x], fromX, x)
      <4>1. x # w /\ \A i \in 1..Len(old) : old[i].target # x
        BY <2>4, <2>5, <3>2
      <4> QED
        BY <4>1 DEF DragInv, Window1Inv
    <3> QED
      BY <1>1, <1>2, <3>1, <3>2 DEF Window1Inv
  <2> QED
    BY <1>4, <2>7, <2>8, <2>9, <2>10 DEF DragInv
<1> QED
  BY <1>5, <1>6

-----------------------------------------------------------------------------
(* The events of KWin's own data device.                                   *)

\* A session depends on few fields of its visit.
LEMMA SessionAlike ==
  ASSUME NEW q, NEW t, NEW f, NEW w, NEW v, NEW p,
         Session(q, t, f, w, v, p), NEW u, Alike(u, v)
  PROVE  Session(q, t, f, w, u, p)
<1>1. /\ u.drag = v.drag /\ (u.dropped <=> v.dropped) /\ (u.pending <=> v.pending)
      /\ (u.accepts <=> v.accepts) /\ u.cache = v.cache
  BY DEF Alike, Still, Same
<1> QED
  BY <1>1 DEF Session, Entering, Asking, Replied, Settled, Dropping, Finishing, Latest

\* The current visit becomes u.v and sends u.m, while an event is read from wl.
LEMMA VisitStep ==
  ASSUME TypeOK, DragInv, visit # NoVisit, wl # <<"drop">>,
         NEW u, IsPair(u), u.m \in Seq(Message), u.v.target = visit.target,
         ~u.v.dropped, u.v.connected <=> ~u.v.finished,
         u.v.entered <=> (u.v.connected /\ wl' # <<"enter", "actions">>),
         ~u.v.entered => u.v.cache = None /\ ~u.v.pending,
         visit' = u.v, Deliver(visit.target, u.m),
         wl' \in {<<>>, <<"actions">>, <<"enter", "actions">>},
         UNCHANGED <<drag, drags, old, pos, target>>, fromX' \in Seq(Reply),
         \A x \in Window : x # visit.target => SameReplies(fromX, fromX', x),
         IF u.v.entered
         THEN Session(toX[visit.target] \o u.m, target[visit.target], fromX',
                      visit.target, u.v, pos)
         ELSE Quiet(toX[visit.target] \o u.m, target[visit.target], fromX',
                    visit.target)
  PROVE  TypeOK' /\ DragInv'
<1> DEFINE w == visit.target
<1>1. w \in Window /\ visit' \in Visit /\ visit'.target = w /\ visit' # NoVisit
  BY VisitOrNone, DragAssumption DEF IsPair, NoVisit
<1>2. /\ toX' \in [Window -> Seq(Message)] /\ toX'[w] = toX[w] \o u.m
      /\ \A x \in Window : x # w => toX'[x] = toX[x]
  BY <1>1, Delivers
<1>3. TypeOK'
  BY <1>1, <1>2, WlQueues DEF TypeOK
<1>4. OldInv'
  BY <1>1, OldDropped DEF DragInv, OldInv
<1>5. VisitInv'
  BY <1>1 DEF DragInv, VisitInv
<1>6. WlInv'
  BY <1>1 DEF WlInv
<1>7. ASSUME NEW x \in Window PROVE Window1Inv(x)'
  <2>1. CASE x # w
    BY <1>1, <1>2, <1>7, <2>1, WindowKept DEF DragInv
  <2>2. CASE x = w
    <3>1. \A i \in 1..Len(old) : old[i].target # w
      BY DEF DragInv, OldInv
    <3> QED
      BY <1>1, <1>2, <2>2, <3>1 DEF Window1Inv
  <2> QED
    BY <2>1, <2>2
<1> QED
  BY <1>3, <1>4, <1>5, <1>6, <1>7 DEF DragInv

LEMMA ReceiveOfferStep ==
  ASSUME TypeOK, DragInv, ReceiveOffer
  PROVE  TypeOK' /\ DragInv'
<1> DEFINE w == visit.target
           r == [v |-> [visit EXCEPT !.entered = TRUE], m |-> <<>>]
           s == Send(r, "enter", 0)
           u == SendPosition(s, pos)
<1>1. wl = <<"enter", "actions">> /\ wl' = <<"actions">> /\ visit # NoVisit
  BY WlQueues DEF ReceiveOffer, WlEvent, DragInv, WlInv
<1>2. /\ visit \in Visit /\ w \in Window /\ pos \in Nat
      /\ fromX' = fromX /\ old' = old /\ pos' = pos /\ target' = target
      /\ drag' = drag /\ drags' = drags /\ fromX \in Seq(Reply)
  BY <1>1, VisitOrNone DEF ReceiveOffer, TypeOK
<1>3. /\ ~visit.entered /\ visit.cache = None /\ ~visit.pending /\ ~visit.dropped
      /\ (visit.connected <=> ~visit.finished)
  BY <1>1 DEF DragInv, VisitInv
<1>4. Quiet(toX[w], target[w], fromX, w)
  BY <1>2, <1>3 DEF DragInv, Window1Inv
<1>5. \A x : SameReplies(fromX, fromX', x)
  BY <1>2, NoNews
<1>6. CASE visit.connected
  <2>1. visit' = u.v /\ Deliver(w, u.m)
    BY <1>6 DEF ReceiveOffer, Sends
  <2>2. /\ IsPair(r) /\ r.v.target = w /\ r.v.drag = visit.drag /\ r.v.entered
        /\ ~r.v.dropped /\ ~r.v.finished /\ r.v.connected /\ ~r.v.pending
        /\ r.v.cache = None /\ r.m = <<>>
    BY <1>2, <1>3, <1>6 DEF IsPair, Visit
  <2> HIDE DEF r
  <2>3. IsPair(s) /\ s.v = r.v /\ s.m = <<Enter(visit.drag)>>
    BY <2>2, SendIs, ShortAppends DEF Enter
  <2> HIDE DEF s
  <2>4. PositionSent(u, s, pos)
    BY <1>2, <2>3, SendPositionIs
  <2> HIDE DEF u
  <2>5. /\ IsPair(u) /\ u.v.target = w /\ u.v.drag = visit.drag /\ u.v.entered
        /\ ~u.v.dropped /\ ~u.v.finished /\ u.v.connected /\ u.v.pending
        /\ u.v.cache = None
        /\ u.m = <<Enter(visit.drag), Position(visit.drag, pos)>>
    BY <2>2, <2>3, <2>4, ShortAppends DEF PositionSent, Still, Same
  <2>6. u.m \in Seq(Message)
    <3>1. visit.drag \in Drag
      BY <1>2 DEF Visit
    <3>2. Enter(visit.drag) \in Message /\ Position(visit.drag, pos) \in Message
      BY <1>2, <3>1 DEF Enter, Position, Message
    <3> QED
      BY <2>5, <3>2
  <2>7. toX[w] \o u.m = <<Enter(visit.drag), Position(visit.drag, pos)>>
    BY <1>4, <2>5, ShortAppends DEF Quiet
  <2>8. Entering(toX[w] \o u.m, target[w], fromX, w, u.v, pos)
    BY <1>2, <1>4, <2>5, <2>7 DEF Entering, Quiet, Latest
  <2>9. Session(toX[w] \o u.m, target[w], fromX', w, u.v, pos)
    BY <1>2, <2>8 DEF Session
  <2> QED
    BY <1>1, <1>2, <1>5, <2>1, <2>5, <2>6, <2>9, WlQueues, VisitStep
<1>7. CASE ~visit.connected
  <2>1. visit' = visit /\ toX' = toX
    BY <1>7 DEF ReceiveOffer
  <2>2. TypeOK'
    BY <1>1, <1>2, <2>1, WlQueues DEF TypeOK
  <2>3. OldInv'
    BY <1>1, <1>2, <2>1, OldDropped, WlQueues DEF DragInv, OldInv
  <2>4. VisitInv' /\ WlInv'
    BY <1>1, <1>2, <1>3, <1>7, <2>1 DEF DragInv, VisitInv, WlInv
  <2>5. ASSUME NEW x \in Window PROVE Window1Inv(x)'
    BY <1>2, <1>5, <2>1, WindowKept DEF DragInv
  <2> QED
    BY <2>2, <2>3, <2>4, <2>5 DEF DragInv
<1> QED
  BY <1>6, <1>7

LEMMA RetrieveSupportedActionsStep ==
  ASSUME TypeOK, DragInv, RetrieveSupportedActions
  PROVE  TypeOK' /\ DragInv'
<1> DEFINE w == visit.target
           r == [v |-> [visit EXCEPT !.supported = Supported], m |-> <<>>]
           u == DetermineProposedAction(r)
<1>1. wl = <<"actions">> /\ wl' = <<>> /\ visit # NoVisit
  BY WlQueues DEF RetrieveSupportedActions, WlEvent, DragInv, WlInv
<1>2. /\ visit \in Visit /\ w \in Window /\ pos \in Nat
      /\ fromX' = fromX /\ old' = old /\ pos' = pos /\ target' = target
      /\ drag' = drag /\ drags' = drags /\ fromX \in Seq(Reply)
  BY <1>1, VisitOrNone DEF RetrieveSupportedActions, TypeOK
<1>3. /\ ~visit.dropped /\ (visit.connected <=> ~visit.finished)
      /\ (visit.entered <=> visit.connected)
  BY <1>1, WlQueues DEF DragInv, VisitInv
<1>4. \A x : SameReplies(fromX, fromX', x)
  BY <1>2, NoNews
<1>5. CASE visit.connected
  <2>1. visit' = u.v /\ Deliver(w, u.m)
    BY <1>5 DEF RetrieveSupportedActions, Sends
  <2>2. IsPair(r) /\ Alike(r.v, visit) /\ r.m = <<>>
    BY <1>2, DragAssumption DEF IsPair, Alike, Still, Same, Visit
  <2> HIDE DEF r
  <2>3. u = r \/ PositionSent(u, r, pos)
    BY <1>2, <2>2, DetermineIs
  <2> HIDE DEF u
  <2>4. Session(toX[w], target[w], fromX, w, r.v, pos)
    <3>1. Session(toX[w], target[w], fromX, w, visit, pos)
      BY <1>2, <1>3, <1>5 DEF DragInv, Window1Inv
    <3> QED
      BY <2>2, <3>1, SessionAlike
  <2>5. r.v \in Visit /\ ~r.v.dropped /\ r.v.drag \in Drag /\ <<>> \in Seq(Message)
    BY <1>3, <2>2 DEF Alike, Still, IsPair, Visit
  <2>6. u.m \in Seq(Message) /\ Session(toX[w] \o u.m, target[w], fromX, w, u.v, pos)
    <3>1. CASE u = r
      <4>1. u.m \in Seq(Message)
        BY <2>2, <2>5, <3>1, Zenon
      <4>2. toX[w] \o u.m = toX[w]
        <5>1. toX[w] \in Seq(Message)
          BY <1>2 DEF TypeOK
        <5>2. \A q \in Seq(Message) : q \o <<>> = q
          OBVIOUS
        <5> QED
          BY <2>2, <3>1, <5>1, <5>2
      <4> QED
        BY <2>4, <3>1, <4>1, <4>2
    <3>2. CASE PositionSent(u, r, pos)
      <4>1. Session(toX[w] \o u.m, target[w], fromX, w, u.v, pos)
        BY <1>2, <2>2, <2>4, <2>5, <3>2, PositionKeepsSession
      <4>2. u.m = <<>> \/ u.m = <<Position(r.v.drag, pos)>>
        BY <2>2, <3>2, ShortAppends DEF PositionSent
      <4>3. u.m \in Seq(Message)
        <5>1. CASE u.m = <<>>
          BY <2>5, <5>1, Zenon
        <5>2. CASE u.m = <<Position(r.v.drag, pos)>>
          BY <1>2, <2>5, <5>2, MessagesTyped
        <5> QED
          BY <4>2, <5>1, <5>2
      <4> QED
        BY <4>1, <4>3
    <3> QED
      BY <2>3, <3>1, <3>2
  <2>7. IsPair(u) /\ Still(u.v, visit)
    <3>1. Still(r.v, visit)
      BY <2>2 DEF Alike
    <3> QED
      BY <2>2, <2>3, <3>1 DEF PositionSent, Still, Same
  <2>8. /\ u.v.target = w /\ ~u.v.dropped /\ (u.v.connected <=> ~u.v.finished)
        /\ u.v.connected /\ u.v.entered
    BY <1>3, <1>5, <2>7 DEF Still, Same
  <2>9. Session(toX[w] \o u.m, target[w], fromX', w, u.v, pos)
    BY <1>2, <2>6
  <2> QED
    BY <1>1, <1>2, <1>4, <2>1, <2>6, <2>7, <2>8, <2>9, WlQueues, VisitStep
<1>6. CASE ~visit.connected
  <2>1. visit' = visit /\ toX' = toX
    BY <1>6 DEF RetrieveSupportedActions
  <2>2. TypeOK'
    BY <1>1, <1>2, <2>1, WlQueues DEF TypeOK
  <2>3. OldInv'
    BY <1>1, <1>2, <2>1, OldDropped, WlQueues DEF DragInv, OldInv
  <2>4. VisitInv' /\ WlInv'
    BY <1>1, <1>2, <1>3, <1>6, <2>1, WlQueues DEF DragInv, VisitInv, WlInv
  <2>5. ASSUME NEW x \in Window PROVE Window1Inv(x)'
    BY <1>2, <1>4, <2>1, WindowKept DEF DragInv
  <2> QED
    BY <2>2, <2>3, <2>4, <2>5 DEF DragInv
<1> QED
  BY <1>5, <1>6

-----------------------------------------------------------------------------
(* The old drags.                                                          *)

\* Where the j-th old visit was before the visit at i became u.
Was(i, u, j) == IF u.v.finished /\ ~(j < i) THEN j + 1 ELSE j

LEMMA KeptIs ==
  ASSUME TypeOK, NEW i \in 1..Len(old), NEW u, u.v \in Visit, NEW o, o = Kept(i, u)
  PROVE  /\ o \in Seq(Visit)
         /\ Len(o) = IF u.v.finished THEN Len(old) - 1 ELSE Len(old)
         /\ \A j \in 1..Len(o) :
              /\ Was(i, u, j) \in 1..Len(old)
              /\ o[j] = IF ~u.v.finished /\ j = i THEN u.v ELSE old[Was(i, u, j)]
<1>1. old \in Seq(Visit) /\ Len(old) \in Nat
  BY DEF TypeOK
<1>2. CASE u.v.finished
  <2> DEFINE a == SubSeq(old, 1, i - 1)
             b == SubSeq(old, i + 1, Len(old))
  <2>1. /\ a \in Seq(Visit) /\ Len(a) = i - 1
        /\ \A j \in 1..(i - 1) : a[j] = old[j]
    BY <1>1
  <2>2. /\ b \in Seq(Visit) /\ Len(b) = Len(old) - i
        /\ \A j \in 1..(Len(old) - i) : b[j] = old[j + i]
    BY <1>1
  <2>3. o = a \o b
    BY <1>2 DEF Kept, RemoveAt
  <2> HIDE DEF a, b
  <2>4. /\ o \in Seq(Visit) /\ Len(o) = Len(old) - 1
        /\ \A j \in 1..Len(o) : o[j] = IF j < i THEN a[j] ELSE b[j - (i - 1)]
    <3>1. o \in Seq(Visit) /\ Len(o) = Len(a) + Len(b)
      <4>1. \A s, t \in Seq(Visit) :
              s \o t \in Seq(Visit) /\ Len(s \o t) = Len(s) + Len(t)
        OBVIOUS
      <4>2. a \in Seq(Visit) /\ b \in Seq(Visit)
        BY <2>1, <2>2
      <4> QED
        BY <2>3, <4>1, <4>2, Zenon
    <3>2. Len(o) = Len(old) - 1
      BY <1>1, <2>1, <2>2, <3>1
    <3>3. \A j \in 1..Len(o) : o[j] = IF j < i THEN a[j] ELSE b[j - (i - 1)]
      BY <1>1, <2>1, <2>2, <2>3, <3>2
    <3> QED
      BY <3>1, <3>2, <3>3
  <2>5. ASSUME NEW j \in 1..Len(o)
        PROVE  Was(i, u, j) \in 1..Len(old) /\ o[j] = old[Was(i, u, j)]
    <3>1. CASE j < i
      BY <1>1, <1>2, <2>1, <2>4, <3>1 DEF Was
    <3>2. CASE ~(j < i)
      <4>1. j - (i - 1) \in 1..(Len(old) - i) /\ (j - (i - 1)) + i = j + 1
        BY <1>1, <2>4, <3>2
      <4>2. o[j] = old[j + 1] /\ j + 1 \in 1..Len(old)
        BY <1>1, <2>2, <2>4, <3>2, <4>1
      <4> QED
        BY <1>2, <3>2, <4>2 DEF Was
    <3> QED
      BY <3>1, <3>2
  <2> QED
    BY <1>2, <2>4, <2>5
<1>3. CASE ~u.v.finished
  BY <1>1, <1>3 DEF Kept, Was
<1> QED
  BY <1>2, <1>3

\* The old visit at i becomes u.v, and is forgotten when it has finished.
LEMMA OldStep ==
  ASSUME TypeOK, DragInv, NEW i \in 1..Len(old),
         NEW u, IsPair(u), Same(u.v, old[i]), u.m \in Seq(Message),
         old' = Kept(i, u), Deliver(old[i].target, u.m),
         UNCHANGED <<drag, drags, visit, pos, target>>, fromX' \in Seq(Reply),
         \A x \in Window : x # old[i].target => SameReplies(fromX, fromX', x),
         Goes(toX[old[i].target] \o u.m, target[old[i].target], fromX',
              old[i].target, u.v, old[i].at),
         ~u.v.finished /\ old[i].dropped => u.v.dropped,
         \/ wl' = wl /\ (~old[i].dropped => ~u.v.finished /\ ~u.v.dropped)
         \/ /\ wl = <<"drop">> /\ wl' = <<>> /\ i = Len(old)
            /\ ~u.v.finished => u.v.dropped
  PROVE  TypeOK' /\ DragInv'
<1> DEFINE w == old[i].target
           was(j) == Was(i, u, j)
<1>1. /\ u.v \in Visit /\ u.v.target = w /\ u.v.at = old[i].at
      /\ (u.v.entered <=> old[i].entered)
  BY DEF IsPair, Same
<1>2. /\ old' \in Seq(Visit)
      /\ Len(old') = IF u.v.finished THEN Len(old) - 1 ELSE Len(old)
      /\ \A j \in 1..Len(old') :
           /\ was(j) \in 1..Len(old)
           /\ old'[j] = IF ~u.v.finished /\ j = i THEN u.v ELSE old[was(j)]
  BY <1>1, KeptIs, SMTT(30)
<1>3. Len(old) \in Nat /\ \A j \in 1..Len(old) : old[j] \in Visit /\ old[j].target \in Window
  BY OldTyped
<1>4. /\ \A j \in 1..Len(old') : /\ was(j) = i <=> (~u.v.finished /\ j = i)
                                 /\ was(j) = Len(old) => j = Len(old')
      /\ \A j, k \in 1..Len(old') : was(j) = was(k) => j = k
  BY <1>2, <1>3 DEF Was
<1>5. \A k \in 1..Len(old) : k # i => \E j \in 1..Len(old') : was(j) = k
  <2> SUFFICES ASSUME NEW k \in 1..Len(old), k # i
               PROVE  \E j \in 1..Len(old') : was(j) = k
    OBVIOUS
  <2>1. CASE u.v.finished /\ k > i
    <3>1. k - 1 \in 1..Len(old') /\ ~(k - 1 < i) /\ (k - 1) + 1 = k
      BY <1>2, <1>3, <2>1
    <3> QED
      BY <2>1, <3>1 DEF Was
  <2>2. CASE ~(u.v.finished /\ k > i)
    <3>1. k \in 1..Len(old') /\ was(k) = k
      BY <1>2, <1>3, <2>2 DEF Was
    <3> QED
      BY <3>1
  <2> QED
    BY <2>1, <2>2
<1> HIDE DEF was
<1>6. w \in Window
  BY <1>3
<1>7. /\ toX' \in [Window -> Seq(Message)] /\ toX'[w] = toX[w] \o u.m
      /\ \A x \in Window : x # w => toX'[x] = toX[x]
  BY <1>6, Delivers
<1>8. wl' \in Seq({"enter", "actions", "drop"})
  BY WlQueues DEF TypeOK
<1>9. TypeOK'
  BY <1>2, <1>7, <1>8 DEF TypeOK
<1>10. \A j \in 1..Len(old') : old'[j].target = old[was(j)].target
  BY <1>1, <1>2, <1>4
<1>11. OldInv'
  <2> SUFFICES ASSUME NEW j \in 1..Len(old')
               PROVE  /\ old'[j].entered /\ ~old'[j].finished
                      /\ ~old'[j].dropped =>
                           wl' = <<"drop">> /\ j = Len(old') /\ old'[j].at = pos
                      /\ old'[j].target # visit.target
                      /\ \A k \in 1..Len(old') :
                           old'[k].target = old'[j].target => k = j
    BY DEF OldInv
  <2>1. old'[j].target # visit.target
    <3>1. was(j) \in 1..Len(old) /\ old'[j].target = old[was(j)].target
      BY <1>2, <1>10
    <3> QED
      BY <3>1 DEF DragInv, OldInv
  <2>2. ASSUME NEW k \in 1..Len(old'), old'[k].target = old'[j].target
        PROVE  k = j
    <3>1. old[was(k)].target = old[was(j)].target
      BY <1>10, <2>2
    <3>2. was(k) = was(j)
      BY <1>2, <3>1 DEF DragInv, OldInv
    <3> QED
      BY <1>4, <3>2
  <2>3. old[was(j)].entered /\ ~old[was(j)].finished
    BY <1>2 DEF DragInv, OldInv
  <2>4. ~old[was(j)].dropped =>
          wl = <<"drop">> /\ was(j) = Len(old) /\ old[was(j)].at = pos
    BY <1>2 DEF DragInv, OldInv
  <2>5. CASE ~u.v.finished /\ j = i
    <3>1. old'[j] = u.v /\ was(j) = i
      BY <1>2, <1>4, <2>5
    <3>2. ~u.v.dropped => wl' = <<"drop">> /\ j = Len(old') /\ u.v.at = pos
      BY <1>1, <1>4, <2>4, <2>5, <3>1
    <3> QED
      BY <1>1, <2>1, <2>2, <2>3, <2>5, <3>1, <3>2
  <2>6. CASE ~(~u.v.finished /\ j = i)
    <3>1. old'[j] = old[was(j)] /\ was(j) # i
      BY <1>2, <1>4, <2>6
    <3>2. ~old[was(j)].dropped => wl' = wl /\ j = Len(old')
      BY <1>4, <2>4, <3>1
    <3> QED
      BY <2>1, <2>2, <2>3, <2>4, <3>1, <3>2
  <2> QED
    BY <2>5, <2>6
<1>12. VisitInv'
  <2>1. CASE visit = NoVisit
    BY <2>1 DEF DragInv, VisitInv
  <2>2. CASE visit # NoVisit
    <3>1. wl # <<"drop">>
      BY <2>2, WlQueues DEF DragInv, VisitInv, WlInv
    <3> QED
      BY <3>1 DEF DragInv, VisitInv
  <2> QED
    BY <2>1, <2>2
<1>13. WlInv'
  <2>1. CASE wl' = <<>>
    BY <2>1 DEF WlInv
  <2>2. CASE wl' = wl /\ wl # <<"drop">>
    BY <2>2 DEF DragInv, WlInv
  <2>3. CASE wl' = wl /\ wl = <<"drop">>
    <3>1. ~drag /\ old # <<>> /\ ~old[Len(old)].dropped /\ Len(old) \in 1..Len(old)
      BY <1>3, <2>3, WlQueues DEF DragInv, WlInv
    <3>2. old' # <<>> /\ ~old'[Len(old')].dropped
      <4>1. CASE i = Len(old)
        <5>1. ~u.v.finished /\ ~u.v.dropped
          BY <2>3, <3>1, <4>1, WlQueues
        <5>2. Len(old') = Len(old) /\ old'[Len(old)] = u.v
          BY <1>2, <3>1, <4>1, <5>1
        <5> QED
          BY <1>3, <3>1, <5>1, <5>2
      <4>2. CASE i # Len(old)
        <5>1. PICK j \in 1..Len(old') : was(j) = Len(old)
          BY <1>5, <3>1, <4>2
        <5>2. j = Len(old') /\ old'[j] = old[Len(old)]
          BY <1>2, <1>4, <4>2, <5>1
        <5> QED
          BY <3>1, <5>1, <5>2
      <4> QED
        BY <4>1, <4>2
    <3> QED
      BY <2>3, <3>1, <3>2 DEF WlInv
  <2> QED
    BY <2>1, <2>2, <2>3
<1>14. ASSUME NEW x \in Window PROVE Window1Inv(x)'
  <2>1. CASE x = w
    <3>1. visit'.target # x
      BY <2>1 DEF DragInv, OldInv
    <3>2. ASSUME NEW j \in 1..Len(old'), old'[j].target = x
          PROVE  /\ ~u.v.finished /\ j = i /\ old'[j] = u.v
      <4>1. was(j) = i
        BY <1>2, <1>10, <2>1, <3>2 DEF DragInv, OldInv
      <4> QED
        BY <1>2, <1>4, <4>1
    <3>3. ~u.v.finished => i \in 1..Len(old') /\ old'[i].target = x
      BY <1>1, <1>2, <2>1
    <3> QED
      BY <1>1, <1>7, <2>1, <3>1, <3>2, <3>3, ZenonT(30) DEF Window1Inv, Goes
  <2>2. CASE x # w
    <3>1. /\ toX'[x] = toX[x] /\ target'[x] = target[x]
          /\ SameReplies(fromX, fromX', x)
      BY <1>7, <2>2
    <3>2. \A v, p : Session(toX[x], target[x], fromX, x, v, p) =>
                    Session(toX'[x], target'[x], fromX', x, v, p)
      BY <3>1, RepliesKeep
    <3>3. Quiet(toX[x], target[x], fromX, x) => Quiet(toX'[x], target'[x], fromX', x)
      BY <3>1, RepliesKeep
    <3>4. Gone(toX[x], target[x], fromX, x) => Gone(toX'[x], target'[x], fromX', x)
      BY <3>1, RepliesKeep
    <3>5. Window1Inv(x)
      BY DEF DragInv
    <3>6. ASSUME NEW j \in 1..Len(old'), old'[j].target = x
          PROVE  Session(toX'[x], target'[x], fromX', x, old'[j], old'[j].at)
      <4>1. was(j) # i /\ old'[j] = old[was(j)] /\ was(j) \in 1..Len(old)
        BY <1>2, <1>4, <1>10, <2>2, <3>6
      <4> QED
        BY <3>2, <3>5, <3>6, <4>1 DEF Window1Inv
    <3>7. ASSUME \A j \in 1..Len(old') : old'[j].target # x
          PROVE  \A k \in 1..Len(old) : old[k].target # x
      BY <1>5, <1>10, <2>2, <3>7
    <3> QED
      BY <3>2, <3>3, <3>4, <3>5, <3>6, <3>7 DEF Window1Inv
  <2> QED
    BY <2>1, <2>2
<1> QED
  BY <1>9, <1>11, <1>12, <1>13, <1>14 DEF DragInv

LEMMA ReceiveDropStep ==
  ASSUME TypeOK, DragInv, ReceiveDrop
  PROVE  TypeOK' /\ DragInv'
<1> DEFINE i == Len(old)
           r == [v |-> Last(old), m |-> <<>>]
           u == Drop(r)
<1>1. wl = <<"drop">> /\ wl' = <<>> /\ old # <<>> /\ ~old[i].dropped
  BY WlQueues DEF ReceiveDrop, WlEvent, DragInv, WlInv
<1>2. i \in 1..Len(old) /\ old[i] \in Visit /\ old[i].target \in Window
  <2>1. i \in 1..Len(old)
    BY <1>1 DEF TypeOK
  <2> QED
    BY <2>1, OldTyped
<1>3. old[i].entered /\ ~old[i].finished /\ old[i].at = pos
  BY <1>1, <1>2 DEF DragInv, OldInv
<1>4. IsPair(r) /\ r.v = old[i] /\ r.m = <<>>
  BY <1>2 DEF IsPair, Last
<1>5. old' = Kept(i, u) /\ Deliver(u.v.target, u.m)
  BY DEF ReceiveDrop
<1> HIDE DEF r
<1>6. DropOutcome(u, r)
  BY <1>3, <1>4, DropIs
<1> HIDE DEF u
<1>7. u.m \in Seq(Message)
  BY <1>4, <1>6, DropTyped
<1>8. IsPair(u) /\ Same(u.v, old[i]) /\ (~u.v.finished => u.v.dropped)
  BY <1>3, <1>4, <1>6 DEF DropOutcome
<1>9. Session(toX[old[i].target], target[old[i].target], fromX, old[i].target,
              old[i], old[i].at)
  BY <1>2 DEF DragInv, Window1Inv
<1>10. Goes(toX[old[i].target] \o u.m, target[old[i].target], fromX,
            old[i].target, u.v, old[i].at)
  BY <1>1, <1>3, <1>4, <1>6, <1>9, DropKeepsSession
<1>11. /\ drag' = drag /\ drags' = drags /\ visit' = visit /\ pos' = pos
       /\ target' = target /\ fromX' = fromX /\ fromX' \in Seq(Reply)
  BY DEF ReceiveDrop, TypeOK
<1>12. Deliver(old[i].target, u.m)
  BY <1>5, <1>8 DEF Same
<1> QED
  BY <1>1, <1>2, <1>5, <1>7, <1>8, <1>10, <1>11, <1>12, NoNews, OldStep

-----------------------------------------------------------------------------
(* Messages of the X clients.                                              *)

\* Dnd::handleClientMessage finds the old visit of a window, if there is one.
LEMMA SelectIs ==
  ASSUME TypeOK, OldInv, NEW x, NEW i,
         i = LET I == {j \in 1..Len(old) : old[j].target = x}
             IN  IF I # {} THEN Min(I) ELSE 0
  PROVE  \/ i = 0 /\ \A j \in 1..Len(old) : old[j].target # x
         \/ i \in 1..Len(old) /\ old[i].target = x /\ i > 0
<1> DEFINE I == {j \in 1..Len(old) : old[j].target = x}
<1>1. i = IF I # {} THEN Min(I) ELSE 0
  OBVIOUS
<1>2. CASE I = {}
  BY <1>1, <1>2
<1>3. CASE I # {}
  <2>1. PICK j \in I : TRUE
    BY <1>3
  <2>2. \A k \in I : k = j
    BY <2>1 DEF OldInv
  <2>3. j \in I /\ \A y \in I : j =< y
    BY <2>1, <2>2, OldTyped
  <2>4. Min(I) \in I
    BY <2>3 DEF Min
  <2> QED
    BY <1>1, <1>3, <2>4
<1> QED
  BY <1>2, <1>3

LEMMA ClientMessageStep ==
  ASSUME TypeOK, DragInv, ClientMessage
  PROVE  TypeOK' /\ DragInv'
<1> DEFINE e == Head(fromX)
           x == e.window
           i == SelectInSeq(old, LAMBDA v : v.target = e.window)
           u == Handle(IF i > 0 THEN old[i] ELSE visit, e)
<1>1. /\ fromX # <<>> /\ fromX' = Tail(fromX) /\ fromX \in Seq(Reply)
      /\ fromX' \in Seq(Reply) /\ e \in Reply /\ pos \in Nat
      /\ drag' = drag /\ drags' = drags /\ pos' = pos /\ wl' = wl
      /\ target' = target
  BY DEF ClientMessage, TypeOK
<1>2. /\ \/ i > 0 /\ old' = Kept(i, u) /\ visit' = visit /\ Deliver(x, u.m)
         \/ i = 0 /\ visit.target = x /\ visit' = u.v /\ old' = old /\ Deliver(x, u.m)
         \/ i = 0 /\ visit.target # x /\ visit' = visit /\ old' = old /\ toX' = toX
  BY DEF ClientMessage
<1>3. \/ i = 0 /\ \A j \in 1..Len(old) : old[j].target # x
      \/ i \in 1..Len(old) /\ old[i].target = x /\ i > 0
  <2>1. i = LET I == {j \in 1..Len(old) : old[j].target = x}
            IN  IF I # {} THEN Min(I) ELSE 0
    BY DEF SelectInSeq
  <2> HIDE DEF i
  <2> QED
    BY <2>1, SelectIs DEF DragInv
<1> HIDE DEF i
<1>4. x \in Window
  BY <1>1 DEF Reply
<1>5. \A y \in Window : y # x => SameReplies(fromX, fromX', y)
  BY <1>1, TailReply
<1>6. CASE i \in 1..Len(old) /\ old[i].target = x /\ i > 0
  <2>1. u = Handle(old[i], e)
    BY <1>6
  <2>2. old' = Kept(i, u) /\ visit' = visit /\ Deliver(x, u.m)
    BY <1>2, <1>6
  <2> HIDE DEF u
  <2>3. /\ old[i] \in Visit /\ old[i].entered /\ ~old[i].finished
        /\ ~old[i].dropped => old[i].at = pos
    BY <1>6, OldTyped DEF DragInv, OldInv
  <2>4. Session(toX[x], target[x], fromX, x, old[i], old[i].at)
    BY <1>4, <1>6 DEF DragInv, Window1Inv
  <2>5. old[i].at \in Nat
    BY <2>3 DEF Visit
  <2>6. /\ IsPair(u) /\ Same(u.v, old[i]) /\ u.m \in Seq(Message)
        /\ Goes(toX[x] \o u.m, target[x], fromX', x, u.v, old[i].at)
        /\ ~old[i].dropped => Still(u.v, old[i])
        /\ old[i].dropped /\ ~u.v.finished => u.v.dropped
    BY <1>1, <1>6, <2>1, <2>3, <2>4, <2>5, MessageKeepsSession
  <2>7. ~old[i].dropped => ~u.v.finished /\ ~u.v.dropped
    BY <2>3, <2>6 DEF Still
  <2> QED
    BY <1>1, <1>5, <1>6, <2>2, <2>6, <2>7, OldStep
<1>7. CASE i = 0 /\ \A j \in 1..Len(old) : old[j].target # x
  <2>1. u = Handle(visit, e)
    BY <1>7
  <2> HIDE DEF u
  <2>2. CASE visit.target = x
    <3>1. visit # NoVisit /\ visit \in Visit
      BY <1>4, <2>2, VisitOrNone
    <3>2. visit' = u.v /\ old' = old /\ Deliver(visit.target, u.m)
      BY <1>2, <1>7, <2>2
    <3>3. ~NoReply(fromX, x)
      BY <1>1, TailReply
    <3>4. visit.entered /\ Session(toX[x], target[x], fromX, x, visit, pos)
      BY <1>4, <2>2, <3>3 DEF DragInv, Window1Inv, Quiet
    <3>5. /\ ~visit.dropped /\ ~visit.finished /\ visit.connected
          /\ wl # <<"enter", "actions">>
      BY <3>1, <3>4 DEF DragInv, VisitInv
    <3>6. /\ IsPair(u) /\ Same(u.v, visit) /\ u.m \in Seq(Message)
          /\ Goes(toX[x] \o u.m, target[x], fromX', x, u.v, pos)
          /\ Still(u.v, visit)
      BY <1>1, <2>1, <2>2, <3>1, <3>4, <3>5, MessageKeepsSession
    <3>7. /\ u.v.entered /\ ~u.v.dropped /\ ~u.v.finished /\ u.v.connected
          /\ u.v.target = visit.target
      BY <3>4, <3>5, <3>6 DEF Still, Same
    <3>8. Session(toX[x] \o u.m, target[x], fromX', x, u.v, pos)
      BY <3>6, <3>7 DEF Goes
    <3>9. wl # <<"drop">> /\ wl' \in {<<>>, <<"actions">>, <<"enter", "actions">>}
      BY <1>1, <3>1, WlQueues DEF DragInv, WlInv, VisitInv
    <3> QED
      BY <1>1, <1>5, <2>2, <3>1, <3>2, <3>5, <3>6, <3>7, <3>8, <3>9, VisitStep
  <2>3. CASE visit.target # x
    <3>1. visit' = visit /\ old' = old /\ toX' = toX
      BY <1>2, <1>7, <2>3
    <3>2. TypeOK'
      BY <1>1, <3>1 DEF TypeOK
    <3>3. OldInv' /\ VisitInv' /\ WlInv'
      BY <1>1, <3>1 DEF DragInv, OldInv, VisitInv, WlInv
    <3>4. ASSUME NEW y \in Window PROVE Window1Inv(y)'
      <4>1. CASE y # x
        BY <1>1, <1>5, <3>1, <4>1, WindowKept DEF DragInv
      <4>2. CASE y = x
        <5>1. Gone(toX[x], target[x], fromX, x)
          BY <1>4, <1>7, <2>3 DEF DragInv, Window1Inv
        <5>2. NoReply(fromX', x)
          <6>1. ~NoReply(fromX, x)
            BY <1>1, TailReply
          <6>2. PICK a \in BOOLEAN : OneReply(fromX, x, "status", a)
            BY <5>1, <6>1, SMTT(30) DEF Gone, LateReply
          <6> QED
            BY <1>1, <6>2, TailTakes
        <5>3. Gone(toX[x], target[x], fromX', x)
          BY <5>1, <5>2 DEF Gone, LateReply
        <5> QED
          BY <1>1, <1>7, <2>3, <3>1, <4>2, <5>3 DEF Window1Inv
      <4> QED
        BY <4>1, <4>2
    <3> QED
      BY <3>2, <3>3, <3>4 DEF DragInv
  <2> QED
    BY <2>2, <2>3
<1> QED
  BY <1>3, <1>6, <1>7

-----------------------------------------------------------------------------
(* The steps of the X clients.                                             *)

\* A step of the client of w disturbs nothing but the session of w.
LEMMA ClientStep ==
  ASSUME TypeOK, DragInv, NEW w \in Window,
         drag' = drag, drags' = drags, visit' = visit, old' = old, pos' = pos,
         wl' = wl, toX' \in [Window -> Seq(Message)], fromX' \in Seq(Reply),
         target' \in [Window -> Client],
         \A x \in Window : x # w => /\ toX'[x] = toX[x] /\ target'[x] = target[x]
                                    /\ SameReplies(fromX, fromX', x),
         ~Quiet(toX[w], target[w], fromX, w),
         Gone(toX[w], target[w], fromX, w) => Gone(toX'[w], target'[w], fromX', w),
         \A v, p : Session(toX[w], target[w], fromX, w, v, p)
                     => Session(toX'[w], target'[w], fromX', w, v, p)
  PROVE  TypeOK' /\ DragInv'
<1>1. TypeOK'
  BY DEF TypeOK, Client
<1>2. OldInv' /\ VisitInv' /\ WlInv'
  BY DEF DragInv, OldInv, VisitInv, WlInv
<1>3. ASSUME NEW x \in Window PROVE Window1Inv(x)'
  <2>1. CASE x # w
    BY <2>1, WindowKept DEF DragInv
  <2>2. CASE x = w
    <3>1. Window1Inv(w)
      BY DEF DragInv
    <3> QED
      BY <2>2, <3>1 DEF Window1Inv
  <2> QED
    BY <2>1, <2>2
<1> QED
  BY <1>1, <1>2, <1>3 DEF DragInv

LEMMA ClientReads ==
  ASSUME TypeOK, NEW w \in Window, NEW type, Read(w, type)
  PROVE  /\ toX[w] # <<>> /\ toX[w] \in Seq(Message) /\ Head(toX[w]) \in Message
         /\ Head(toX[w]).type = type /\ target[w].busy = 0
         /\ toX' \in [Window -> Seq(Message)] /\ toX'[w] = Tail(toX[w])
         /\ \A x \in Window : x # w => toX'[x] = toX[x]
<1>1. /\ toX[w] # <<>> /\ Head(toX[w]).type = type /\ target[w].busy = 0
      /\ toX' = [toX EXCEPT ![w] = Tail(toX[w])]
  BY DEF Read
<1>2. toX \in [Window -> Seq(Message)] /\ toX[w] \in Seq(Message)
  BY DEF TypeOK
<1>3. Head(toX[w]) \in Message /\ Tail(toX[w]) \in Seq(Message)
  BY <1>1, <1>2
<1> QED
  BY <1>1, <1>2, <1>3

LEMMA ClientTyped ==
  ASSUME TypeOK, NEW w \in Window, NEW s \in Client,
         target' = [target EXCEPT ![w] = s]
  PROVE  /\ target[w] \in Client /\ target' \in [Window -> Client]
         /\ target'[w] = s
         /\ \A x \in Window : x # w => target'[x] = target[x]
BY DEF TypeOK, Client

LEMMA TargetEnterStep ==
  ASSUME TypeOK, DragInv, NEW w \in Window, TargetEnter(w),
         UNCHANGED <<drag, drags, visit, old, pos, wl>>
  PROVE  TypeOK' /\ DragInv'
<1> DEFINE s == [target[w] EXCEPT !.over = Head(toX[w]).drag]
<1>1. Read(w, "enter") /\ fromX' = fromX
  BY DEF TargetEnter
<1>0. /\ toX[w] # <<>> /\ toX[w] \in Seq(Message) /\ Head(toX[w]) \in Message
      /\ Head(toX[w]).type = "enter" /\ target[w].busy = 0
      /\ toX' \in [Window -> Seq(Message)] /\ toX'[w] = Tail(toX[w])
      /\ \A x \in Window : x # w => toX'[x] = toX[x]
  BY <1>1, ClientReads
<1>2. target[w] \in Client /\ s \in Client
  <2>1. target[w] \in Client
    BY DEF TypeOK, Client
  <2>2. Head(toX[w]).drag \in Drag /\ Head(toX[w]).pos \in Nat
    BY <1>0 DEF Message
  <2> QED
    BY <2>1, <2>2 DEF Client
<1>3. target' = [target EXCEPT ![w] = s]
  BY DEF TargetEnter
<1>4. /\ ~Quiet(toX[w], target[w], fromX, w)
      /\ Gone(toX[w], target[w], fromX, w) => Gone(Tail(toX[w]), s, fromX, w)
      /\ \A v, p : Session(toX[w], target[w], fromX, w, v, p)
                     => Session(Tail(toX[w]), s, fromX, w, v, p)
  BY <1>0, <1>2, ClientEnters
<1> HIDE DEF s
<1>5. fromX \in Seq(Reply)
  BY DEF TypeOK
<1> QED
  <2>1. /\ target' \in [Window -> Client] /\ target'[w] = s
        /\ \A x \in Window : x # w => target'[x] = target[x]
    BY <1>2, <1>3, ClientTyped
  <2>2. \A x \in Window : SameReplies(fromX, fromX', x)
    BY <1>1, NoNews
  <2> QED
    BY <1>1, <1>0, <1>4, <1>5, <2>1, <2>2, ClientStep

LEMMA TargetPositionStep ==
  ASSUME TypeOK, DragInv, NEW w \in Window, TargetPosition(w),
         UNCHANGED <<drag, drags, visit, old, pos, wl>>
  PROVE  TypeOK' /\ DragInv'
<1>1. Read(w, "position") /\ fromX \in Seq(Reply)
  BY DEF TargetPosition, TypeOK
<1>0. /\ toX[w] # <<>> /\ toX[w] \in Seq(Message) /\ Head(toX[w]) \in Message
      /\ Head(toX[w]).type = "position" /\ target[w].busy = 0
      /\ toX' \in [Window -> Seq(Message)] /\ toX'[w] = Tail(toX[w])
      /\ \A x \in Window : x # w => toX'[x] = toX[x]
  BY <1>1, ClientReads
<1>2. PICK accepts \in BOOLEAN, a \in Action :
        /\ target' = [target EXCEPT ![w].told = Head(toX[w]).pos,
                                    ![w].accepted = accepts]
        /\ Answer("status", w, Head(toX[w]).drag, accepts,
                  IF accepts THEN a ELSE None)
  BY DEF TargetPosition
<1> DEFINE s == [target[w] EXCEPT !.told = Head(toX[w]).pos, !.accepted = accepts]
           e == [type |-> "status", window |-> w, drag |-> Head(toX[w]).drag,
                 accepts |-> accepts, action |-> IF accepts THEN a ELSE None]
<1>3. target[w] \in Client /\ s \in Client
  <2>1. target[w] \in Client
    BY DEF TypeOK, Client
  <2>2. Head(toX[w]).drag \in Drag /\ Head(toX[w]).pos \in Nat
    BY <1>0 DEF Message
  <2> QED
    BY <2>1, <2>2 DEF Client
<1>4. target' = [target EXCEPT ![w] = s]
  BY <1>2
<1>5. e \in Reply /\ fromX' = Append(fromX, e)
  BY <1>1, <1>2, ClientReads DEF Answer, Reply, Message
<1>6. e.window = w /\ e.type = "status" /\ e.accepts = accepts
  OBVIOUS
<1> HIDE DEF e
<1>7. /\ \A x \in Window : x # w => SameReplies(fromX, fromX', x)
      /\ NoReply(fromX, w) => OneReply(fromX', w, "status", accepts)
      /\ fromX' \in Seq(Reply)
  <2>1. \A x \in Window : x # w => SameReplies(fromX, fromX', x)
    BY <1>1, <1>5, <1>6, AppendReply
  <2>2. NoReply(fromX, w) => OneReply(fromX', w, e.type, e.accepts)
    BY <1>1, <1>5, <1>6, AppendReply
  <2> QED
    BY <1>1, <1>5, <1>6, <2>1, <2>2
<1>8. /\ ~Quiet(toX[w], target[w], fromX, w)
      /\ Gone(toX[w], target[w], fromX, w) => Gone(Tail(toX[w]), s, fromX', w)
      /\ \A v, p : Session(toX[w], target[w], fromX, w, v, p)
                     => Session(Tail(toX[w]), s, fromX', w, v, p)
  BY <1>0, <1>3, <1>7, ClientAnswers, ZenonT(30)
<1> HIDE DEF s
<1> QED
  <2>1. /\ target' \in [Window -> Client] /\ target'[w] = s
        /\ \A x \in Window : x # w => target'[x] = target[x]
    BY <1>3, <1>4, ClientTyped
  <2> QED
    BY <1>0, <1>7, <1>8, <2>1, ClientStep

LEMMA TargetLeaveStep ==
  ASSUME TypeOK, DragInv, NEW w \in Window, TargetLeave(w),
         UNCHANGED <<drag, drags, visit, old, pos, wl>>
  PROVE  TypeOK' /\ DragInv'
<1> DEFINE s == [target[w] EXCEPT !.over = 0, !.told = 0, !.accepted = FALSE]
<1>1. Read(w, "leave") /\ fromX' = fromX
  BY DEF TargetLeave
<1>0. /\ toX[w] # <<>> /\ toX[w] \in Seq(Message) /\ Head(toX[w]) \in Message
      /\ Head(toX[w]).type = "leave" /\ target[w].busy = 0
      /\ toX' \in [Window -> Seq(Message)] /\ toX'[w] = Tail(toX[w])
      /\ \A x \in Window : x # w => toX'[x] = toX[x]
  BY <1>1, ClientReads
<1>2. target[w] \in Client /\ s \in Client
  BY DEF TypeOK, Client
<1>3. target' = [target EXCEPT ![w] = s]
  BY DEF TargetLeave
<1>4. /\ ~Quiet(toX[w], target[w], fromX, w)
      /\ Gone(toX[w], target[w], fromX, w) => Gone(Tail(toX[w]), s, fromX, w)
      /\ \A v, p : ~Session(toX[w], target[w], fromX, w, v, p)
  BY <1>0, <1>2, ClientLeaves
<1> HIDE DEF s
<1>5. fromX \in Seq(Reply)
  BY DEF TypeOK
<1> QED
  <2>1. /\ target' \in [Window -> Client] /\ target'[w] = s
        /\ \A x \in Window : x # w => target'[x] = target[x]
    BY <1>2, <1>3, ClientTyped
  <2>2. \A x \in Window : SameReplies(fromX, fromX', x)
    BY <1>1, NoNews
  <2> QED
    BY <1>1, <1>0, <1>4, <1>5, <2>1, <2>2, ClientStep

LEMMA TargetDropStep ==
  ASSUME TypeOK, DragInv, NEW w \in Window, TargetDrop(w),
         UNCHANGED <<drag, drags, visit, old, pos, wl>>
  PROVE  TypeOK' /\ DragInv'
<1> DEFINE s == [target[w] EXCEPT !.over = 0, !.told = 0, !.accepted = FALSE,
                   !.busy = IF Version[w] < 2 THEN 0 ELSE Head(toX[w]).drag]
<1>1. Read(w, "drop") /\ fromX' = fromX
  BY DEF TargetDrop
<1>0. /\ toX[w] # <<>> /\ toX[w] \in Seq(Message) /\ Head(toX[w]) \in Message
      /\ Head(toX[w]).type = "drop" /\ target[w].busy = 0
      /\ toX' \in [Window -> Seq(Message)] /\ toX'[w] = Tail(toX[w])
      /\ \A x \in Window : x # w => toX'[x] = toX[x]
  BY <1>1, ClientReads
<1>2. target[w] \in Client /\ s \in Client
  <2>1. target[w] \in Client
    BY DEF TypeOK, Client
  <2>2. Head(toX[w]).drag \in Drag /\ Head(toX[w]).pos \in Nat
    BY <1>0 DEF Message
  <2> QED
    BY <2>1, <2>2 DEF Client
<1>3. target' = [target EXCEPT ![w] = s]
  BY DEF TargetDrop
<1>4. /\ ~Quiet(toX[w], target[w], fromX, w)
      /\ Gone(toX[w], target[w], fromX, w) => Gone(Tail(toX[w]), s, fromX, w)
      /\ \A v, p : Session(toX[w], target[w], fromX, w, v, p)
                     => Session(Tail(toX[w]), s, fromX, w, v, p)
  BY <1>0, <1>2, ClientDrops
<1> HIDE DEF s
<1>5. fromX \in Seq(Reply)
  BY DEF TypeOK
<1> QED
  <2>1. /\ target' \in [Window -> Client] /\ target'[w] = s
        /\ \A x \in Window : x # w => target'[x] = target[x]
    BY <1>2, <1>3, ClientTyped
  <2>2. \A x \in Window : SameReplies(fromX, fromX', x)
    BY <1>1, NoNews
  <2> QED
    BY <1>1, <1>0, <1>4, <1>5, <2>1, <2>2, ClientStep

LEMMA TargetFinishStep ==
  ASSUME TypeOK, DragInv, NEW w \in Window, TargetFinish(w),
         UNCHANGED <<drag, drags, visit, old, pos, wl>>
  PROVE  TypeOK' /\ DragInv'
<1> DEFINE s == [target[w] EXCEPT !.busy = 0]
           e == [type |-> "finished", window |-> w, drag |-> target[w].busy,
                 accepts |-> TRUE, action |-> None]
<1>1. /\ target[w].busy # 0 /\ toX' = toX /\ fromX \in Seq(Reply)
      /\ toX' \in [Window -> Seq(Message)]
  BY DEF TargetFinish, TypeOK
<1>2. target[w] \in Client /\ s \in Client
  BY DEF TypeOK, Client
<1>3. target' = [target EXCEPT ![w] = s]
  BY DEF TargetFinish
<1>4. e \in Reply /\ fromX' = Append(fromX, e)
  BY <1>1, <1>2 DEF TargetFinish, Answer, Reply, Client
<1>5. e.window = w /\ e.type = "finished" /\ e.accepts = TRUE
  OBVIOUS
<1> HIDE DEF e
<1>6. /\ \A x \in Window : x # w => SameReplies(fromX, fromX', x)
      /\ NoReply(fromX, w) => OneReply(fromX', w, "finished", TRUE)
      /\ fromX' \in Seq(Reply)
  <2>1. \A x \in Window : x # w => SameReplies(fromX, fromX', x)
    BY <1>1, <1>4, <1>5, AppendReply
  <2>2. NoReply(fromX, w) => OneReply(fromX', w, e.type, e.accepts)
    BY <1>1, <1>4, <1>5, AppendReply
  <2> QED
    <3>1. NoReply(fromX, w) => OneReply(fromX', w, "finished", TRUE)
      BY <1>5, <2>2, Zenon
    <3>2. fromX' \in Seq(Reply)
      BY <1>1, <1>4
    <3> QED
      BY <2>1, <3>1, <3>2, Zenon
<1>7. /\ ~Quiet(toX[w], target[w], fromX, w) /\ ~Gone(toX[w], target[w], fromX, w)
      /\ \A v, p : Session(toX[w], target[w], fromX, w, v, p)
                     => Session(toX[w], s, fromX', w, v, p)
  <2>1. s.over = target[w].over /\ s.busy = 0
    BY <1>2 DEF Client
  <2> HIDE DEF s
  <2>2. NoReply(fromX, w) => OneReply(fromX', w, "finished", TRUE)
    BY <1>6, Zenon
  <2> QED
    BY <1>1, <1>2, <2>1, <2>2, ClientFinishes, Zenon
<1> HIDE DEF s
<1> QED
  BY <1>1, <1>2, <1>3, <1>6, <1>7, ClientTyped, ClientStep

-----------------------------------------------------------------------------
(* The theorems.                                                           *)

LEMMA DragInit == Init => TypeOK /\ DragInv
<1> SUFFICES ASSUME Init PROVE TypeOK /\ DragInv
  OBVIOUS
<1>1. /\ drag = FALSE /\ drags = 0 /\ visit = NoVisit /\ old = <<>> /\ pos = 0
      /\ wl = <<>> /\ fromX = <<>>
      /\ \A w \in Window : toX[w] = <<>> /\ target[w].over = 0 /\ target[w].busy = 0
  BY DEF Init
<1>2. Len(old) = 0 /\ Len(fromX) = 0
  BY <1>1
<1>3. TypeOK
  <2>1. /\ old \in Seq(Visit) /\ fromX \in Seq(Reply)
        /\ wl \in Seq({"enter", "actions", "drop"})
    BY <1>1
  <2>2. toX \in [Window -> Seq(Message)]
    BY DEF Init
  <2>3. target \in [Window -> [over : Drag \cup {0}, told : Nat,
                               accepted : BOOLEAN, busy : Drag \cup {0}]]
    BY DEF Init
  <2>4. 0 \in 0..Len(MaxPos)
    BY DragAssumption
  <2> QED
    BY <1>1, <2>1, <2>2, <2>3, <2>4 DEF TypeOK
<1>4. OldInv /\ VisitInv /\ WlInv
  BY <1>1, <1>2 DEF OldInv, VisitInv, WlInv
<1>5. ASSUME NEW w \in Window PROVE Window1Inv(w)
  <2>1. visit.target # w
    BY <1>1, <1>3, VisitOrNone
  <2>2. Gone(toX[w], target[w], fromX, w)
    BY <1>1, <1>2 DEF Gone, LateReply, NoReply
  <2> QED
    BY <1>2, <2>1, <2>2 DEF Window1Inv
<1> QED
  BY <1>3, <1>4, <1>5 DEF DragInv

LEMMA DragNext ==
  ASSUME Revisit = FALSE, TypeOK, DragInv, [Next]_vars
  PROVE  TypeOK' /\ DragInv'
<1>1. CASE User
  BY <1>1, StartDragStep, MoveWithinStep, EndDragStep, MoveToStep DEF User
<1>2. CASE WlEvents
  BY <1>2, ReceiveOfferStep, RetrieveSupportedActionsStep, ReceiveDropStep
  DEF WlEvents
<1>3. CASE ClientMessage
  BY <1>3, ClientMessageStep
<1>4. ASSUME NEW w \in Window, Target(w) PROVE TypeOK' /\ DragInv'
  BY <1>4, TargetEnterStep, TargetPositionStep, TargetLeaveStep, TargetDropStep,
     TargetFinishStep
  DEF Target
<1>5. CASE UNCHANGED vars
  <2>1. TypeOK'
    BY <1>5 DEF TypeOK, vars
  <2>2. OldInv' /\ VisitInv' /\ WlInv'
    BY <1>5 DEF DragInv, OldInv, VisitInv, WlInv, vars
  <2>3. ASSUME NEW w \in Window PROVE Window1Inv(w)'
    BY <1>5, NoNews, WindowKept DEF DragInv, vars
  <2> QED
    BY <2>1, <2>2, <2>3 DEF DragInv
<1> QED
  BY <1>1, <1>2, <1>3, <1>4, <1>5 DEF Next

\* What a stage of a session says of the message the client reads next.
LEMMA SessionHeads ==
  ASSUME NEW q, q # <<>>, NEW t, NEW f, NEW w, NEW v, NEW p,
         Session(q, t, f, w, v, p)
  PROVE  Head(q).type = "drop" => t.told = Head(q).pos /\ t.accepted
<1> USE DEF Enter, Position, DropOf
<1>1. CASE Entering(q, t, f, w, v, p)
  BY <1>1 DEF Entering
<1>2. CASE Asking(q, t, f, w, v, p)
  BY <1>2 DEF Asking
<1>3. CASE Dropping(q, t, f, w, v, p)
  BY <1>3 DEF Dropping
<1> QED
  BY <1>1, <1>2, <1>3, StageHeads DEF Session

LEMMA GoneHeads ==
  ASSUME NEW q, q # <<>>, NEW t, NEW f, NEW w, Gone(q, t, f, w)
  PROVE  Head(q).type = "drop" => t.told = Head(q).pos /\ t.accepted
<1> USE DEF Enter, Position, LeaveOf, DropOf
<1>1. PICK d \in Drag :
        \/ q = <<LeaveOf(d)>> /\ t.over = d
        \/ t.over = 0 /\ \E s \in Nat : q = <<Enter(d), Position(d, s), LeaveOf(d)>>
        \/ t.over = d /\ \E s \in Nat : q = <<Position(d, s), LeaveOf(d)>>
        \/ t.over = d /\ q = <<DropOf(d, t.told)>> /\ t.accepted
  BY DEF Gone
<1> QED
  BY <1>1

LEMMA HeadsFit ==
  ASSUME TypeOK, DragInv, NEW w \in Window, toX[w] # <<>>
  PROVE  Head(toX[w]).type = "drop"
           => target[w].told = Head(toX[w]).pos /\ target[w].accepted
<1>1. Window1Inv(w)
  BY DEF DragInv
<1>2. CASE visit.target = w
  <2>1. Session(toX[w], target[w], fromX, w, visit, pos)
    BY <1>1, <1>2 DEF Window1Inv, Quiet
  <2> QED
    BY <2>1, SessionHeads
<1>3. CASE \E i \in 1..Len(old) : old[i].target = w
  BY <1>1, <1>3, SessionHeads DEF Window1Inv
<1>4. CASE visit.target # w /\ \A i \in 1..Len(old) : old[i].target # w
  BY <1>1, <1>4, GoneHeads DEF Window1Inv
<1> QED
  BY <1>2, <1>3, <1>4

\* Every behaviour in which a window is visited again only when its client has
\* answered everything keeps the sessions apart and in order.
THEOREM DragSessions ==
  ASSUME Revisit = FALSE
  PROVE  Spec => [](TypeOK /\ DragInv)
<1>1. TypeOK /\ DragInv /\ [Next]_vars => TypeOK' /\ DragInv'
  BY DragNext
<1> QED
  BY <1>1, DragInit, PTL DEF Spec

\* A drop that an X client reads was sent after the client was told, and
\* accepted, the position where the button was released: Xvisit::drop waits for
\* the status of the last position, and handleStatus sends a cached one first.
THEOREM DropsAtPointer ==
  ASSUME Revisit = FALSE
  PROVE  Spec => []DropAtPointer
<1>1. TypeOK /\ DragInv => DropAtPointer
  BY HeadsFit DEF DropAtPointer
<1> QED
  BY <1>1, DragSessions, PTL

=============================================================================
