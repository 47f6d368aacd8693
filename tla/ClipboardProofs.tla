-------------------------- MODULE ClipboardProofs --------------------------
(***************************************************************************)
(* Whatever X clients, the seat and the focus do, and however late X       *)
(* events arrive, the clipboard has one source at most and shows a Wayland *)
(* selection to X clients only while one of them is active.  When only X   *)
(* clients act while events are on their way, KWin's ownership, its source *)
(* and its answers agree with the X server's, and the last copy wins.      *)
(***************************************************************************)
EXTENDS Clipboard, TLAPS

\* The device of a Wayland source is that of the seat's selection, and the
\* source can go away again: clientActivated is connected while it exists.
SourceInv ==
  /\ selection \in Selected
  /\ m_waylandSource \in Device \cup {None}
  /\ OneSource
  /\ Shielded
  /\ m_waylandSource # None => m_checkConnection

\* None and Bridge are not devices.
LEMMA Names == None \notin Device /\ Bridge \notin Device /\ None # Bridge
BY NameAssumption DEF None, Bridge, KWin

\* Clipboard::checkWlSource leaves a source only for the native selection s of
\* an active Xwayland client, with clientActivated connected.
LEMMA CheckKeepsInv ==
  ASSUME NEW s \in Selected, NEW a, NEW x, NEW queue,
         NEW w \in Device \cup {None},
         w = None \/ x = NoSource,
         w = None \/ s = w \/ s \notin Device,
         CheckWlSource(s, a, w, x, queue)
  PROVE  /\ m_waylandSource' \in Device \cup {None}
         /\ m_waylandSource' = None \/ m_xSource' = NoSource
         /\ m_waylandSource' # None => /\ a = "x11" /\ s = m_waylandSource'
                                       /\ m_checkConnection'
BY Names DEF CheckWlSource, RemoveSource, Selected

\* The seat's selection is a device, the bridge or none.
LEMMA SelectionType ==
  ASSUME selection \in Selected, [Next]_vars
  PROVE  selection' \in Selected
BY DEF Next, HandleEvent, vars, kwinVars, Activate, WlSelect, WlClear,
     XSelect, XRelease, XAnswer, XRequest, OwnDisown, OwnClaim, ForeignClaim,
     StaleTargets, HandleTargets, SetSelection, HandleSelectionRequest, Selected

\* SourceInv holds initially.
LEMMA InitInv == Init => SourceInv
BY DEF Init, SourceInv, OneSource, Shielded, Selected

\* Every handler keeps SourceInv.
LEMMA NextInv == SourceInv /\ [Next]_vars => SourceInv'
<1> SUFFICES ASSUME SourceInv, [Next]_vars
             PROVE  SourceInv'
  OBVIOUS
<1> USE Names
<1>0. selection \in Selected /\ selection' \in Selected
  BY SelectionType DEF SourceInv
<1> USE <1>0
<1>1. ASSUME NEW a \in {"x11", "wayland", "none"}, Activate(a)
      PROVE  SourceInv'
  <2>1. CASE m_checkConnection
    <3>1. CheckWlSource(selection, a, m_waylandSource, m_xSource, events)
      BY <1>1, <2>1 DEF Activate
    <3>2. /\ m_waylandSource' \in Device \cup {None}
          /\ m_waylandSource' = None \/ m_xSource' = NoSource
          /\ m_waylandSource' # None => /\ a = "x11"
                                        /\ selection = m_waylandSource'
                                        /\ m_checkConnection'
      BY <3>1, CheckKeepsInv DEF SourceInv, OneSource, Shielded
    <3> QED
      BY <3>2, <1>1 DEF Activate, SourceInv, OneSource, Shielded
  <2>2. CASE ~m_checkConnection
    BY <1>1, <2>2 DEF Activate, SourceInv, OneSource, Shielded
  <2> QED
    BY <2>1, <2>2
<1>2. ASSUME NEW d \in Device, WlSelect(d)
      PROVE  SourceInv'
  <2>1. CheckWlSource(d, active, None, NoSource, events)
    BY <1>2 DEF WlSelect
  <2>2. d \in Selected
    BY DEF Selected
  <2>3. /\ m_waylandSource' \in Device \cup {None}
        /\ m_waylandSource' = None \/ m_xSource' = NoSource
        /\ m_waylandSource' # None => /\ active = "x11"
                                      /\ d = m_waylandSource'
                                      /\ m_checkConnection'
    BY <2>1, <2>2, CheckKeepsInv
  <2> QED
    BY <2>3, <1>2 DEF WlSelect, SourceInv, OneSource, Shielded
<1>3. ASSUME WlClear
      PROVE  SourceInv'
  <2>1. CheckWlSource(None, active, m_waylandSource, m_xSource, events)
    BY <1>3 DEF WlClear
  <2>2. None \in Selected
    BY DEF Selected
  <2>3. /\ m_waylandSource' \in Device \cup {None}
        /\ m_waylandSource' = None \/ m_xSource' = NoSource
        /\ m_waylandSource' # None => None = m_waylandSource'
    BY <2>1, <2>2, CheckKeepsInv DEF SourceInv, OneSource
  <2> QED
    BY <2>3, <1>3 DEF WlClear, SourceInv, OneSource, Shielded
<1>4. ASSUME NEW x \in XClient, XSelect(x) \/ XRelease(x) \/ XAnswer(x) \/ XRequest(x)
      PROVE  SourceInv'
  BY <1>4 DEF XSelect, XRelease, XAnswer, XRequest, kwinVars, SourceInv,
              OneSource, Shielded
<1>5. ASSUME OwnDisown \/ OwnClaim
      PROVE  SourceInv'
  BY <1>5 DEF OwnDisown, OwnClaim, SourceInv, OneSource, Shielded
<1>6. ASSUME ForeignClaim
      PROVE  SourceInv'
  BY <1>6 DEF ForeignClaim, SourceInv, OneSource, Shielded
<1>7. ASSUME StaleTargets
      PROVE  SourceInv'
  BY <1>7 DEF StaleTargets, kwinVars, SourceInv, OneSource, Shielded
<1>8. ASSUME HandleTargets
      PROVE  SourceInv'
  <2>1. m_waylandSource = None
    BY <1>8 DEF HandleTargets, SourceInv, OneSource
  <2>s. PICK s \in Selected : \E source : SetSelection(s, source)
    BY <1>8 DEF HandleTargets, Selected
  <2>2. PICK source : SetSelection(s, source)
    BY <2>s
  <2>3. CASE s = selection
    BY <2>1, <2>2, <2>3, <1>8
       DEF SetSelection, HandleTargets, SourceInv, OneSource, Shielded
  <2>4. CASE s # selection
    <3>1. CheckWlSource(s, active, m_waylandSource, source, Tail(events))
      BY <2>2, <2>4 DEF SetSelection
    <3>2. /\ m_waylandSource' \in Device \cup {None}
          /\ m_waylandSource' = None \/ m_xSource' = NoSource
          /\ m_waylandSource' # None => /\ active = "x11"
                                        /\ s = m_waylandSource'
                                        /\ m_checkConnection'
      BY <2>1, <3>1, CheckKeepsInv
    <3>3. selection' = s /\ active' = active
      BY <2>2, <2>4, <1>8 DEF SetSelection, HandleTargets
    <3> QED
      BY <3>2, <3>3 DEF SourceInv, OneSource, Shielded
  <2> QED
    BY <2>3, <2>4
<1>9. ASSUME HandleSelectionRequest
      PROVE  SourceInv'
  BY <1>9 DEF HandleSelectionRequest, kwinVars, SourceInv, OneSource, Shielded
<1>10. CASE UNCHANGED vars
  BY <1>10 DEF vars, SourceInv, OneSource, Shielded
<1> QED
  BY <1>1, <1>2, <1>3, <1>4, <1>5, <1>6, <1>7, <1>8, <1>9, <1>10
     DEF Next, HandleEvent

\* For any devices and X clients, and any order of events, only one of the two
\* sources of a Selection exists ("Only one of them at max can exist at the
\* same time", selection.h).
THEOREM AtMostOneSource == Spec => []OneSource
<1>1. SourceInv => OneSource
  BY DEF SourceInv
<1> QED
  BY InitInv, NextInv, <1>1, PTL DEF Spec

\* For any devices and X clients, and any order of events, X clients can reach
\* a Wayland selection only while an Xwayland client is active: checkWlSource
\* destroys the source "to shield against snooping X clients".
THEOREM AlwaysShielded == Spec => []Shielded
<1>1. SourceInv => Shielded
  BY DEF SourceInv
<1> QED
  BY InitInv, NextInv, <1>1, PTL DEF Spec

-----------------------------------------------------------------------------
(* Types.                                                                  *)

XEvent == [type : {"owner", "targets", "request"}, who : Owner, time : Nat]

Source == [owner : Owner, offers : SUBSET Mime, offered : BOOLEAN]

\* The events of the model are X events.
LEMMA EventTypes ==
  /\ \A x \in Owner, t \in Nat : OwnerEvent(x, t) \in XEvent
  /\ \A x \in Owner : TargetsEvent(x) \in XEvent
  /\ \A x \in Owner, t \in Nat : RequestEvent(x, t) \in XEvent
BY DEF XEvent, OwnerEvent, TargetsEvent, RequestEvent

\* A queue without its first event, and one with another at its end.
LEMMA Queues ==
  ASSUME NEW q \in Seq(XEvent)
  PROVE  /\ \A e \in XEvent : Append(q, e) \in Seq(XEvent)
         /\ q # <<>> => Tail(q) \in Seq(XEvent) /\ Head(q) \in XEvent
OBVIOUS

\* What KWin and the X server keep has its type whatever happens.
ServerType ==
  /\ owner \in Owner /\ ownerTime \in Nat /\ time \in Nat
  /\ m_timestamp \in Nat
  /\ events \in Seq(XEvent)

LEMMA CheckTypes ==
  ASSUME ServerType, NEW s, NEW a, NEW w, NEW x \in Source, NEW q \in Seq(XEvent),
         CheckWlSource(s, a, w, x, q)
  PROVE  /\ owner' \in Owner /\ ownerTime' \in Nat /\ time' \in Nat
         /\ events' \in Seq(XEvent)
         /\ m_xSource' \in Source
         /\ m_disownPending \in BOOLEAN => m_disownPending' \in BOOLEAN
         /\ m_checkConnection' \in BOOLEAN
<1> USE DEF ServerType
<1>1. KWin \in Owner /\ None \in Owner /\ NoSource \in Source
  BY DEF Owner, NoSource, Source
<1>2. m_xSource' \in Source /\ m_checkConnection' \in BOOLEAN
  BY <1>1 DEF CheckWlSource
<1>3. ASSUME Claim(KWin, q)
      PROVE  owner' \in Owner /\ ownerTime' \in Nat /\ time' \in Nat
             /\ events' \in Seq(XEvent)
  <2>1. OwnerEvent(KWin, time') \in XEvent
    BY <1>1, <1>3, EventTypes DEF Claim
  <2>2. QED
    BY <1>1, <1>3, <2>1, Queues DEF Claim
<1>4. ASSUME Disown(q)
      PROVE  owner' \in Owner /\ ownerTime' \in Nat /\ time' \in Nat
             /\ events' \in Seq(XEvent) /\ m_disownPending' \in BOOLEAN
  <2>1. owner' \in Owner /\ ownerTime' \in Nat /\ time' \in Nat
    BY <1>1, <1>4 DEF Disown
  <2>2. OwnerEvent(None, ownerTime') \in XEvent
    BY <1>1, <2>1, EventTypes
  <2>3. QED
    BY <1>4, <2>1, <2>2, Queues DEF Disown
<1>5. ASSUME Server(q)
      PROVE  owner' \in Owner /\ ownerTime' \in Nat /\ time' \in Nat
             /\ events' \in Seq(XEvent) /\ m_disownPending' = m_disownPending
  BY <1>5 DEF Server, serverVars
<1>6. \/ Server(q) \/ Disown(q)
      \/ Claim(KWin, q) /\ m_disownPending' = m_disownPending
  BY DEF CheckWlSource, RemoveSource
<1>7. QED
  BY <1>2, <1>3, <1>4, <1>5, <1>6

LEMMA TypeInit == Init => TypeOK
<1> SUFFICES ASSUME Init PROVE TypeOK
  OBVIOUS
<1>1. m_timestamp \in Nat
  BY BoundAssumption DEF Init
<1>2. m_xSource \in Source
  BY DEF Init, NoSource, Source, Owner
<1>3. events \in Seq(XEvent)
  BY DEF Init
<1> QED
  BY <1>1, <1>2, <1>3 DEF Init, TypeOK, Source, XEvent, Selected, Owner

LEMMA TypeStep == TypeOK /\ [Next]_vars => TypeOK'
<1> SUFFICES ASSUME TypeOK, [Next]_vars PROVE TypeOK'
  OBVIOUS
<1>0. /\ ServerType /\ m_xSource \in Source /\ NoSource \in Source
      /\ KWin \in Owner /\ None \in Owner /\ XClient \subseteq Owner
      /\ Device \subseteq Selected /\ None \in Selected /\ Bridge \in Selected
  BY DEF TypeOK, ServerType, XEvent, Source, NoSource, Owner, Selected
<1>1. ASSUME NEW s \in Selected, NEW a, NEW w \in Device \cup {None},
             NEW x \in Source, NEW q \in Seq(XEvent), CheckWlSource(s, a, w, x, q)
      PROVE  /\ ServerType' \/ m_timestamp' # m_timestamp
             /\ m_xSource' \in Source
             /\ m_disownPending' \in BOOLEAN /\ m_checkConnection' \in BOOLEAN
             /\ m_waylandSource' \in Device \cup {None}
  <2>1. m_waylandSource' \in Device \cup {None}
    BY <1>1 DEF CheckWlSource, RemoveSource
  <2>2. QED
    BY <1>0, <1>1, <2>1, CheckTypes DEF ServerType, TypeOK
<1>2. ASSUME NEW a \in {"x11", "wayland", "none"}, Activate(a)
      PROVE  TypeOK'
  <2>1. CASE m_checkConnection
    <3>1. CheckWlSource(selection, a, m_waylandSource, m_xSource, events)
      BY <1>2, <2>1 DEF Activate
    <3>2. /\ ServerType' /\ m_xSource' \in Source
          /\ m_disownPending' \in BOOLEAN /\ m_checkConnection' \in BOOLEAN
          /\ m_waylandSource' \in Device \cup {None}
      BY <1>0, <1>1, <1>2, <3>1 DEF Activate, TypeOK, ServerType
    <3>3. QED
      BY <1>2, <3>2 DEF Activate, TypeOK, ServerType, Source, XEvent
  <2>2. CASE ~m_checkConnection
    BY <1>2, <2>2 DEF Activate, Server, serverVars, TypeOK
  <2>3. QED
    BY <2>1, <2>2
<1>3. ASSUME NEW d \in Device, WlSelect(d)
      PROVE  TypeOK'
  <2>1. CheckWlSource(d, active, None, NoSource, events) /\ d \in Selected
    BY <1>0, <1>3 DEF WlSelect
  <2>2. /\ ServerType' /\ m_xSource' \in Source
        /\ m_disownPending' \in BOOLEAN /\ m_checkConnection' \in BOOLEAN
        /\ m_waylandSource' \in Device \cup {None}
    BY <1>0, <1>1, <1>3, <2>1 DEF WlSelect, TypeOK, ServerType
  <2>3. QED
    BY <1>3, <2>1, <2>2 DEF WlSelect, TypeOK, ServerType, Source, XEvent
<1>4. ASSUME WlClear
      PROVE  TypeOK'
  <2>1. CheckWlSource(None, active, m_waylandSource, m_xSource, events)
    BY <1>4 DEF WlClear
  <2>2. /\ ServerType' /\ m_xSource' \in Source
        /\ m_disownPending' \in BOOLEAN /\ m_checkConnection' \in BOOLEAN
        /\ m_waylandSource' \in Device \cup {None}
    BY <1>0, <1>1, <1>4, <2>1 DEF WlClear, TypeOK, ServerType
  <2>3. QED
    BY <1>0, <1>4, <2>2 DEF WlClear, TypeOK, ServerType, Source, XEvent
<1>5. ASSUME NEW x \in XClient, XSelect(x)
      PROVE  TypeOK'
  <2>1. time' \in Nat /\ OwnerEvent(x, time') \in XEvent
    BY <1>0, <1>5, EventTypes DEF XSelect, Claim, ServerType
  <2>2. events' \in Seq(XEvent)
    BY <1>0, <1>5, <2>1, Queues DEF XSelect, Claim, ServerType
  <2>3. QED
    BY <1>0, <1>5, <2>1, <2>2 DEF XSelect, Claim, kwinVars, TypeOK, XEvent
<1>6. ASSUME NEW x \in XClient, XRelease(x)
      PROVE  TypeOK'
  <2>1. events' \in Seq(XEvent)
    BY <1>0, <1>6, EventTypes, Queues DEF XRelease, ServerType
  <2>2. QED
    BY <1>0, <1>6, <2>1 DEF XRelease, kwinVars, TypeOK, XEvent
<1>7. ASSUME NEW x \in XClient, XAnswer(x)
      PROVE  TypeOK'
  <2>1. events' \in Seq(XEvent)
    BY <1>0, <1>7, EventTypes, Queues DEF XAnswer, ServerType
  <2>2. QED
    BY <1>0, <1>7, <2>1 DEF XAnswer, kwinVars, serverVars, TypeOK, XEvent
<1>8. ASSUME NEW x \in XClient, XRequest(x)
      PROVE  TypeOK'
  <2>1. events' \in Seq(XEvent)
    BY <1>0, <1>8, EventTypes, Queues DEF XRequest, ServerType
  <2>2. QED
    BY <1>0, <1>8, <2>1 DEF XRequest, kwinVars, serverVars, TypeOK, XEvent
<1>9. ASSUME NEW type, Event(type)
      PROVE  Tail(events) \in Seq(XEvent) /\ Head(events) \in XEvent
  BY <1>0, <1>9, Queues DEF Event, ServerType
<1>10. ASSUME OwnDisown
       PROVE  TypeOK'
  <2>1. events' \in Seq(XEvent)
    BY <1>9, <1>10 DEF OwnDisown
  <2>2. QED
    BY <1>10, <2>1 DEF OwnDisown, serverVars, TypeOK, XEvent
<1>11. ASSUME OwnClaim
       PROVE  TypeOK'
  <2>1. events' \in Seq(XEvent) /\ m_timestamp' \in Nat
    BY <1>9, <1>11 DEF OwnClaim, XEvent
  <2>2. QED
    BY <1>11, <2>1 DEF OwnClaim, serverVars, TypeOK, XEvent
<1>12. ASSUME ForeignClaim
       PROVE  TypeOK'
  <2>1. Tail(events) \in Seq(XEvent) /\ Head(events).who \in Owner
    BY <1>9, <1>12 DEF ForeignClaim, XEvent
  <2>2. /\ RequestEvent(KWin, time) \in XEvent
        /\ TargetsEvent(None) \in XEvent
    BY <1>0, EventTypes DEF ServerType
  <2>3. /\ Append(Tail(events), RequestEvent(KWin, time)) \in Seq(XEvent)
        /\ Append(Tail(events), TargetsEvent(None)) \in Seq(XEvent)
    BY <2>1, <2>2, Queues
  <2>4. events' \in Seq(XEvent) /\ asked' \in SUBSET XClient
    <3>1. \/ GetTargets(Tail(events))
          \/ events' = Tail(events) /\ asked' = asked
      BY <1>12 DEF ForeignClaim
    <3>2. asked \in SUBSET XClient
      BY DEF TypeOK
    <3> HIDE <1>12
    <3>3. QED
      BY <2>1, <2>3, <3>1, <3>2 DEF GetTargets
  <2>5. m_xSource' \in Source
    BY <1>0, <1>12, <2>1 DEF ForeignClaim, Source, NoSource
  <2>6. QED
    BY <1>12, <2>4, <2>5 DEF ForeignClaim, serverVars, TypeOK, XEvent, Source
<1>13. ASSUME StaleTargets
       PROVE  TypeOK'
  <2>1. events' \in Seq(XEvent)
    BY <1>9, <1>13 DEF StaleTargets
  <2>2. QED
    BY <1>0, <1>13, <2>1 DEF StaleTargets, kwinVars, serverVars, TypeOK, XEvent
<1>14. ASSUME HandleTargets
       PROVE  TypeOK'
  <2>1. Tail(events) \in Seq(XEvent) /\ property \in Owner \ {None}
    BY <1>9, <1>14 DEF HandleTargets, TypeOK
  <2>2. Targets \in SUBSET Mime
    BY <2>1, TargetsAssumption DEF Targets, Owner
  <2>3. PICK s \in Selected, source \in Source : SetSelection(s, source)
    <3> DEFINE src == [m_xSource EXCEPT !.offers = Targets,
                                        !.offered = @ \/ Targets # {}]
    <3>1. src \in Source
      BY <1>0, <2>2 DEF Source
    <3>2. \E s \in Selected : SetSelection(s, src)
      BY <1>0, <1>14 DEF HandleTargets, TypeOK
    <3> HIDE DEF src
    <3>3. QED
      BY <3>1, <3>2
  <2>4. /\ ServerType' /\ m_xSource' \in Source
        /\ m_disownPending' \in BOOLEAN /\ m_checkConnection' \in BOOLEAN
        /\ m_waylandSource' \in Device \cup {None}
        /\ selection' \in Selected
    <3>1. CASE s = selection
      BY <1>0, <1>14, <2>1, <2>3, <3>1 DEF SetSelection, HandleTargets, Server,
         serverVars, ServerType, TypeOK
    <3>2. CASE s # selection
      <4>1. /\ CheckWlSource(s, active, m_waylandSource, source, Tail(events))
            /\ selection' = s /\ m_timestamp' = m_timestamp
        BY <1>14, <2>3, <3>2 DEF SetSelection, HandleTargets
      <4>2. QED
        BY <1>1, <2>1, <4>1 DEF TypeOK
    <3>3. QED
      BY <3>1, <3>2
  <2>5. QED
    BY <1>0, <1>14, <2>4 DEF HandleTargets, TypeOK, ServerType, XEvent, Source
<1>15. ASSUME HandleSelectionRequest
       PROVE  TypeOK'
  <2>1. Tail(events) \in Seq(XEvent)
    BY <1>9, <1>15 DEF HandleSelectionRequest
  <2>2. /\ Append(Tail(events), TargetsEvent(KWin)) \in Seq(XEvent)
        /\ Append(Tail(events), TargetsEvent(None)) \in Seq(XEvent)
    BY <1>0, <2>1, EventTypes, Queues
  <2>3. events' \in Seq(XEvent)
    BY <1>15, <2>1, <2>2 DEF HandleSelectionRequest
  <2>4. property' \in Owner /\ reply' \in {"none", "served", "refused", "ignored"}
    BY <1>0, <1>15 DEF HandleSelectionRequest, TypeOK
  <2>5. QED
    BY <1>15, <2>3, <2>4 DEF HandleSelectionRequest, kwinVars, serverVars,
       TypeOK, XEvent
<1>16. CASE UNCHANGED vars
  BY <1>16 DEF vars, TypeOK
<1> QED
  BY <1>2, <1>3, <1>4, <1>5, <1>6, <1>7, <1>8, <1>10, <1>11, <1>12, <1>13,
     <1>14, <1>15, <1>16 DEF Next, HandleEvent

-----------------------------------------------------------------------------
(* Queues of X events.                                                     *)

NoOwnerEvent(q) == \A i \in 1..Len(q) : q[i].type # "owner"
NoRequest(q) == \A i \in 1..Len(q) : q[i].type # "request"
OnlyOwnClaims(q) ==
  \A i \in 1..Len(q) : q[i].type = "owner" => q[i].who = KWin
NoOwnClaim(q) ==
  \A i \in 1..Len(q) : q[i].type = "owner" => q[i].who # KWin

\* A claim of KWin is the first event: KWin claims only when the queue is empty.
OwnClaimFirst(q) ==
  \A i \in 1..Len(q) : q[i].type = "owner" /\ q[i].who = KWin => i = 1

\* The last notify of the queue tells the owner o and the time t.
LastTells(q, o, t) ==
  \A i \in 1..Len(q) :
    q[i].type = "owner" /\ (\A j \in 1..Len(q) : j > i => q[j].type # "owner")
      => q[i].who = o /\ q[i].time = t

\* Requests come from X clients and were sent when KWin was the owner: no other
\* owner is announced before them.
RequestsForKWin(q) ==
  \A i \in 1..Len(q) : q[i].type = "request" =>
    /\ q[i].who # KWin
    /\ \A j \in 1..Len(q) : j < i /\ q[j].type = "owner" => q[j].who = KWin

\* The first event of a queue is handled.
LEMMA TailQueue ==
  ASSUME NEW q \in Seq(XEvent), q # <<>>, NEW o, NEW t,
         OwnClaimFirst(q), LastTells(q, o, t), RequestsForKWin(q)
  PROVE  /\ NoOwnClaim(Tail(q)) /\ OwnClaimFirst(Tail(q))
         /\ LastTells(Tail(q), o, t)
         /\ RequestsForKWin(Tail(q))
         /\ NoRequest(q) => NoRequest(Tail(q))
         /\ OnlyOwnClaims(q) => NoOwnerEvent(Tail(q))
         /\ NoOwnerEvent(Tail(q)) /\ Head(q).type = "owner"
              => Head(q).who = o /\ Head(q).time = t
         /\ NoOwnerEvent(Tail(q)) /\ Head(q).type # "owner" => NoOwnerEvent(q)
         /\ Head(q).type = "owner" /\ Head(q).who # KWin => NoRequest(Tail(q))
<1>1. /\ Len(q) \in Nat /\ Len(q) > 0 /\ Len(Tail(q)) = Len(q) - 1
      /\ Head(q) = q[1]
      /\ \A i \in 1..Len(Tail(q)) : Tail(q)[i] = q[i + 1] /\ i + 1 \in 1..Len(q)
      /\ \A i \in 1..Len(q) : i = 1 \/ i - 1 \in 1..Len(Tail(q))
  OBVIOUS
<1> DEFINE r == Tail(q)
<1>2. \A i \in 1..Len(r) : r[i] = q[i + 1] /\ i + 1 \in 1..Len(q) /\ i + 1 > 1
  BY <1>1
<1>3. \A i \in 1..Len(q) : i = 1 \/ (i - 1 \in 1..Len(r) /\ r[i - 1] = q[i])
  <2> SUFFICES ASSUME NEW i \in 1..Len(q), i # 1
               PROVE  i - 1 \in 1..Len(r) /\ r[i - 1] = q[i]
    OBVIOUS
  <2>1. i - 1 \in 1..Len(r) /\ (i - 1) + 1 = i
    BY <1>1
  <2>2. QED
    BY <1>2, <2>1
<1>4. Len(r) = Len(q) - 1 /\ Len(q) \in Nat /\ Len(q) > 0 /\ Head(q) = q[1]
      /\ 1 \in 1..Len(q)
  BY <1>1
<1> HIDE DEF r
<1>5. NoOwnClaim(r)
  BY <1>2 DEF OwnClaimFirst, NoOwnClaim
<1>6. OwnClaimFirst(r)
  BY <1>5 DEF OwnClaimFirst, NoOwnClaim
<1>7. LastTells(r, o, t)
  <2> SUFFICES ASSUME NEW i \in 1..Len(r), r[i].type = "owner",
                      \A j \in 1..Len(r) : j > i => r[j].type # "owner"
               PROVE  r[i].who = o /\ r[i].time = t
    BY DEF LastTells
  <2>1. i + 1 \in 1..Len(q) /\ r[i] = q[i + 1]
    BY <1>2
  <2>2. ASSUME NEW j \in 1..Len(q), j > i + 1
        PROVE  q[j].type # "owner"
    <3>1. j - 1 \in 1..Len(r) /\ r[j - 1] = q[j]
      BY <1>3, <2>2
    <3>2. j - 1 > i
      BY <2>2, <1>4
    <3>3. QED
      BY <3>1, <3>2
  <2>3. QED
    BY <2>1, <2>2 DEF LastTells
<1>8. RequestsForKWin(r)
  <2> SUFFICES ASSUME NEW i \in 1..Len(r), r[i].type = "request"
               PROVE  /\ r[i].who # KWin
                      /\ \A j \in 1..Len(r) : j < i /\ r[j].type = "owner"
                           => r[j].who = KWin
    BY DEF RequestsForKWin
  <2>1. i + 1 \in 1..Len(q) /\ r[i] = q[i + 1]
    BY <1>2
  <2>2. ASSUME NEW j \in 1..Len(r), j < i, r[j].type = "owner"
        PROVE  r[j].who = KWin
    <3>1. j + 1 \in 1..Len(q) /\ r[j] = q[j + 1] /\ j + 1 < i + 1
      BY <1>2, <1>4, <2>2
    <3>2. QED
      BY <2>1, <2>2, <3>1 DEF RequestsForKWin
  <2>3. QED
    BY <2>1, <2>2 DEF RequestsForKWin
<1>9. NoRequest(q) => NoRequest(r)
  BY <1>2 DEF NoRequest
<1>10. OnlyOwnClaims(q) => NoOwnerEvent(r)
  BY <1>2, <1>5 DEF OnlyOwnClaims, NoOwnerEvent, NoOwnClaim
<1>11. ASSUME NoOwnerEvent(r), Head(q).type = "owner"
       PROVE  Head(q).who = o /\ Head(q).time = t
  <2>1. \A j \in 1..Len(q) : j > 1 => q[j].type # "owner"
    BY <1>3, <1>11 DEF NoOwnerEvent
  <2>2. QED
    BY <1>4, <1>11, <2>1 DEF LastTells
<1>12. NoOwnerEvent(r) /\ Head(q).type # "owner" => NoOwnerEvent(q)
  BY <1>3, <1>4 DEF NoOwnerEvent
<1>13. ASSUME Head(q).type = "owner", Head(q).who # KWin
       PROVE  NoRequest(r)
  <2> SUFFICES ASSUME NEW i \in 1..Len(r), r[i].type = "request" PROVE FALSE
    BY DEF NoRequest
  <2>1. i + 1 \in 1..Len(q) /\ q[i + 1].type = "request" /\ 1 < i + 1
    BY <1>2
  <2>2. QED
    BY <1>4, <1>13, <2>1 DEF RequestsForKWin
<1> QED
  BY <1>5, <1>6, <1>7, <1>8, <1>9, <1>10, <1>11, <1>12, <1>13 DEF r

\* An event that is no request is added.
LEMMA AppendQueue ==
  ASSUME NEW q \in Seq(XEvent), NEW e \in XEvent, NEW o, NEW t,
         OwnClaimFirst(q), RequestsForKWin(q)
  PROVE  /\ e.type = "owner" /\ e.who # KWin => OwnClaimFirst(Append(q, e))
         /\ e.type # "owner" => OwnClaimFirst(Append(q, e))
         /\ e.type = "owner" => LastTells(Append(q, e), e.who, e.time)
         /\ e.type # "owner" /\ LastTells(q, o, t) => LastTells(Append(q, e), o, t)
         /\ e.type # "request" => RequestsForKWin(Append(q, e))
         /\ e.type = "request" /\ e.who # KWin /\ OnlyOwnClaims(q)
              => RequestsForKWin(Append(q, e))
         /\ e.type # "request" /\ NoRequest(q) => NoRequest(Append(q, e))
         /\ NoOwnClaim(q) /\ (e.type = "owner" => e.who # KWin)
              => NoOwnClaim(Append(q, e))
         /\ e.type # "owner" /\ OnlyOwnClaims(q) => OnlyOwnClaims(Append(q, e))
         /\ NoOwnerEvent(Append(q, e)) => NoOwnerEvent(q) /\ e.type # "owner"
         /\ e.type # "owner" /\ NoOwnerEvent(q) => NoOwnerEvent(Append(q, e))
         /\ q # <<>> => Append(q, e)[1] = q[1]
<1> DEFINE r == Append(q, e)
<1>1. /\ Len(q) \in Nat /\ Len(r) = Len(q) + 1 /\ r[Len(r)] = e
      /\ \A i \in 1..Len(q) : r[i] = q[i]
      /\ q # <<>> => Len(q) > 0
  OBVIOUS
<1>2. \A i \in 1..Len(r) : i = Len(r) \/ i \in 1..Len(q)
  BY <1>1
<1>3. \A i \in 1..Len(q) : i \in 1..Len(r) /\ i < Len(r)
  BY <1>1
<1>4. Len(r) \in 1..Len(r) /\ Len(r) \in Nat
  BY <1>1
<1> HIDE DEF r
<1>5. /\ e.type = "owner" /\ e.who # KWin => OwnClaimFirst(r)
      /\ e.type # "owner" => OwnClaimFirst(r)
  BY <1>1, <1>2 DEF OwnClaimFirst
<1>6. ASSUME e.type = "owner"
      PROVE  LastTells(r, e.who, e.time)
  <2> SUFFICES ASSUME NEW i \in 1..Len(r),
                      \A j \in 1..Len(r) : j > i => r[j].type # "owner"
               PROVE  i = Len(r)
    BY <1>1 DEF LastTells
  <2>1. CASE i \in 1..Len(q)
    BY <1>1, <1>3, <1>4, <1>6, <2>1
  <2>2. QED
    BY <1>2, <2>1
<1>7. ASSUME e.type # "owner", LastTells(q, o, t)
      PROVE  LastTells(r, o, t)
  <2> SUFFICES ASSUME NEW i \in 1..Len(r), r[i].type = "owner",
                      \A j \in 1..Len(r) : j > i => r[j].type # "owner"
               PROVE  r[i].who = o /\ r[i].time = t
    BY DEF LastTells
  <2>1. i \in 1..Len(q) /\ r[i] = q[i]
    BY <1>1, <1>2, <1>7
  <2>2. \A j \in 1..Len(q) : j > i => q[j].type # "owner"
    BY <1>1, <1>3
  <2>3. QED
    BY <1>7, <2>1, <2>2 DEF LastTells
<1>8. ASSUME NEW i \in 1..Len(q), r[i].type = "request"
      PROVE  /\ r[i].who # KWin
             /\ \A j \in 1..Len(r) : j < i /\ r[j].type = "owner"
                  => r[j].who = KWin
  <2>1. \A j \in 1..Len(r) : j < i => j \in 1..Len(q)
    BY <1>1
  <2>2. QED
    BY <1>1, <1>8, <2>1 DEF RequestsForKWin
<1>9. e.type # "request" => RequestsForKWin(r)
  BY <1>1, <1>2, <1>8 DEF RequestsForKWin
<1>10. ASSUME e.type = "request", e.who # KWin, OnlyOwnClaims(q)
       PROVE  RequestsForKWin(r)
  <2>1. \A j \in 1..Len(r) : r[j].type = "owner" => r[j].who = KWin
    BY <1>1, <1>2, <1>10 DEF OnlyOwnClaims
  <2>2. QED
    BY <1>1, <1>2, <1>8, <1>10, <2>1 DEF RequestsForKWin
<1>11. /\ e.type # "request" /\ NoRequest(q) => NoRequest(r)
       /\ NoOwnClaim(q) /\ (e.type = "owner" => e.who # KWin) => NoOwnClaim(r)
       /\ e.type # "owner" /\ OnlyOwnClaims(q) => OnlyOwnClaims(r)
       /\ e.type # "owner" /\ NoOwnerEvent(q) => NoOwnerEvent(r)
  BY <1>1, <1>2 DEF NoRequest, NoOwnClaim, OnlyOwnClaims, NoOwnerEvent
<1>12. NoOwnerEvent(r) => NoOwnerEvent(q) /\ e.type # "owner"
  BY <1>1, <1>3, <1>4 DEF NoOwnerEvent
<1>13. q # <<>> => r[1] = q[1]
  BY <1>1
<1> QED
  BY <1>5, <1>6, <1>7, <1>9, <1>10, <1>11, <1>12, <1>13 DEF r

-----------------------------------------------------------------------------
(* X clients act at any time, the seat and the focus only when nothing is  *)
(* on its way.  What KWin knows of the X selection is then behind the X    *)
(* server only by the notifies in the queue.                               *)

\* With no notify on its way KWin knows the owner and the time of its claim.
Settled ==
  /\ owner = KWin <=> m_waylandSource # None
  /\ m_waylandSource # None => m_timestamp = ownerTime
  /\ m_xSource # NoSource => m_xSource.owner = owner /\ owner \in XClient

QueueInv ==
  /\ ownerTime <= time
  /\ OwnClaimFirst(events)
  /\ LastTells(events, owner, ownerTime)
  /\ RequestsForKWin(events)
  /\ m_waylandSource = None => NoRequest(events) /\ NoOwnClaim(events)
  /\ owner = KWin => m_waylandSource # None /\ OnlyOwnClaims(events)
  /\ m_disownPending => /\ events # <<>>
                        /\ events[1].type = "owner" /\ events[1].who = None
                        /\ m_waylandSource = None /\ m_xSource = NoSource
  /\ NoOwnerEvent(events) => Settled

\* KWin, None and the X clients differ.
LEMMA Owners == KWin # None /\ KWin \notin XClient /\ None \notin XClient
BY NameAssumption DEF KWin, None, Bridge

\* Queues of no event and of one event.
LEMMA ShortQueues ==
  /\ <<>> \in Seq(XEvent)
  /\ OwnClaimFirst(<<>>) /\ RequestsForKWin(<<>>)
  /\ NoOwnerEvent(<<>>) /\ NoRequest(<<>>) /\ NoOwnClaim(<<>>)
  /\ \A o, t : LastTells(<<>>, o, t)
  /\ \A x \in Owner, t \in Nat :
       LET q == Append(<<>>, OwnerEvent(x, t))
       IN  /\ q # <<>> /\ q[1].type = "owner" /\ q[1].who = x
           /\ OwnClaimFirst(q) /\ LastTells(q, x, t) /\ RequestsForKWin(q)
           /\ NoRequest(q) /\ ~NoOwnerEvent(q)
           /\ x = KWin => OnlyOwnClaims(q)
           /\ x # KWin => NoOwnClaim(q)
<1>1. Len(<<>>) = 0 /\ 1..0 = {} /\ <<>> \in Seq(XEvent)
  OBVIOUS
<1>2. ASSUME NEW x \in Owner, NEW t \in Nat, NEW q,
             q = Append(<<>>, OwnerEvent(x, t))
      PROVE  /\ q # <<>> /\ q[1].type = "owner" /\ q[1].who = x
             /\ OwnClaimFirst(q) /\ LastTells(q, x, t) /\ RequestsForKWin(q)
             /\ NoRequest(q) /\ ~NoOwnerEvent(q)
             /\ x = KWin => OnlyOwnClaims(q)
             /\ x # KWin => NoOwnClaim(q)
  <2>1. Len(q) = 1 /\ q[1] = OwnerEvent(x, t) /\ 1..1 = {1}
    BY <1>2, EventTypes
  <2>2. q[1].type = "owner" /\ q[1].who = x /\ q[1].time = t
    BY <2>1 DEF OwnerEvent
  <2> HIDE <1>2
  <2>3. q # <<>>
    BY <2>1
  <2>4. QED
    BY <2>1, <2>2, <2>3 DEF OwnClaimFirst, LastTells, RequestsForKWin,
       NoRequest, NoOwnerEvent, OnlyOwnClaims, NoOwnClaim
<1>3. /\ OwnClaimFirst(<<>>) /\ RequestsForKWin(<<>>)
      /\ NoOwnerEvent(<<>>) /\ NoRequest(<<>>) /\ NoOwnClaim(<<>>)
      /\ \A o, t : LastTells(<<>>, o, t)
  BY <1>1 DEF OwnClaimFirst, LastTells, RequestsForKWin, NoRequest,
     NoOwnerEvent, NoOwnClaim
<1>4. QED
  BY <1>1, <1>2, <1>3

\* Clipboard::checkWlSource with an empty queue: the server takes note of all
\* that KWin asks for.
LEMMA QuietCheck ==
  ASSUME TypeOK, QueueInv, events = <<>>,
         NEW s \in Selected, NEW a, NEW w \in Device \cup {None}, NEW x,
         w = m_waylandSource \/ (w = None /\ s \in Device),
         a # "x11" /\ w = None => m_waylandSource = None,
         x = m_xSource \/ x = NoSource,
         CheckWlSource(s, a, w, x, events),
         m_timestamp' = m_timestamp
  PROVE  QueueInv'
<1>1. /\ ~m_disownPending /\ Settled /\ ownerTime <= time
      /\ owner \in Owner /\ ownerTime \in Nat /\ time \in Nat
      /\ m_timestamp \in Nat
      /\ KWin \in Owner /\ None \in Owner
  BY ShortQueues DEF QueueInv, TypeOK, Owner
<1>2. CASE /\ Server(<<>>) /\ m_waylandSource' = m_waylandSource
           /\ m_xSource' \in {m_xSource, NoSource}
  <2>1. /\ events' = <<>> /\ owner' = owner /\ ownerTime' = ownerTime
        /\ time' = time /\ m_disownPending' = m_disownPending
    BY <1>2 DEF Server, serverVars
  <2>2. Settled'
    BY <1>1, <1>2, <2>1 DEF Settled
  <2>3. owner' = KWin => m_waylandSource' # None /\ OnlyOwnClaims(events)'
    BY <1>2, <2>1, ShortQueues DEF QueueInv
  <2>4. QED
    BY <1>1, <2>1, <2>2, <2>3, ShortQueues DEF QueueInv
<1>3. CASE Disown(<<>>) /\ w = m_waylandSource /\ w # None
           /\ m_waylandSource' = None /\ m_xSource' = NoSource
  <2>1. m_timestamp = ownerTime
    BY <1>1, <1>3 DEF Settled
  <2>2. m_timestamp \in ownerTime..time
    BY <1>1, <2>1
  <2>3. /\ m_disownPending' /\ owner' = None /\ time' = time
        /\ ownerTime' = IF m_timestamp = 0 THEN time ELSE m_timestamp
        /\ events' = Append(<<>>, OwnerEvent(None, ownerTime'))
    BY <1>3, <2>2 DEF Disown
  <2>4. ownerTime' \in Nat /\ ownerTime' <= time'
    BY <1>1, <2>1, <2>3
  <2>5. QED
    BY <1>1, <1>3, <2>3, <2>4, ShortQueues, Owners DEF QueueInv
<1>4. CASE /\ Claim(KWin, <<>>) /\ m_disownPending' = m_disownPending
           /\ m_waylandSource' # None /\ m_xSource' = NoSource
  <2>1. /\ owner' = KWin /\ time' = time + 1 /\ ownerTime' = time'
        /\ events' = Append(<<>>, OwnerEvent(KWin, ownerTime'))
    BY <1>4 DEF Claim
  <2>2. ownerTime' \in Nat /\ ownerTime' <= time'
    BY <1>1, <2>1
  <2>3. QED
    BY <1>1, <1>4, <2>1, <2>2, ShortQueues DEF QueueInv
<1>5. QED
  BY <1>2, <1>3, <1>4, Names DEF CheckWlSource, RemoveSource, Selected

LEMMA QueueInvStep ==
  ASSUME Racing \subseteq {"x11"}, TypeOK, SourceInv, QueueInv, [Next]_vars
  PROVE  QueueInv'
<1>0. /\ events \in Seq(XEvent) /\ owner \in Owner
      /\ ownerTime \in Nat /\ time \in Nat /\ m_timestamp \in Nat
      /\ selection \in Selected /\ m_waylandSource \in Device \cup {None}
      /\ KWin \in Owner /\ None \in Owner /\ XClient \subseteq Owner
      /\ OwnClaimFirst(events) /\ LastTells(events, owner, ownerTime)
      /\ RequestsForKWin(events) /\ ownerTime <= time
  BY DEF TypeOK, XEvent, Owner, QueueInv
<1>1. ASSUME NEW a \in {"x11", "wayland", "none"}, Activate(a)
      PROVE  QueueInv'
  <2>1. events = <<>> /\ m_timestamp' = m_timestamp
    BY <1>1 DEF Activate, MayAct, Quiet
  <2>2. CASE m_checkConnection
    BY <1>0, <1>1, <2>1, <2>2, QuietCheck DEF Activate
  <2>3. CASE ~m_checkConnection
    <3>1. UNCHANGED <<events, owner, ownerTime, time, m_disownPending,
                      m_waylandSource, m_xSource>>
      BY <1>1, <2>3 DEF Activate, Server, serverVars
    <3>2. QED
      BY <2>1, <3>1 DEF QueueInv, Settled
  <2>4. QED
    BY <2>2, <2>3
<1>2. ASSUME NEW d \in Device, WlSelect(d)
      PROVE  QueueInv'
  <2>1. events = <<>> /\ m_timestamp' = m_timestamp
    BY <1>2 DEF WlSelect, MayAct, Quiet
  <2>2. CheckWlSource(d, active, None, NoSource, events) /\ d \in Selected
    BY <1>2 DEF WlSelect, Selected
  <2>3. active # "x11" => m_waylandSource = None
    BY DEF SourceInv, Shielded
  <2>4. QED
    BY <1>0, <2>1, <2>2, <2>3, QuietCheck
<1>3. ASSUME WlClear
      PROVE  QueueInv'
  <2>1. events = <<>> /\ m_timestamp' = m_timestamp
    BY <1>3 DEF WlClear, MayAct, Quiet
  <2>2. /\ CheckWlSource(None, active, m_waylandSource, m_xSource, events)
        /\ None \in Selected
    BY <1>3 DEF WlClear, Selected
  <2>3. QED
    BY <1>0, <2>1, <2>2, QuietCheck
<1>4. ASSUME NEW x \in XClient, XSelect(x)
      PROVE  QueueInv'
  <2> DEFINE e == OwnerEvent(x, time')
  <2>1. /\ owner' = x /\ time' = time + 1 /\ ownerTime' = time'
        /\ events' = Append(events, e)
        /\ UNCHANGED <<m_waylandSource, m_xSource, m_timestamp,
                       m_disownPending>>
    BY <1>4 DEF XSelect, Claim, kwinVars
  <2>2. ownerTime' \in Nat /\ ownerTime' <= time'
    BY <1>0, <2>1
  <2>3. e \in XEvent /\ e.type = "owner" /\ e.who = x /\ e.time = ownerTime'
    BY <1>0, <2>1, <2>2, EventTypes DEF OwnerEvent
  <2> HIDE DEF e
  <2>4. events' # <<>>
    BY <1>0, <2>1, <2>3
  <2>5. QED
    BY <1>0, <2>1, <2>2, <2>3, <2>4, AppendQueue, Owners DEF QueueInv
<1>5. ASSUME NEW x \in XClient, XRelease(x)
      PROVE  QueueInv'
  <2> DEFINE e == OwnerEvent(None, ownerTime)
  <2>1. /\ owner' = None /\ events' = Append(events, e)
        /\ UNCHANGED <<ownerTime, time, m_waylandSource, m_xSource, m_timestamp,
                       m_disownPending>>
    BY <1>5 DEF XRelease, kwinVars
  <2>2. e \in XEvent /\ e.type = "owner" /\ e.who = None /\ e.time = ownerTime'
    BY <1>0, <2>1, EventTypes DEF OwnerEvent
  <2> HIDE DEF e
  <2>3. events' # <<>>
    BY <1>0, <2>1, <2>2
  <2>4. QED
    BY <1>0, <2>1, <2>2, <2>3, AppendQueue, Owners DEF QueueInv
<1>6. ASSUME NEW x \in XClient, XAnswer(x)
      PROVE  QueueInv'
  <2> DEFINE e == TargetsEvent(x)
  <2>1. /\ events' = Append(events, e)
        /\ UNCHANGED <<owner, ownerTime, time, m_waylandSource, m_xSource,
                       m_timestamp, m_disownPending>>
    BY <1>6 DEF XAnswer, kwinVars, serverVars
  <2>2. e \in XEvent /\ e.type = "targets"
    BY <1>0, EventTypes DEF TargetsEvent
  <2> HIDE DEF e
  <2>3. events' # <<>>
    BY <1>0, <2>1, <2>2
  <2>4. QED
    BY <1>0, <2>1, <2>2, <2>3, AppendQueue DEF QueueInv, Settled
<1>7. ASSUME NEW x \in XClient, XRequest(x)
      PROVE  QueueInv'
  <2> DEFINE e == RequestEvent(x, time)
  <2>1. /\ events' = Append(events, e)
        /\ UNCHANGED <<owner, ownerTime, time, m_waylandSource, m_xSource,
                       m_timestamp, m_disownPending>>
    BY <1>7 DEF XRequest, kwinVars, serverVars
  <2>2. e \in XEvent /\ e.type = "request" /\ e.who = x
    BY <1>0, EventTypes DEF RequestEvent
  <2>3. m_waylandSource # None /\ OnlyOwnClaims(events) /\ e.who # KWin
    BY <1>7, <2>2, Owners DEF XRequest, QueueInv
  <2> HIDE DEF e
  <2>4. events' # <<>>
    BY <1>0, <2>1, <2>2
  <2>5. QED
    BY <1>0, <2>1, <2>2, <2>3, <2>4, AppendQueue DEF QueueInv, Settled
\* The first event is handled.
<1>8. ASSUME NEW type, Event(type)
      PROVE  /\ events # <<>> /\ Head(events).type = type
             /\ Head(events) = events[1] /\ Head(events) \in XEvent
             /\ Tail(events) \in Seq(XEvent)
             /\ NoOwnClaim(Tail(events)) /\ OwnClaimFirst(Tail(events))
             /\ LastTells(Tail(events), owner, ownerTime)
             /\ RequestsForKWin(Tail(events))
             /\ NoRequest(events) => NoRequest(Tail(events))
             /\ OnlyOwnClaims(events) => NoOwnerEvent(Tail(events))
             /\ NoOwnerEvent(Tail(events)) /\ type = "owner" =>
                  Head(events).who = owner /\ Head(events).time = ownerTime
             /\ NoOwnerEvent(Tail(events)) /\ type # "owner" => NoOwnerEvent(events)
             /\ type = "owner" /\ Head(events).who # KWin => NoRequest(Tail(events))
             /\ NoOwnerEvent(Tail(events)) => OnlyOwnClaims(Tail(events))
             /\ m_disownPending => type = "owner" /\ Head(events).who = None
  <2>1. events # <<>> /\ Head(events).type = type
    BY <1>8 DEF Event
  <2>2. Head(events) = events[1] /\ Head(events) \in XEvent
        /\ Tail(events) \in Seq(XEvent)
    BY <1>0, <2>1
  <2>3. m_disownPending => type = "owner" /\ Head(events).who = None
    BY <2>1, <2>2 DEF QueueInv
  <2>4. NoOwnerEvent(Tail(events)) => OnlyOwnClaims(Tail(events))
    BY DEF NoOwnerEvent, OnlyOwnClaims
  <2>5. QED
    BY <1>0, <2>1, <2>2, <2>3, <2>4, TailQueue
<1>9. ASSUME OwnDisown
      PROVE  QueueInv'
  <2>1. /\ Event("owner") /\ m_disownPending /\ ~m_disownPending'
        /\ events' = Tail(events)
        /\ UNCHANGED <<owner, ownerTime, time, m_waylandSource, m_xSource,
                       m_timestamp>>
    BY <1>9 DEF OwnDisown, serverVars
  <2>2. Head(events).who = None /\ m_waylandSource = None /\ m_xSource = NoSource
        /\ NoRequest(events)
    BY <1>8, <2>1 DEF QueueInv
  <2>3. NoOwnerEvent(events') => owner = None
    BY <1>8, <2>1, <2>2
  <2>4. NoOwnerEvent(events') => Settled'
    BY <2>1, <2>2, <2>3, Owners DEF Settled
  <2>5. owner' = KWin => m_waylandSource' # None /\ OnlyOwnClaims(events')
    BY <2>1, <2>2 DEF QueueInv
  <2>6. QED
    BY <1>0, <1>8, <2>1, <2>2, <2>4, <2>5 DEF QueueInv
<1>10. ASSUME OwnClaim
       PROVE  QueueInv'
  <2>1. /\ Event("owner") /\ ~m_disownPending /\ ~m_disownPending'
        /\ Head(events).who = KWin /\ m_waylandSource # None
        /\ m_timestamp' = Head(events).time
        /\ events' = Tail(events)
        /\ UNCHANGED <<owner, ownerTime, time, m_waylandSource, m_xSource>>
    BY <1>10 DEF OwnClaim, serverVars
  <2>2. m_xSource = NoSource
    BY <2>1 DEF SourceInv, OneSource
  <2>3. NoOwnerEvent(events') => owner = KWin /\ m_timestamp' = ownerTime
    BY <1>8, <2>1
  <2>4. NoOwnerEvent(events') => Settled'
    BY <2>1, <2>2, <2>3 DEF Settled
  <2>5. owner' = KWin => m_waylandSource' # None /\ OnlyOwnClaims(events')
    BY <1>8, <2>1 DEF QueueInv
  <2>6. QED
    BY <1>0, <1>8, <2>1, <2>4, <2>5 DEF QueueInv
<1>11. ASSUME ForeignClaim
       PROVE  QueueInv'
  <2>1. /\ Event("owner") /\ ~m_disownPending /\ ~m_disownPending'
        /\ Head(events).who # KWin \/ m_waylandSource = None
        /\ m_waylandSource' = None
        /\ m_xSource' \in {[NoSource EXCEPT !.owner = Head(events).who], NoSource}
        /\ m_xSource' # NoSource => Head(events).who # None
        /\ GetTargets(Tail(events)) \/ events' = Tail(events)
        /\ UNCHANGED <<owner, ownerTime, time, m_timestamp>>
    BY <1>11 DEF ForeignClaim, serverVars
  <2>2. Head(events).who # KWin /\ Head(events).who \in Owner
    <3>1. 1 \in 1..Len(events) /\ Head(events).type = "owner"
          /\ Head(events) = events[1]
      BY <1>0, <1>8, <2>1
    <3>2. m_waylandSource = None => Head(events).who # KWin
      BY <3>1 DEF QueueInv, NoOwnClaim
    <3>3. QED
      BY <1>8, <2>1, <3>2 DEF XEvent
  <2>3. owner # KWin
    <3>1. 1 \in 1..Len(events) /\ Head(events).type = "owner"
          /\ Head(events) = events[1]
      BY <1>0, <1>8, <2>1
    <3>2. QED
      BY <2>2, <3>1 DEF QueueInv, OnlyOwnClaims
  <2> DEFINE e == TargetsEvent(None)
             r == Tail(events)
  <2>4. e \in XEvent /\ e.type = "targets"
    BY <1>0, EventTypes DEF TargetsEvent
  <2>5. events' = r \/ events' = Append(r, e)
    BY <2>1, <2>3 DEF GetTargets
  <2>6. /\ r \in Seq(XEvent) /\ NoOwnClaim(r) /\ OwnClaimFirst(r)
        /\ LastTells(r, owner, ownerTime)
        /\ RequestsForKWin(r) /\ NoRequest(r)
        /\ NoOwnerEvent(r) => Head(events).who = owner
    BY <1>8, <2>1, <2>2
  <2> HIDE DEF e, r
  <2>7. /\ NoOwnClaim(events') /\ OwnClaimFirst(events')
        /\ LastTells(events', owner, ownerTime)
        /\ RequestsForKWin(events') /\ NoRequest(events')
        /\ NoOwnerEvent(events') => NoOwnerEvent(r)
    <3>1. CASE events' = r
      BY <2>6, <3>1
    <3>2. CASE events' = Append(r, e)
      <4>1. e.type # "owner" /\ e.type # "request"
        BY <2>4
      <4>2. QED
        BY <2>4, <2>6, <3>2, <4>1, AppendQueue
    <3>3. QED
      BY <2>5, <3>1, <3>2
  <2>8. NoOwnerEvent(events') => Settled'
    <3>1. ASSUME NoOwnerEvent(events')
          PROVE  Head(events).who = owner
      BY <2>6, <2>7, <3>1
    <3>2. [NoSource EXCEPT !.owner = Head(events).who].owner = Head(events).who
      BY DEF NoSource
    <3>3. QED
      BY <2>1, <2>2, <2>3, <3>1, <3>2 DEF Settled, Owner
  <2>9. QED
    BY <1>0, <2>1, <2>3, <2>7, <2>8 DEF QueueInv
<1>12. ASSUME StaleTargets
       PROVE  QueueInv'
  <2>1. /\ Event("targets") /\ events' = Tail(events)
        /\ UNCHANGED <<owner, ownerTime, time, m_waylandSource, m_xSource,
                       m_timestamp, m_disownPending>>
    BY <1>12 DEF StaleTargets, kwinVars, serverVars
  <2>2. ~m_disownPending
    BY <1>8, <2>1
  <2>3. NoOwnerEvent(events') => Settled'
    BY <1>8, <2>1 DEF QueueInv, Settled
  <2>4. owner' = KWin => m_waylandSource' # None /\ OnlyOwnClaims(events')
    BY <1>8, <2>1 DEF QueueInv
  <2>5. QED
    BY <1>0, <1>8, <2>1, <2>2, <2>3, <2>4 DEF QueueInv
<1>13. ASSUME HandleTargets
       PROVE  QueueInv'
  <2>1. /\ Event("targets") /\ m_xSource # NoSource
        /\ m_timestamp' = m_timestamp
    BY <1>13 DEF HandleTargets
  <2>2. ~m_disownPending /\ m_waylandSource = None
    BY <1>8, <2>1 DEF SourceInv, OneSource
  <2>3. /\ Server(Tail(events)) /\ m_waylandSource' = None
        /\ m_xSource'.owner = m_xSource.owner
    <3>1. PICK s, source : /\ SetSelection(s, source)
                           /\ s = selection \/ s \in {None, Bridge}
                           /\ source.owner = m_xSource.owner
      <4> DEFINE src == [m_xSource EXCEPT !.offers = Targets,
                                          !.offered = @ \/ Targets # {}]
      <4>1. src.owner = m_xSource.owner
        BY DEF TypeOK
      <4>2. \E s : SetSelection(s, src) /\ (s = selection \/ s \in {None, Bridge})
        BY <1>13 DEF HandleTargets
      <4> HIDE DEF src
      <4>3. QED
        BY <4>1, <4>2
    <3>2. CASE s = selection
      BY <2>2, <3>1, <3>2 DEF SetSelection
    <3>3. CASE s # selection
      BY <2>2, <3>1, <3>3, Names DEF SetSelection, CheckWlSource, RemoveSource
    <3>4. QED
      BY <3>2, <3>3
  <2>4. /\ events' = Tail(events)
        /\ UNCHANGED <<owner, ownerTime, time, m_disownPending>>
    BY <2>3 DEF Server, serverVars
  <2>5. NoOwnerEvent(events') => Settled'
    BY <1>8, <2>1, <2>2, <2>3, <2>4 DEF QueueInv, Settled
  <2>6. owner' # KWin
    BY <2>2, <2>4 DEF QueueInv
  <2>7. QED
    BY <1>0, <1>8, <2>1, <2>2, <2>3, <2>4, <2>5, <2>6 DEF QueueInv
<1>14. ASSUME HandleSelectionRequest
       PROVE  QueueInv'
  <2>1. /\ Event("request")
        /\ UNCHANGED <<owner, ownerTime, time, m_waylandSource, m_xSource,
                       m_timestamp, m_disownPending>>
    BY <1>14 DEF HandleSelectionRequest, kwinVars, serverVars
  <2>2. 1 \in 1..Len(events) /\ events[1].type = "request"
        /\ Head(events) = events[1]
    BY <1>0, <1>8, <2>1
  <2>3. Head(events).who # KWin /\ m_waylandSource # None
    BY <1>0, <2>2 DEF QueueInv, RequestsForKWin, NoRequest
  <2>4. active = "x11"
    BY <2>3 DEF SourceInv, Shielded
  <2>5. events' = Tail(events)
    BY <1>14, <2>3, <2>4 DEF HandleSelectionRequest
  <2>6. ~m_disownPending
    BY <1>8, <2>1
  <2>7. NoOwnerEvent(events') => Settled'
    BY <1>8, <2>1, <2>5 DEF QueueInv, Settled
  <2>8. owner' = KWin => m_waylandSource' # None /\ OnlyOwnClaims(events')
    BY <1>8, <2>1, <2>5 DEF QueueInv
  <2>9. QED
    BY <1>0, <1>8, <2>1, <2>3, <2>5, <2>6, <2>7, <2>8 DEF QueueInv
<1>15. CASE UNCHANGED vars
  BY <1>15 DEF vars, QueueInv, Settled
<1> QED
  BY <1>1, <1>2, <1>3, <1>4, <1>5, <1>6, <1>7, <1>9, <1>10, <1>11, <1>12,
     <1>13, <1>14, <1>15 DEF Next, HandleEvent

LEMMA QueueInvInit == Init => QueueInv
<1> SUFFICES ASSUME Init PROVE QueueInv
  OBVIOUS
<1>1. ownerTime <= time /\ Settled /\ owner # KWin /\ ~m_disownPending
  BY Owners DEF Init, Settled
<1> QED
  BY <1>1, ShortQueues DEF Init, QueueInv

\* KWin owns the X selection exactly while it has a Wayland source to serve it
\* from: each claim and each disown of ownSelection takes effect, however many
\* X clients claim, release or ask for the selection meanwhile.
THEOREM SelectionOwnedForSource ==
  ASSUME Racing \subseteq {"x11"} PROVE Spec => []OwnsForSource
<1>1. TypeOK /\ SourceInv /\ QueueInv /\ [Next]_vars => QueueInv'
  BY QueueInvStep
<1>2. QueueInv => OwnsForSource
  BY ShortQueues DEF QueueInv, OwnsForSource, Settled, Quiet
<1> QED
  BY <1>1, <1>2, TypeInit, TypeStep, InitInv, NextInv, QueueInvInit, PTL DEF Spec

\* The X source names the X client that owns the selection now: handleXfixesNotify
\* mistakes neither its own claim nor its own disown for that of an X client.
THEOREM SourceNamesOwner ==
  ASSUME Racing \subseteq {"x11"} PROVE Spec => []SourceIsOwner
<1>1. TypeOK /\ SourceInv /\ QueueInv /\ [Next]_vars => QueueInv'
  BY QueueInvStep
<1>2. QueueInv => SourceIsOwner
  BY ShortQueues DEF QueueInv, SourceIsOwner, Settled, Quiet
<1> QED
  BY <1>1, <1>2, TypeInit, TypeStep, InitInv, NextInv, QueueInvInit, PTL DEF Spec

-----------------------------------------------------------------------------
(* The last copy wins.  An X client whose claim KWin has accepted is asked *)
(* for its targets, and with them the seat's selection becomes the bridge: *)
(* from then on the focus no longer brings a native selection back.        *)

\* An answer to KWin's question for the targets is on its way.
HasTargets(q) == \E i \in 1..Len(q) : q[i].type = "targets" /\ q[i].who # None

LEMMA TargetsQueue ==
  ASSUME NEW q \in Seq(XEvent)
  PROVE  /\ q # <<>> => /\ NoOwnerEvent(q) => NoOwnerEvent(Tail(q))
                        /\ OnlyOwnClaims(q) => OnlyOwnClaims(Tail(q))
                        /\ HasTargets(q) => \/ HasTargets(Tail(q))
                                            \/ /\ Head(q).type = "targets"
                                               /\ Head(q).who # None
         /\ \A e \in XEvent : HasTargets(q) => HasTargets(Append(q, e))
         /\ \A e \in XEvent : e.type = "targets" /\ e.who # None
              => HasTargets(Append(q, e))
<1>1. ASSUME q # <<>>
      PROVE  /\ NoOwnerEvent(q) => NoOwnerEvent(Tail(q))
             /\ OnlyOwnClaims(q) => OnlyOwnClaims(Tail(q))
             /\ HasTargets(q) => \/ HasTargets(Tail(q))
                                 \/ /\ Head(q).type = "targets"
                                    /\ Head(q).who # None
  <2> DEFINE r == Tail(q)
  <2>1. /\ Len(q) \in Nat /\ Len(r) = Len(q) - 1 /\ Head(q) = q[1]
        /\ \A i \in 1..Len(r) : r[i] = q[i + 1] /\ i + 1 \in 1..Len(q)
    BY <1>1
  <2>2. \A i \in 1..Len(q) : i # 1 => i - 1 \in 1..Len(r) /\ (i - 1) + 1 = i
    BY <2>1
  <2> HIDE DEF r
  <2>3. \A i \in 1..Len(q) : i # 1 => i - 1 \in 1..Len(r) /\ r[i - 1] = q[i]
    BY <2>1, <2>2
  <2>4. /\ NoOwnerEvent(q) => NoOwnerEvent(r)
        /\ OnlyOwnClaims(q) => OnlyOwnClaims(r)
    BY <2>1 DEF NoOwnerEvent, OnlyOwnClaims
  <2>5. ASSUME HasTargets(q)
        PROVE  HasTargets(r) \/ (Head(q).type = "targets" /\ Head(q).who # None)
    BY <2>1, <2>3, <2>5 DEF HasTargets
  <2>6. QED
    BY <2>4, <2>5 DEF r
<1>2. ASSUME NEW e \in XEvent
      PROVE  /\ HasTargets(q) => HasTargets(Append(q, e))
             /\ e.type = "targets" /\ e.who # None => HasTargets(Append(q, e))
  <2> DEFINE r == Append(q, e)
  <2>1. /\ Len(q) \in Nat /\ Len(r) = Len(q) + 1 /\ r[Len(r)] = e
        /\ \A i \in 1..Len(q) : r[i] = q[i] /\ i \in 1..Len(r)
        /\ Len(r) \in 1..Len(r)
    OBVIOUS
  <2> HIDE DEF r
  <2>2. QED
    BY <2>1 DEF HasTargets, r
<1>3. QED
  BY <1>1, <1>2

\* While only claims of KWin are announced and the Wayland source exists, KWin
\* is the owner.
LEMMA OwnClaimsTell ==
  ASSUME QueueInv, events \in Seq(XEvent), OnlyOwnClaims(events),
         m_waylandSource # None
  PROVE  owner = KWin
<1>1. CASE NoOwnerEvent(events)
  BY <1>1 DEF QueueInv, Settled
<1>2. CASE ~NoOwnerEvent(events)
  <2>1. PICK i \in 1..Len(events) : events[i].type = "owner"
    BY <1>2 DEF NoOwnerEvent
  <2>2. events[i].who = KWin /\ i = 1
    BY <2>1 DEF OnlyOwnClaims, QueueInv, OwnClaimFirst
  <2>3. \A j \in 1..Len(events) : j > i => events[j].type # "owner"
    BY <2>2 DEF OnlyOwnClaims, QueueInv, OwnClaimFirst
  <2>4. QED
    BY <2>1, <2>2, <2>3 DEF QueueInv, LastTells
<1>3. QED
  BY <1>1, <1>2

LatestInv ==
  /\ property # KWin
  /\ m_checkConnection => selection \in Device
  /\ m_xSource.offered => selection \notin Device
  /\ ~m_xSource.offered => m_xSource.offers = {}
  /\ latest \in XClient =>
       /\ owner = latest
       /\ ~NoOwnerEvent(events) => active = "x11"
       /\ NoOwnerEvent(events) =>
            /\ m_xSource.owner = latest
            /\ \/ m_xSource.offered
               \/ latest \in asked
               \/ property # None /\ HasTargets(events)
  /\ latest \in Device =>
       /\ selection = latest /\ m_checkConnection
       /\ m_xSource = NoSource
       /\ active = "x11" => m_waylandSource = latest /\ OnlyOwnClaims(events)

LEMMA LatestInvInit == Init => LatestInv
BY Names, Owners DEF Init, LatestInv, NoSource

LEMMA LatestInvStep ==
  ASSUME Racing \subseteq {"x11"}, \A x \in XClient : TargetsOf[x] # {},
         TypeOK, SourceInv, QueueInv, LatestInv, [Next]_vars
  PROVE  LatestInv'
<1>0. /\ events \in Seq(XEvent) /\ owner \in Owner
      /\ KWin \in Owner /\ None \in Owner /\ XClient \subseteq Owner
      /\ time \in Nat /\ ownerTime \in Nat
      /\ Device \cap XClient = {} /\ None \notin XClient /\ None \notin Device
      /\ NoSource.owner = None /\ NoSource.offered = FALSE /\ NoSource.offers = {}
  BY Names, Owners, NameAssumption DEF TypeOK, XEvent, Owner, NoSource
<1>1. ASSUME NEW a \in {"x11", "wayland", "none"}, Activate(a)
      PROVE  LatestInv'
  <2>1. /\ events = <<>> /\ asked = {} /\ active' = a
        /\ UNCHANGED <<selection, property, asked, latest>>
    BY <1>1 DEF Activate, MayAct, Quiet
  <2>2. NoOwnerEvent(events) /\ OnlyOwnClaims(events) /\ ~HasTargets(events)
    BY <2>1, ShortQueues DEF HasTargets, NoOwnerEvent, OnlyOwnClaims
  <2>3. CASE ~m_checkConnection
    <3>1. UNCHANGED <<events, owner, m_checkConnection, m_waylandSource, m_xSource>>
      BY <1>1, <2>3 DEF Activate, Server, serverVars
    <3>2. QED
      BY <2>1, <2>2, <2>3, <3>1 DEF LatestInv
  <2>4. CASE m_checkConnection
    <3>1. CheckWlSource(selection, a, m_waylandSource, m_xSource, events)
      BY <1>1, <2>4 DEF Activate
    <3>2. /\ selection \in Device /\ latest \notin XClient
          /\ m_waylandSource # None => selection = m_waylandSource
      BY <2>1, <2>2, <2>4 DEF LatestInv, SourceInv, Shielded
    <3>3. m_checkConnection' /\ m_xSource' \in {m_xSource, NoSource}
      BY <3>1, <3>2, Names DEF CheckWlSource
    <3>4. ASSUME a = "x11"
          PROVE  m_waylandSource' = selection /\ OnlyOwnClaims(events')
      <4>1. \/ Server(events) /\ m_waylandSource' = selection
            \/ Claim(KWin, events) /\ m_waylandSource' = selection
        BY <3>1, <3>2, <3>4, Names DEF CheckWlSource
      <4>2. CASE Server(events)
        BY <2>2, <4>1, <4>2 DEF Server
      <4>3. CASE Claim(KWin, events)
        <5>1. time' \in Nat /\ events' = Append(<<>>, OwnerEvent(KWin, time'))
          BY <1>0, <2>1, <4>3 DEF Claim
        <5>2. QED
          BY <1>0, <4>1, <5>1, ShortQueues
      <4>4. QED
        BY <4>1, <4>2, <4>3
    <3>5. QED
      BY <1>0, <2>1, <3>2, <3>3, <3>4 DEF LatestInv
  <2>5. QED
    BY <2>3, <2>4
<1>2. ASSUME NEW d \in Device, WlSelect(d)
      PROVE  LatestInv'
  <2>1. /\ events = <<>> /\ selection' = d /\ latest' = d
        /\ UNCHANGED <<property, active>>
        /\ CheckWlSource(d, active, None, NoSource, events)
    BY <1>2 DEF WlSelect, MayAct, Quiet
  <2>2. m_checkConnection' /\ m_xSource' = NoSource
    BY <2>1, Names DEF CheckWlSource
  <2>3. ASSUME active = "x11"
        PROVE  m_waylandSource' = d /\ OnlyOwnClaims(events')
    <3>1. Claim(KWin, <<>>) /\ m_waylandSource' = d
      BY <2>1, <2>3, Names DEF CheckWlSource
    <3>2. time' \in Nat /\ events' = Append(<<>>, OwnerEvent(KWin, time'))
      BY <1>0, <3>1 DEF Claim
    <3>3. QED
      BY <1>0, <3>1, <3>2, ShortQueues
  <2>4. QED
    BY <1>0, <2>1, <2>2, <2>3 DEF LatestInv
<1>3. ASSUME WlClear
      PROVE  LatestInv'
  <2>1. /\ selection' = None /\ latest' = None /\ property' = property
        /\ CheckWlSource(None, active, m_waylandSource, m_xSource, events)
    BY <1>3 DEF WlClear
  <2>2. ~m_checkConnection' /\ m_xSource' \in {m_xSource, NoSource}
    BY <2>1, Names DEF CheckWlSource
  <2>3. QED
    BY <1>0, <2>1, <2>2 DEF LatestInv
<1>4. ASSUME NEW x \in XClient, XSelect(x)
      PROVE  LatestInv'
  <2> DEFINE e == OwnerEvent(x, time')
  <2>1. /\ owner' = x /\ events' = Append(events, e)
        /\ latest' = IF active = "x11" THEN x
                     ELSE IF latest \in XClient THEN None ELSE latest
        /\ UNCHANGED <<selection, active, m_waylandSource, m_xSource,
                       m_checkConnection, property, asked>>
    BY <1>4 DEF XSelect, Claim, kwinVars
  <2>2. e \in XEvent /\ e.type = "owner"
    <3>1. time' \in Nat
      BY <1>0, <1>4 DEF XSelect, Claim
    <3>2. QED
      BY <1>0, <3>1, EventTypes DEF OwnerEvent
  <2> HIDE DEF e
  <2>3. ~NoOwnerEvent(events')
    BY <1>0, <2>1, <2>2, AppendQueue DEF QueueInv
  <2>4. QED
    BY <1>0, <2>1, <2>3 DEF LatestInv
<1>5. ASSUME NEW x \in XClient, XRelease(x)
      PROVE  LatestInv'
  <2>1. /\ owner = x
        /\ latest' = IF latest = x THEN None ELSE latest
        /\ UNCHANGED <<selection, active, m_waylandSource, m_xSource,
                       m_checkConnection, property>>
    BY <1>5 DEF XRelease, kwinVars
  <2>2. latest' \notin XClient
    BY <1>0, <2>1 DEF LatestInv
  <2>3. latest \in Device => active # "x11"
    BY <1>0, <2>1, OwnClaimsTell, Owners DEF LatestInv
  <2>4. QED
    BY <1>0, <2>1, <2>2, <2>3 DEF LatestInv
<1>6. ASSUME NEW x \in XClient, XAnswer(x)
      PROVE  LatestInv'
  <2> DEFINE e == TargetsEvent(x)
  <2>1. /\ events' = Append(events, e) /\ property' = x
        /\ asked' = asked \ {x}
        /\ UNCHANGED <<owner, selection, active, m_waylandSource, m_xSource,
                       m_checkConnection, latest>>
    BY <1>6 DEF XAnswer, kwinVars, serverVars
  <2>2. e \in XEvent /\ e.type = "targets" /\ e.who # None
    BY <1>0, EventTypes, Owners DEF TargetsEvent
  <2> HIDE DEF e
  <2>3. /\ NoOwnerEvent(events') <=> NoOwnerEvent(events)
        /\ OnlyOwnClaims(events) => OnlyOwnClaims(events')
        /\ HasTargets(events')
    <3>1. e.type # "owner"
      BY <2>2
    <3>2. QED
      BY <1>0, <2>1, <2>2, <3>1, AppendQueue, TargetsQueue DEF QueueInv
  <2>4. property' # KWin /\ property' # None
    BY <2>1, Owners
  <2>5. QED
    BY <2>1, <2>3, <2>4 DEF LatestInv
<1>7. ASSUME NEW x \in XClient, XRequest(x)
      PROVE  LatestInv'
  <2> DEFINE e == RequestEvent(x, time)
  <2>1. /\ events' = Append(events, e)
        /\ UNCHANGED <<owner, selection, active, m_waylandSource, m_xSource,
                       m_checkConnection, latest, property, asked>>
    BY <1>7 DEF XRequest, kwinVars, serverVars
  <2>2. e \in XEvent /\ e.type = "request"
    BY <1>0, EventTypes DEF RequestEvent
  <2> HIDE DEF e
  <2>3. /\ NoOwnerEvent(events') <=> NoOwnerEvent(events)
        /\ OnlyOwnClaims(events) => OnlyOwnClaims(events')
        /\ HasTargets(events) => HasTargets(events')
    <3>1. e.type # "owner"
      BY <2>2
    <3>2. QED
      BY <1>0, <2>1, <2>2, <3>1, AppendQueue, TargetsQueue DEF QueueInv
  <2>4. QED
    BY <2>1, <2>3 DEF LatestInv
<1>8. ASSUME NEW type, Event(type)
      PROVE  /\ events # <<>> /\ Head(events).type = type
             /\ Head(events) = events[1] /\ 1 \in 1..Len(events)
             /\ Tail(events) \in Seq(XEvent)
             /\ NoOwnerEvent(events) => NoOwnerEvent(Tail(events))
             /\ OnlyOwnClaims(events) => OnlyOwnClaims(Tail(events))
             /\ HasTargets(events) => \/ HasTargets(Tail(events))
                                      \/ type = "targets" /\ Head(events).who # None
             /\ NoOwnerEvent(Tail(events)) /\ type = "owner" =>
                  Head(events).who = owner
             /\ NoOwnerEvent(Tail(events)) /\ type # "owner" => NoOwnerEvent(events)
             /\ type = "owner" => ~NoOwnerEvent(events)
  <2>1. events # <<>> /\ Head(events).type = type
    BY <1>8 DEF Event
  <2>2. /\ Head(events) = events[1] /\ 1 \in 1..Len(events)
        /\ Tail(events) \in Seq(XEvent)
    BY <1>0, <2>1
  <2>3. type = "owner" => ~NoOwnerEvent(events)
    BY <2>1, <2>2 DEF NoOwnerEvent
  <2>4. /\ NoOwnerEvent(Tail(events)) /\ type = "owner" => Head(events).who = owner
        /\ NoOwnerEvent(Tail(events)) /\ type # "owner" => NoOwnerEvent(events)
    BY <1>0, <2>1, TailQueue DEF QueueInv
  <2>5. QED
    BY <1>0, <2>1, <2>2, <2>3, <2>4, TargetsQueue
<1>9. ASSUME OwnDisown \/ OwnClaim
      PROVE  LatestInv'
  <2>1. /\ Event("owner") /\ events' = Tail(events)
        /\ UNCHANGED <<owner, selection, active, m_waylandSource, m_xSource,
                       m_checkConnection, latest, property, asked>>
    BY <1>9 DEF OwnDisown, OwnClaim, serverVars
  <2>2. Head(events).who \in {None, KWin}
    BY <1>8, <1>9, <2>1 DEF OwnDisown, OwnClaim, QueueInv
  <2>3. latest \in XClient => ~NoOwnerEvent(events') /\ ~NoOwnerEvent(events)
    BY <1>8, <2>1, <2>2, Owners DEF LatestInv
  <2>4. QED
    BY <1>8, <2>1, <2>3 DEF LatestInv
<1>10. ASSUME ForeignClaim
       PROVE  LatestInv'
  <2> DEFINE x == Head(events).who
             accepted == active = "x11" /\ x # None
  <2>1. /\ Event("owner")
        /\ x # KWin \/ m_waylandSource = None
        /\ m_xSource' = IF accepted THEN [NoSource EXCEPT !.owner = x] ELSE NoSource
        /\ IF accepted THEN GetTargets(Tail(events))
                       ELSE events' = Tail(events) /\ UNCHANGED asked
        /\ UNCHANGED <<owner, selection, active, m_checkConnection, latest, property>>
    BY <1>10 DEF ForeignClaim, serverVars
  <2>2. x # KWin
    BY <1>8, <2>1 DEF QueueInv, NoOwnClaim
  <2>3. ~OnlyOwnClaims(events) /\ ~NoOwnerEvent(events)
    BY <1>8, <2>1, <2>2 DEF OnlyOwnClaims
  <2>4. latest \in Device => active # "x11" /\ m_xSource' = NoSource
    BY <2>1, <2>3 DEF LatestInv
  <2>5. ~m_xSource'.offered /\ m_xSource'.offers = {}
    BY <2>1 DEF NoSource
  <2>6. ASSUME latest \in XClient, NoOwnerEvent(events')
        PROVE  m_xSource'.owner = latest /\ latest \in asked'
    <3>1. owner = latest /\ active = "x11" /\ owner # KWin
      BY <2>3, <2>6, Owners DEF LatestInv
    <3>2. NoOwnerEvent(Tail(events))
      <4>1. \/ events' = Tail(events)
            \/ events' = Append(Tail(events), TargetsEvent(None))
        BY <2>1, <3>1 DEF GetTargets
      <4>2. TargetsEvent(None) \in XEvent /\ Tail(events) \in Seq(XEvent)
        BY <1>0, <1>8, <2>1, EventTypes
      <4>3. OwnClaimFirst(Tail(events)) /\ RequestsForKWin(Tail(events))
        BY <1>0, <1>8, <2>1, TailQueue DEF QueueInv
      <4>4. QED
        BY <2>6, <4>1, <4>2, <4>3, AppendQueue
    <3>3. x = latest /\ x # None
      BY <1>8, <2>1, <2>6, <3>1, <3>2, Owners
    <3> HIDE DEF x
    <3>4. m_xSource' = [NoSource EXCEPT !.owner = x] /\ GetTargets(Tail(events))
      BY <2>1, <3>1, <3>3
    <3>5. QED
      BY <2>6, <3>1, <3>3, <3>4 DEF GetTargets, NoSource
  <2>7. latest \in XClient => owner = latest /\ active = "x11"
    BY <2>3 DEF LatestInv
  <2>8. QED
    BY <2>1, <2>4, <2>5, <2>6, <2>7 DEF LatestInv
<1>11. ASSUME StaleTargets
       PROVE  LatestInv'
  <2>1. /\ Event("targets") /\ events' = Tail(events)
        /\ m_xSource = NoSource \/ Head(events).who = None \/ property = None
        /\ property' = IF m_xSource = NoSource \/ Head(events).who = None
                       THEN property ELSE None
        /\ UNCHANGED <<owner, selection, active, m_waylandSource, m_xSource,
                       m_checkConnection, latest, asked>>
    BY <1>11 DEF StaleTargets, kwinVars, serverVars
  <2>2. property' # KWin
    BY <2>1, Owners DEF LatestInv
  <2>3. ASSUME latest \in XClient, m_xSource.owner = latest, property # None,
               HasTargets(events)
        PROVE  property' # None /\ HasTargets(events')
    <3>1. Head(events).who = None
      BY <1>0, <2>1, <2>3
    <3>2. QED
      BY <1>8, <2>1, <2>3, <3>1
  <2>4. QED
    BY <1>8, <2>1, <2>2, <2>3 DEF LatestInv
<1>12. ASSUME HandleTargets
       PROVE  LatestInv'
  <2> DEFINE src == [m_xSource EXCEPT !.offers = Targets,
                                      !.offered = @ \/ Targets # {}]
             next == IF Targets = m_xSource.offers THEN selection
                     ELSE IF Targets = {} THEN None
                     ELSE IF ~m_xSource.offered \/ m_xSource.offers \ Targets # {}
                          THEN Bridge
                     ELSE selection
  <2>1. /\ Event("targets") /\ m_xSource # NoSource /\ property # None
        /\ SetSelection(next, src) /\ property' = None
        /\ UNCHANGED <<active, asked, latest>>
    BY <1>12 DEF HandleTargets
  <2>2. m_waylandSource = None /\ latest \notin Device
    BY <2>1 DEF SourceInv, OneSource, LatestInv
  <2>3. Targets # {}
    BY <2>1 DEF Targets, LatestInv, TypeOK, Owner
  <2>4. src.owner = m_xSource.owner /\ src.offered = TRUE
    BY <2>3 DEF TypeOK
  <2>5. next \notin Device /\ (next = selection \/ next \in {None, Bridge})
    BY <2>3, Names DEF LatestInv
  <2> HIDE DEF src, next
  <2>6. /\ selection' = next /\ m_xSource' = src /\ Server(Tail(events))
        /\ m_checkConnection' => m_checkConnection /\ next = selection
    <3>1. CASE next = selection
      BY <2>1, <3>1 DEF SetSelection
    <3>2. CASE next # selection
      BY <2>1, <2>2, <2>5, <3>2, Names DEF SetSelection, CheckWlSource, RemoveSource
    <3>3. QED
      BY <3>1, <3>2
  <2>7. events' = Tail(events) /\ owner' = owner
    BY <2>6 DEF Server, serverVars
  <2>8. QED
    BY <1>8, <2>1, <2>2, <2>4, <2>5, <2>6, <2>7, Owners DEF LatestInv
<1>13. ASSUME HandleSelectionRequest
       PROVE  LatestInv'
  <2>1. Event("request")
    BY <1>13 DEF HandleSelectionRequest
  <2>2. Head(events).who # KWin
    BY <1>8, <2>1 DEF QueueInv, RequestsForKWin
  <2>3. /\ events' = Tail(events)
        /\ UNCHANGED <<owner, selection, active, m_waylandSource, m_xSource,
                       m_checkConnection, latest, asked, property>>
    BY <1>13, <2>2 DEF HandleSelectionRequest, kwinVars, serverVars
  <2>4. QED
    BY <1>8, <2>1, <2>3 DEF LatestInv
<1>14. CASE UNCHANGED vars
  BY <1>14 DEF vars, LatestInv
<1> QED
  BY <1>1, <1>2, <1>3, <1>4, <1>5, <1>6, <1>7, <1>9, <1>10, <1>11, <1>12,
     <1>13, <1>14 DEF Next, HandleEvent

\* The last copy wins on both sides, however X claims, releases and answers
\* overtake one another (checkWlSource, doHandleXfixesNotify and
\* x11OffersChanged).  The X clients offer something: a claim without targets
\* leaves the seat's selection, and the next activation of an X client gives
\* the X selection back to it.
THEOREM LastCopyWins ==
  ASSUME Racing \subseteq {"x11"}, \A x \in XClient : TargetsOf[x] # {}
  PROVE  Spec => []LatestWins
<1>1. TypeOK /\ SourceInv /\ QueueInv /\ [Next]_vars => QueueInv'
  BY QueueInvStep
<1>2. TypeOK /\ SourceInv /\ QueueInv /\ LatestInv /\ [Next]_vars => LatestInv'
  BY LatestInvStep
<1>3. LatestInv => LatestWins
  BY ShortQueues DEF LatestInv, LatestWins, Quiet
<1> QED
  BY <1>1, <1>2, <1>3, TypeInit, TypeStep, InitInv, NextInv, QueueInvInit,
     LatestInvInit, PTL DEF Spec
=============================================================================
