----------------------------- MODULE Clipboard -----------------------------
(***************************************************************************)
(* The clipboard bridge between Wayland and Xwayland: Clipboard, its base  *)
(* class Selection and the sources WlSource and X11Source.                 *)
(*                                                                         *)
(* Three parties set the clipboard: native Wayland devices through the     *)
(* seat, X clients through the X server's selection, and KWin, which owns  *)
(* the X selection for the former and a Wayland data source for the        *)
(* latter.  The X server and its clients run concurrently: what they did   *)
(* reaches KWin through one queue of X events, what KWin asks for happens  *)
(* at once in the server.                                                  *)
(***************************************************************************)
EXTENDS Naturals, Sequences

CONSTANTS
  Device,       \* the data devices of native Wayland clients
  XClient,      \* X clients that own the selection
  TargetsOf,    \* the targets an X client offers, as a function
  Racing,       \* what may happen while X events or answers are on their way
  TimeBound,    \* bound on the X server's time
  QueueBound    \* bound on the X events on their way to KWin

ActorKind == {"focus", "wayland", "x11"}

ASSUME RacingAssumption == Racing \subseteq ActorKind
ASSUME BoundAssumption == TimeBound \in Nat /\ QueueBound \in Nat

KWin   == "kwin"     \* Selection::m_window, as an owner
None   == "none"     \* XCB_WINDOW_NONE, a null pointer
Bridge == "bridge"   \* DataBridge::dataDeviceIface

ASSUME NameAssumption ==
  /\ {KWin, None, Bridge} \cap (Device \cup XClient) = {}
  /\ Device \cap XClient = {}

Owner == XClient \cup {KWin, None}
Selected == Device \cup {Bridge, None}
Mime == UNION {TargetsOf[x] : x \in XClient}

ASSUME TargetsAssumption == TargetsOf \in [XClient -> SUBSET Mime]

VARIABLES
  selection,         \* Seat::selection()
  active,            \* class of Workspace::activeClient()
  m_waylandSource,   \* the device of Selection::m_waylandSource or None
  m_xSource,         \* Selection::m_xSource, NoSource when null
  m_timestamp,       \* Selection::m_timestamp, 0 is XCB_CURRENT_TIME
  m_disownPending,
  m_checkConnection, \* clientActivated is connected to checkWlSource
  owner,             \* the X server: owner of the selection,
  ownerTime,         \* the time of its last change
  time,              \* and the current time
  property,          \* who has answered into the property of KWin's window
  asked,             \* X clients that owe KWin their targets
  events,            \* X events on their way to KWin
  reply,             \* what became of the last selection request
  latest             \* history: who set the clipboard last

serverVars == <<owner, ownerTime, time>>
vars == <<selection, active, m_waylandSource, m_xSource, m_timestamp,
          m_disownPending, m_checkConnection, owner, ownerTime, time, property,
          asked, events, reply, latest>>

NoSource == [owner |-> None, offers |-> {}, offered |-> FALSE]

\* XFixes notify of a new owner; SelectionNotify, x having answered or None
\* when the conversion failed; SelectionRequest of x.
OwnerEvent(x, t)   == [type |-> "owner", who |-> x, time |-> t]
TargetsEvent(x)    == [type |-> "targets", who |-> x, time |-> 0]
RequestEvent(x, t) == [type |-> "request", who |-> x, time |-> t]

TypeOK ==
  /\ selection \in Selected
  /\ active \in {"x11", "wayland", "none"}
  /\ m_waylandSource \in Device \cup {None}
  /\ m_xSource \in [owner : Owner, offers : SUBSET Mime, offered : BOOLEAN]
  /\ m_timestamp \in Nat /\ m_disownPending \in BOOLEAN
  /\ m_checkConnection \in BOOLEAN
  /\ owner \in Owner /\ ownerTime \in Nat /\ time \in Nat
  /\ property \in Owner
  /\ asked \in SUBSET XClient
  /\ events \in Seq([type : {"owner", "targets", "request"}, who : Owner,
                     time : Nat])
  /\ reply \in {"none", "served", "refused", "ignored"}
  /\ latest \in Device \cup XClient \cup {None}

-----------------------------------------------------------------------------
(* The X server.                                                           *)

\* SetSelectionOwner of the client x at the current time.
Claim(x, queue) ==
  /\ owner' = x
  /\ time' = time + 1
  /\ ownerTime' = time'
  /\ events' = Append(queue, OwnerEvent(x, time'))

\* ownSelection(false).  The server ignores a time before the last change and
\* one in the future.
Disown(queue) ==
  /\ m_disownPending' = TRUE
  /\ IF m_timestamp = 0 \/ m_timestamp \in ownerTime..time
     THEN /\ owner' = None
          /\ ownerTime' = IF m_timestamp = 0 THEN time ELSE m_timestamp
          /\ events' = Append(queue, OwnerEvent(None, ownerTime'))
     ELSE /\ events' = queue /\ UNCHANGED <<owner, ownerTime>>
  /\ UNCHANGED time

Server(queue) ==
  events' = queue /\ UNCHANGED <<serverVars, m_disownPending>>

-----------------------------------------------------------------------------
(* Clipboard::checkWlSource, the X events left being queue, for the seat's *)
(* selection s, the active client a and the Wayland source w.              *)

\* Mutants: the source goes but KWin keeps the X selection; the source stays.
RemoveSourceKeeping(w, queue) == m_waylandSource' = None /\ Server(queue)
RemoveSourceNever(w, queue) == m_waylandSource' = w /\ Server(queue)

\* The lambda removeSource; setWlSource deletes the X source too.
RemoveSource(w, queue) ==
  /\ m_waylandSource' = None
  /\ IF w = None THEN Server(queue) ELSE Disown(queue)

CheckWlSource(s, a, w, x, queue) ==
  \/ /\ s \in {None, Bridge}
     /\ m_checkConnection' = FALSE
     /\ RemoveSource(w, queue)
     /\ m_xSource' = IF w = None THEN x ELSE NoSource
  \/ /\ s \in Device /\ a # "x11"
     /\ m_checkConnection' = TRUE
     /\ RemoveSource(w, queue)
     /\ m_xSource' = IF w = None THEN x ELSE NoSource
  \/ /\ s \in Device /\ a = "x11" /\ w # None
     /\ m_checkConnection' = TRUE
     /\ Server(queue)
     /\ m_waylandSource' = w /\ m_xSource' = x
  \/ /\ s \in Device /\ a = "x11" /\ w = None
     /\ m_checkConnection' = TRUE
     /\ m_waylandSource' = s /\ m_xSource' = NoSource
     /\ Claim(KWin, queue)
     /\ UNCHANGED m_disownPending

-----------------------------------------------------------------------------
(* What the seat and the workspace report.                                 *)

Quiet == events = <<>> /\ asked = {}

\* The actor may act now.
MayAct(kind) ==
  /\ Quiet \/ kind \in Racing
  /\ time < TimeBound /\ Len(events) < QueueBound

\* A client is activated.
Activate(a) ==
  /\ MayAct("focus")
  /\ active' = a
  /\ IF m_checkConnection
     THEN CheckWlSource(selection, a, m_waylandSource, m_xSource, events)
     ELSE /\ Server(events)
          /\ UNCHANGED <<m_checkConnection, m_waylandSource, m_xSource>>
  /\ UNCHANGED <<selection, m_timestamp, property, asked, reply, latest>>

\* Mutant: the source of the last device is not dropped.
WlSelectKeeping(d) ==
  /\ MayAct("wayland")
  /\ d # selection
  /\ selection' = d
  /\ CheckWlSource(d, active, m_waylandSource, m_xSource, events)
  /\ latest' = d
  /\ UNCHANGED <<active, m_timestamp, property, asked, reply>>

\* A native device sets the selection: wlSelectionChanged drops the sources and
\* looks again.
WlSelect(d) ==
  /\ MayAct("wayland")
  /\ d # selection
  /\ selection' = d
  /\ CheckWlSource(d, active, None, NoSource, events)
  /\ latest' = d
  /\ UNCHANGED <<active, m_timestamp, property, asked, reply>>

\* The selection of the seat vanishes.
WlClear ==
  /\ MayAct("wayland")
  /\ selection # None
  /\ selection' = None
  /\ CheckWlSource(None, active, m_waylandSource, m_xSource, events)
  /\ latest' = None
  /\ UNCHANGED <<active, m_timestamp, property, asked, reply>>

-----------------------------------------------------------------------------
(* X clients.                                                              *)

kwinVars == <<selection, active, m_waylandSource, m_xSource, m_timestamp,
              m_disownPending, m_checkConnection>>

\* An X client takes the selection; KWin accepts it while X11 has the focus.
XSelect(x) ==
  /\ MayAct("x11")
  /\ Claim(x, events)
  /\ latest' = IF active = "x11" THEN x
               ELSE IF latest \in XClient THEN None ELSE latest
  /\ UNCHANGED <<kwinVars, property, asked, reply>>

\* The owner gives the selection up or disconnects.
XRelease(x) ==
  /\ MayAct("x11")
  /\ owner = x
  /\ owner' = None
  /\ events' = Append(events, OwnerEvent(None, ownerTime))
  /\ asked' = asked \ {x}
  /\ latest' = IF latest = x THEN None ELSE latest
  /\ UNCHANGED <<kwinVars, ownerTime, time, property, reply>>

\* A client answers KWin's request for its targets.
XAnswer(x) ==
  /\ x \in asked
  /\ asked' = asked \ {x}
  /\ property' = x
  /\ events' = Append(events, TargetsEvent(x))
  /\ UNCHANGED <<kwinVars, serverVars, reply, latest>>

\* A client asks for the selection that KWin owns.
XRequest(x) ==
  /\ MayAct("x11")
  /\ owner = KWin
  /\ reply' = "none"
  /\ events' = Append(events, RequestEvent(x, time))
  /\ UNCHANGED <<kwinVars, serverVars, property, asked, latest>>

-----------------------------------------------------------------------------
(* KWin handles X events.                                                  *)

\* X11Source::getTargets: the server asks whoever owns the selection.
GetTargets(queue) ==
  /\ asked' = IF owner \in XClient THEN asked \cup {owner} ELSE asked
  /\ events' = IF owner = KWin THEN Append(queue, RequestEvent(KWin, time))
               ELSE IF owner = None THEN Append(queue, TargetsEvent(None))
               ELSE queue

Event(type) == events # <<>> /\ Head(events).type = type

\* handleXfixesNotify: the notify of our own disown is swallowed, that of our
\* own claim gives the timestamp.
OwnDisown ==
  /\ Event("owner") /\ m_disownPending
  /\ m_disownPending' = FALSE
  /\ events' = Tail(events)
  /\ UNCHANGED <<selection, active, m_waylandSource, m_xSource, m_timestamp,
                 m_checkConnection, serverVars, property, asked, reply, latest>>

OwnClaim ==
  /\ Event("owner") /\ ~m_disownPending
  /\ Head(events).who = KWin /\ m_waylandSource # None
  /\ m_timestamp' = Head(events).time
  /\ events' = Tail(events)
  /\ UNCHANGED <<selection, active, m_waylandSource, m_xSource,
                 m_disownPending, m_checkConnection, serverVars, property,
                 asked, reply, latest>>

\* Mutant: the Wayland source survives.
ForeignClaimKeeping ==
  LET x == Head(events).who
      accepted == active = "x11" /\ x # None
  IN /\ Event("owner") /\ ~m_disownPending
     /\ x # KWin \/ m_waylandSource = None
     /\ m_xSource' = IF accepted THEN [NoSource EXCEPT !.owner = x] ELSE NoSource
     /\ IF accepted THEN GetTargets(Tail(events))
                    ELSE events' = Tail(events) /\ UNCHANGED asked
     /\ UNCHANGED <<selection, active, m_waylandSource, m_timestamp,
                    m_disownPending, m_checkConnection, serverVars, property,
                    reply, latest>>

\* Mutant: a claim that is not accepted leaves the sources alone.
ForeignClaimStale ==
  LET x == Head(events).who
      accepted == active = "x11" /\ x # None
  IN /\ Event("owner") /\ ~m_disownPending
     /\ x # KWin \/ m_waylandSource = None
     /\ m_waylandSource' = IF accepted THEN None ELSE m_waylandSource
     /\ m_xSource' = IF accepted THEN [NoSource EXCEPT !.owner = x] ELSE m_xSource
     /\ IF accepted THEN GetTargets(Tail(events))
                    ELSE events' = Tail(events) /\ UNCHANGED asked
     /\ UNCHANGED <<selection, active, m_timestamp, m_disownPending,
                    m_checkConnection, serverVars, property, reply, latest>>

\* Clipboard::doHandleXfixesNotify
ForeignClaim ==
  LET x == Head(events).who
      accepted == active = "x11" /\ x # None
  IN /\ Event("owner") /\ ~m_disownPending
     /\ x # KWin \/ m_waylandSource = None
     /\ m_waylandSource' = None
     /\ m_xSource' = IF accepted THEN [NoSource EXCEPT !.owner = x] ELSE NoSource
     /\ IF accepted THEN GetTargets(Tail(events))
                    ELSE events' = Tail(events) /\ UNCHANGED asked
     /\ UNCHANGED <<selection, active, m_timestamp, m_disownPending,
                    m_checkConnection, serverVars, property, reply, latest>>

\* The targets the property holds; KWin's own source may offer anything.
Targets == IF property = KWin THEN Mime ELSE TargetsOf[property]

\* A SelectionNotify that X11Source does not use: no source, a failed
\* conversion or a property that was read before.
StaleTargets ==
  /\ Event("targets")
  /\ \/ m_xSource = NoSource
     \/ Head(events).who = None
     \/ property = None
  /\ events' = Tail(events)
  /\ property' = IF m_xSource = NoSource \/ Head(events).who = None
                 THEN property ELSE None
  /\ UNCHANGED <<kwinVars, serverVars, asked, reply, latest>>

\* x11OffersChanged sets the selection of the seat to s.
SetSelection(s, source) ==
  IF s = selection
  THEN /\ m_xSource' = source
       /\ Server(Tail(events))
       /\ UNCHANGED <<selection, m_waylandSource, m_checkConnection>>
  ELSE /\ selection' = s
       /\ CheckWlSource(s, active, m_waylandSource, source, Tail(events))

\* X11Source::handleTargets and Clipboard::x11OffersChanged
HandleTargets ==
  LET removed == m_xSource.offers \ Targets
      source == [m_xSource EXCEPT !.offers = Targets,
                                  !.offered = @ \/ Targets # {}]
      next == IF Targets = m_xSource.offers THEN selection
              ELSE IF Targets = {} THEN None
              ELSE IF ~m_xSource.offered \/ removed # {} THEN Bridge
              ELSE selection
  IN /\ Event("targets")
     /\ m_xSource # NoSource /\ Head(events).who # None /\ property # None
     /\ property' = None
     /\ SetSelection(next, source)
     /\ UNCHANGED <<active, m_timestamp, asked, reply, latest>>

\* Selection::handleSelectionRequest
HandleSelectionRequest ==
  LET x == Head(events).who
      result == IF active # "x11" THEN "refused"
                ELSE IF m_waylandSource # None THEN "served"
                ELSE IF Head(events).time < m_timestamp THEN "refused"
                ELSE "ignored"
  IN /\ Event("request")
     /\ IF x = KWin
        THEN /\ property' = IF result = "served" THEN KWin ELSE property
             /\ events' = CASE result = "served" ->
                                 Append(Tail(events), TargetsEvent(KWin))
                            [] result = "refused" ->
                                 Append(Tail(events), TargetsEvent(None))
                            [] OTHER -> Tail(events)
             /\ UNCHANGED reply
        ELSE /\ reply' = result
             /\ events' = Tail(events)
             /\ UNCHANGED property
     /\ UNCHANGED <<kwinVars, serverVars, asked, latest>>

-----------------------------------------------------------------------------
\* m_timestamp is not initialized.
Init ==
  /\ selection = None /\ active = "none"
  /\ m_waylandSource = None /\ m_xSource = NoSource
  /\ m_timestamp \in 0..(TimeBound + 1)
  /\ m_disownPending = FALSE /\ m_checkConnection = FALSE
  /\ owner = None /\ ownerTime = 0 /\ time = 0
  /\ property = None /\ asked = {} /\ events = <<>>
  /\ reply = "none" /\ latest = None

HandleEvent ==
  OwnDisown \/ OwnClaim \/ ForeignClaim \/ StaleTargets \/ HandleTargets
    \/ HandleSelectionRequest

Next ==
  \/ \E a \in {"x11", "wayland", "none"} : Activate(a)
  \/ \E d \in Device : WlSelect(d)
  \/ WlClear
  \/ \E x \in XClient : XSelect(x) \/ XRelease(x) \/ XAnswer(x) \/ XRequest(x)
  \/ HandleEvent

Spec == Init /\ [][Next]_vars

-----------------------------------------------------------------------------
(* Properties.                                                             *)

\* "Active source, if any. Only one of them at max can exist at the same time"
\* (selection.h).
OneSource == m_waylandSource = None \/ m_xSource = NoSource

\* The Wayland source exists only for the native selection and only while an
\* Xwayland client is active: "Otherwise the Wayland source gets destroyed to
\* shield against snooping X clients" (checkWlSource).
Shielded ==
  m_waylandSource # None => active = "x11" /\ selection = m_waylandSource

\* When all is said, KWin owns the X selection exactly while it has a Wayland
\* source to serve it from: X clients that paste are neither left without an
\* answer nor cut off from the clipboard.
OwnsForSource == Quiet => (owner = KWin <=> m_waylandSource # None)

\* When all is said, the X source names the X client that owns the X selection,
\* never one that owned it before and never KWin itself: "Being here means some
\* other X window has claimed the selection" (handleXfixesNotify).
SourceIsOwner ==
  Quiet /\ m_xSource # NoSource => m_xSource.owner = owner /\ owner \in XClient

\* The last copy wins, on both sides.
LatestWins ==
  Quiet =>
    /\ latest \in XClient => m_xSource.owner = latest
    /\ latest \in Device /\ active = "x11" => m_waylandSource = latest
=============================================================================
