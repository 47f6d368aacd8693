--------------------------- MODULE TransferXtoWl ---------------------------
(***************************************************************************)
(* One selection transfer from an X client to a Wayland client: the class  *)
(* TransferXtoWl with its DataReceiver, the timeout of Transfer, and the   *)
(* two peers.                                                              *)
(*                                                                         *)
(* The source is the X client that owns the selection: it sets the         *)
(* property of the transfer window, to all of its data or to INCR and then *)
(* to one portion after the other, each when the last one was deleted.     *)
(* The reader is a Wayland client that reads from the pipe KWin writes to. *)
(* The pipe is the reader's: it may be blocking or not.                    *)
(*                                                                         *)
(* The data are the units 1, 2, ... length.                                *)
(***************************************************************************)
EXTENDS Naturals, Sequences

CONSTANTS
  MaxLength,   \* bound on the length of the data
  PipeSize     \* units that fit into the pipe

ASSUME SizeAssumption == MaxLength \in Nat /\ PipeSize \in Nat \ {0}

VARIABLES
  length,      \* length of the data
  blocking,    \* write() on the pipe blocks
  sent,        \* units the source has put into the property
  source,      \* what the source does: "asked", "incr", "done"
  property,    \* the property of the transfer window
  events,      \* X events on their way to KWin
  m_receiver,  \* TransferXtoWl::m_receiver is set
  data,        \* DataReceiver::data(), what is still to be written
  incr,        \* Transfer::m_incr
  notifier,    \* Transfer::m_notifier is set
  blocked,     \* KWin's only thread waits in write()
  m_timeout,   \* Transfer::m_timeout
  phase,       \* the transfer exists ("running") or how it ended
  pipe,        \* what was written and not read
  got,         \* what the reader has read
  gone         \* the reader has closed its end of the pipe

sourceVars == <<length, blocking, sent, source>>
readerVars == <<got, gone>>
vars == <<length, blocking, sent, source, property, events, m_receiver, data,
          incr, notifier, blocked, m_timeout, phase, pipe, got, gone>>

Unset == [type |-> "none", data |-> <<>>]
Incr  == [type |-> "incr", data |-> <<>>]
Data(d) == [type |-> "data", data |-> d]

TypeOK ==
  /\ length \in 0..MaxLength
  /\ blocking \in BOOLEAN
  /\ sent \in 0..length
  /\ source \in {"asked", "incr", "done"}
  /\ property \in [type : {"none", "incr", "data"}, data : Seq(Nat)]
  /\ events \in Seq({"new value", "notify", "refusal"})
  /\ m_receiver \in BOOLEAN
  /\ data \in Seq(Nat)
  /\ incr \in BOOLEAN
  /\ notifier \in BOOLEAN
  /\ blocked \in BOOLEAN
  /\ m_timeout \in BOOLEAN
  /\ phase \in {"running", "completed", "failed", "timed out"}
  /\ pipe \in Seq(Nat) /\ Len(pipe) <= PipeSize
  /\ got \in Seq(Nat)
  /\ gone \in BOOLEAN

-----------------------------------------------------------------------------
(* dataSourceWrite.                                                        *)

Space == PipeSize - Len(pipe)

\* Units of d that write() takes now.
WriteLen(d) == IF Len(d) < Space THEN Len(d) ELSE Space

\* The pipe is broken, or it is full and does not block.
WriteError(d) == gone \/ (~blocking /\ Space = 0 /\ d # <<>>)

FullyWritten(d) == ~WriteError(d) /\ WriteLen(d) = Len(d)

\* Mutant: the property is never deleted.
DeletePropertyNever(d) == UNCHANGED property

\* A property of an incremental transfer is deleted once it is written.
DeleteProperty(d) ==
  property' = IF FullyWritten(d) THEN Unset ELSE property

\* A plain transfer is complete when its property is written.
DataSourceWrite(d, isIncr) ==
  LET n == WriteLen(d)
      partly == n < Len(d)
  IN IF WriteError(d)
     THEN /\ phase' = "failed"
          /\ notifier' = FALSE /\ blocked' = FALSE
          /\ data' = d
          /\ UNCHANGED <<pipe, m_timeout>>
     ELSE /\ pipe' = pipe \o SubSeq(d, 1, n)
          /\ data' = SubSeq(d, n + 1, Len(d))
          /\ notifier' = (partly /\ ~blocking)
          /\ blocked' = (partly /\ blocking)
          /\ phase' = IF partly \/ isIncr THEN phase ELSE "completed"
          /\ m_timeout' = (m_timeout /\ blocked')

\* The notifier finds the pipe writable, or the blocked write() goes on.
WriteOn ==
  /\ phase = "running"
  /\ notifier \/ blocked
  /\ Space > 0 \/ gone
  /\ DataSourceWrite(data, incr)
  /\ IF incr THEN DeleteProperty(data) ELSE UNCHANGED property
  /\ UNCHANGED <<sourceVars, events, m_receiver, incr, readerVars>>

-----------------------------------------------------------------------------
(* X events.                                                               *)

Event(type) ==
  /\ phase = "running" /\ ~blocked
  /\ events # <<>> /\ Head(events) = type
  /\ events' = Tail(events)

\* handleSelectionNotify of a failed conversion.
Refused ==
  /\ Event("refusal")
  /\ UNCHANGED <<sourceVars, property, m_receiver, data, incr, notifier,
                 blocked, m_timeout, phase, pipe, readerVars>>

\* Mutant: the type INCR is not looked at.
StartTransferPlain ==
  /\ Event("notify")
  /\ m_receiver' = TRUE
  /\ incr' = FALSE
  /\ property' = Unset
  /\ DataSourceWrite(property.data, FALSE)
  /\ UNCHANGED <<sourceVars, readerVars>>

\* handleSelectionNotify and startTransfer, which also deletes the property.
StartIncr ==
  /\ Event("notify")
  /\ property.type = "incr"
  /\ m_receiver' = TRUE
  /\ incr' = TRUE
  /\ property' = Unset
  /\ UNCHANGED <<sourceVars, data, notifier, blocked, m_timeout, phase, pipe,
                 readerVars>>

StartTransfer ==
  /\ Event("notify")
  /\ property.type # "incr"
  /\ m_receiver' = TRUE
  /\ incr' = FALSE
  /\ property' = Unset
  /\ DataSourceWrite(property.data, FALSE)
  /\ UNCHANGED <<sourceVars, readerVars>>

\* handlePropertyNotify before the transfer is known to be incremental.
EarlyValue ==
  /\ Event("new value")
  /\ ~incr \/ ~m_receiver
  /\ UNCHANGED <<sourceVars, property, m_receiver, data, incr, notifier,
                 blocked, m_timeout, phase, pipe, readerVars>>

\* getIncrChunk
GetIncrChunk ==
  /\ Event("new value")
  /\ incr /\ m_receiver
  /\ property.data # <<>>
  /\ DataSourceWrite(property.data, TRUE)
  /\ DeleteProperty(property.data)
  /\ UNCHANGED <<sourceVars, m_receiver, incr, readerVars>>

GetLastChunk ==
  /\ Event("new value")
  /\ incr /\ m_receiver
  /\ property.data = <<>>
  /\ phase' = "completed"
  /\ notifier' = FALSE
  /\ UNCHANGED <<sourceVars, property, m_receiver, data, incr, blocked,
                 m_timeout, pipe, readerVars>>

\* Mutant: only the first call counts.
TimeoutNever ==
  /\ phase = "running" /\ ~blocked
  /\ m_timeout' = ~m_timeout
  /\ UNCHANGED <<sourceVars, property, events, m_receiver, data, incr,
                 notifier, blocked, phase, pipe, readerVars>>

\* The timer of Selection calls Transfer::timeout every five seconds.
Timeout ==
  /\ phase = "running" /\ ~blocked
  /\ m_timeout' = TRUE
  /\ phase' = IF m_timeout THEN "timed out" ELSE phase
  /\ notifier' = (notifier /\ ~m_timeout)
  /\ UNCHANGED <<sourceVars, property, events, m_receiver, data, incr, blocked,
                 pipe, readerVars>>

-----------------------------------------------------------------------------
(* The peers.                                                              *)

ownVars == <<m_receiver, data, incr, notifier, blocked, m_timeout, phase>>

Units(n) == [i \in 1..n |-> sent + i]

SourceRefuses ==
  /\ source = "asked"
  /\ source' = "done"
  /\ events' = Append(events, "refusal")
  /\ UNCHANGED <<length, blocking, sent, property, ownVars, pipe, readerVars>>

SourceAnswers ==
  /\ source = "asked"
  /\ source' = "done"
  /\ property' = Data(Units(length))
  /\ sent' = length
  /\ events' = events \o <<"new value", "notify">>
  /\ UNCHANGED <<length, blocking, ownVars, pipe, readerVars>>

SourceAnnounces ==
  /\ source = "asked"
  /\ source' = "incr"
  /\ property' = Incr
  /\ events' = events \o <<"new value", "notify">>
  /\ UNCHANGED <<length, blocking, sent, ownVars, pipe, readerVars>>

\* The next portion, after the last one was deleted; one without data ends it.
SourceSends ==
  /\ source = "incr" /\ property = Unset
  /\ \E n \in 0..(length - sent) :
       /\ n = 0 <=> sent = length
       /\ property' = Data(Units(n))
       /\ sent' = sent + n
       /\ source' = IF n = 0 THEN "done" ELSE "incr"
  /\ events' = Append(events, "new value")
  /\ UNCHANGED <<length, blocking, ownVars, pipe, readerVars>>

Read ==
  /\ ~gone /\ pipe # <<>>
  /\ \E n \in 1..Len(pipe) :
       /\ got' = got \o SubSeq(pipe, 1, n)
       /\ pipe' = SubSeq(pipe, n + 1, Len(pipe))
  /\ UNCHANGED <<sourceVars, property, events, ownVars, gone>>

ReaderCloses ==
  /\ ~gone
  /\ gone' = TRUE
  /\ UNCHANGED <<sourceVars, property, events, ownVars, pipe, got>>

-----------------------------------------------------------------------------
Init ==
  /\ length \in 0..MaxLength
  /\ blocking \in BOOLEAN
  /\ sent = 0 /\ source = "asked"
  /\ property = Unset /\ events = <<>>
  /\ m_receiver = FALSE /\ data = <<>> /\ incr = FALSE
  /\ notifier = FALSE /\ blocked = FALSE /\ m_timeout = FALSE
  /\ phase = "running"
  /\ pipe = <<>> /\ got = <<>> /\ gone = FALSE

Handle ==
  \/ Refused \/ StartIncr \/ StartTransfer \/ EarlyValue \/ GetIncrChunk
  \/ GetLastChunk \/ WriteOn

SourceStep == SourceAnswers \/ SourceAnnounces \/ SourceSends

Next ==
  \/ Handle \/ Timeout \/ SourceStep \/ SourceRefuses \/ Read \/ ReaderCloses

Spec == Init /\ [][Next]_vars

\* KWin's event loop handles what is ready.
FairSpec == Spec /\ WF_vars(Handle)

\* Both peers do their part.
PeersFair == WF_vars(SourceStep) /\ WF_vars(Read)

-----------------------------------------------------------------------------
(* Properties.                                                             *)

Stream == INSTANCE ByteStream
  WITH input <- [i \in 1..length |-> i], output <- got,
       ended <- (phase = "completed" /\ pipe = <<>>)

\* The transfer implements a byte stream from the source to the reader: it ends
\* regularly, with the pipe closed, only when the reader has everything.
ImplementsStream == Stream!Spec

\* No transfer to a pipe that does not block lives for ever: "Timeout
\* transfers, which have become inactive due to client errors" (selection.h).
TransferEnds == ~blocking /\ WF_vars(Timeout) => <>(phase # "running")

\* Peers that do their part get the data across a pipe that blocks, unless the
\* transfer times out or one of them withdraws.
Delivered ==
  blocking /\ PeersFair =>
    <>(\/ phase = "timed out" \/ gone \/ Len(got) = length
       \/ source = "done" /\ property = Unset /\ ~m_receiver)
=============================================================================
