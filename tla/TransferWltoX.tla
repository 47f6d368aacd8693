--------------------------- MODULE TransferWltoX ---------------------------
(***************************************************************************)
(* One selection transfer from a Wayland source to an X window: the class  *)
(* TransferWltoX, the timeout of Transfer, and the two peers.              *)
(*                                                                         *)
(* The source is a Wayland client that writes its data into a pipe and     *)
(* closes it.  The requestor is an X client: it waits for SelectionNotify  *)
(* and takes and deletes the property KWin sets on its window, again and   *)
(* again when the property is of type INCR.  KWin learns of a deletion     *)
(* from a PropertyNotify event that may arrive at any later time.          *)
(*                                                                         *)
(* The data are the units 1, 2, ... length; ChunkSize units stand for the  *)
(* s_incrChunkSize bytes of a chunk.  Junk is what QByteArray::resize      *)
(* leaves in the part of a chunk that was not read into.                   *)
(***************************************************************************)
EXTENDS Naturals, Sequences

CONSTANTS
  ChunkSize,     \* s_incrChunkSize
  MaxLength,     \* bound on the length of the data
  SourceAhead    \* PropertyNotify events arrive only when the data for the
                 \* next property has been read

ASSUME ChunkAssumption == ChunkSize \in Nat \ {0}
ASSUME BoundAssumption == MaxLength \in Nat /\ SourceAhead \in BOOLEAN

VARIABLES
  length,        \* length of the data
  written,       \* units the source has written
  closed,        \* the source has closed its end of the pipe
  read,          \* units read from the pipe
  notifier,      \* Transfer::m_notifier is set
  m_chunks,      \* the valid part (second) of each of TransferWltoX::m_chunks
  incr,          \* Transfer::m_incr
  m_propertyIsSet,
  m_flushPropertyOnDelete,
  m_timeout,     \* Transfer::m_timeout
  phase,         \* the transfer exists ("running") or how it ended
  property,      \* the property of the requestor's window
  deletions,     \* PropertyNotify events on their way to KWin
  notified,      \* SelectionNotify has reached the requestor
  received,      \* what the requestor has taken
  reqIncr,       \* the requestor has seen the type INCR
  done           \* the requestor has all it expects

sourceVars == <<length, written, closed>>
flagVars   == <<incr, m_propertyIsSet, m_flushPropertyOnDelete>>
xVars      == <<received, reqIncr, done>>
vars == <<length, written, closed, read, notifier, m_chunks, incr,
          m_propertyIsSet, m_flushPropertyOnDelete, m_timeout, phase, property,
          deletions, notified, received, reqIncr, done>>

Junk == 0
Unset == [type |-> "none", data |-> <<>>]
Incr  == [type |-> "incr", data |-> <<>>]
Data(d) == [type |-> "data", data |-> d]

Unit == Nat

TypeOK ==
  /\ length \in 0..MaxLength
  /\ written \in 0..length
  /\ closed \in BOOLEAN
  /\ read \in 0..written
  /\ notifier \in BOOLEAN
  /\ m_chunks \in Seq(Seq(Unit))
  /\ \A k \in 1..Len(m_chunks) : Len(m_chunks[k]) <= ChunkSize
  /\ incr \in BOOLEAN
  /\ m_propertyIsSet \in BOOLEAN
  /\ m_flushPropertyOnDelete \in BOOLEAN
  /\ m_timeout \in BOOLEAN
  /\ phase \in {"running", "completed", "failed", "timed out", "crashed"}
  /\ property \in [type : {"none", "incr", "data"}, data : Seq(Unit)]
  /\ deletions \in Nat
  /\ notified \in BOOLEAN
  /\ received \in Seq(Unit)
  /\ reqIncr \in BOOLEAN
  /\ done \in BOOLEAN

-----------------------------------------------------------------------------
(* Chunks.                                                                 *)

Last(chunks) == chunks[Len(chunks)]

\* The chunks at the start of readWlSource: a new one unless the last has room.
ChunksToRead ==
  IF m_chunks = <<>> \/ Len(Last(m_chunks)) = ChunkSize
  THEN Append(m_chunks, <<>>) ELSE m_chunks

Room == ChunkSize - Len(Last(ChunksToRead))

\* What read() returns on the pipe.
ReadLen == IF written - read < Room THEN written - read ELSE Room

\* The chunks after read() has put n units into the last one.
ChunksRead(n) ==
  [ChunksToRead EXCEPT ![Len(ChunksToRead)] = @ \o [i \in 1..n |-> read + i]]

Padding(chunk) == [i \in 1..(ChunkSize - Len(chunk)) |-> Junk]

\* flushSourceData sets the property to the whole byte array of the first
\* chunk, which has ChunkSize units unless it was resized at the end of file.
Flushed(chunk, resized) ==
  Data(IF resized THEN chunk ELSE chunk \o Padding(chunk))

\* flushSourceData on the given chunks.
FlushSourceData(chunks, resized) ==
  /\ property' = Flushed(chunks[1], resized)
  /\ m_chunks' = Tail(chunks)
  /\ m_propertyIsSet' = TRUE

-----------------------------------------------------------------------------
(* readWlSource.                                                           *)

Readable == phase = "running" /\ notifier /\ (written > read \/ closed)

\* The end of the file in an incremental and in a plain transfer.
ReadEndIncr ==
  /\ Readable /\ ReadLen = 0 /\ incr
  /\ m_flushPropertyOnDelete' = TRUE
  /\ notifier' = FALSE
  /\ m_timeout' = FALSE
  /\ IF m_propertyIsSet
     THEN m_chunks' = ChunksRead(0) /\ UNCHANGED <<property, m_propertyIsSet>>
     ELSE FlushSourceData(ChunksRead(0), TRUE)
  /\ UNCHANGED <<sourceVars, read, incr, phase, deletions, notified, xVars>>

ReadEnd ==
  /\ Readable /\ ReadLen = 0 /\ ~incr
  /\ FlushSourceData(ChunksRead(0), TRUE)
  /\ notified' = TRUE
  /\ notifier' = FALSE
  /\ m_timeout' = FALSE
  /\ phase' = "completed"
  /\ UNCHANGED <<sourceVars, read, incr, m_flushPropertyOnDelete, deletions,
                 xVars>>

\* The chunk is not full yet.
ReadPart ==
  /\ Readable /\ ReadLen \in 1..(Room - 1)
  /\ m_chunks' = ChunksRead(ReadLen)
  /\ read' = read + ReadLen
  /\ m_timeout' = FALSE
  /\ UNCHANGED <<sourceVars, notifier, flagVars, phase, property, deletions,
                 notified, xVars>>

\* A chunk is full in a transfer that is incremental already.
ReadFull ==
  /\ Readable /\ ReadLen = Room /\ incr
  /\ read' = read + ReadLen
  /\ m_flushPropertyOnDelete' = TRUE
  /\ m_timeout' = FALSE
  /\ IF m_propertyIsSet
     THEN /\ m_chunks' = ChunksRead(ReadLen)
          /\ UNCHANGED <<property, m_propertyIsSet>>
     ELSE FlushSourceData(ChunksRead(ReadLen), FALSE)
  /\ UNCHANGED <<sourceVars, notifier, incr, phase, deletions, notified, xVars>>

\* Mutant: the requestor is not told of the INCR property.
StartIncrUnnotified ==
  /\ Readable /\ ReadLen = Room /\ ~incr
  /\ read' = read + ReadLen
  /\ m_chunks' = ChunksRead(ReadLen)
  /\ property' = Incr
  /\ incr' = TRUE /\ m_flushPropertyOnDelete' = TRUE /\ m_propertyIsSet' = TRUE
  /\ m_timeout' = FALSE
  /\ UNCHANGED <<sourceVars, notifier, phase, deletions, notified, xVars>>

\* The first chunk is full: startIncr.
StartIncr ==
  /\ Readable /\ ReadLen = Room /\ ~incr
  /\ read' = read + ReadLen
  /\ m_chunks' = ChunksRead(ReadLen)
  /\ property' = Incr
  /\ incr' = TRUE /\ m_flushPropertyOnDelete' = TRUE /\ m_propertyIsSet' = TRUE
  /\ notified' = TRUE
  /\ m_timeout' = FALSE
  /\ UNCHANGED <<sourceVars, notifier, phase, deletions, xVars>>

\* read() fails; the X side is not told.
ReadError ==
  /\ Readable
  /\ notifier' = FALSE
  /\ phase' = "failed"
  /\ UNCHANGED <<sourceVars, read, m_chunks, flagVars, m_timeout, property,
                 deletions, notified, xVars>>

ReadWlSource ==
  ReadEndIncr \/ ReadEnd \/ ReadPart \/ ReadFull \/ StartIncr

-----------------------------------------------------------------------------
(* handlePropertyNotify: the requestor has deleted the property.           *)

\* All the data the next property needs is there.
ChunkReady ==
  \/ ~notifier
  \/ m_chunks # <<>> /\ Len(m_chunks[1]) = ChunkSize

\* Only an incremental transfer that may flush acts on a deletion.
Deleted ==
  /\ phase = "running" /\ deletions > 0
  /\ incr /\ m_flushPropertyOnDelete
  /\ SourceAhead => ChunkReady
  /\ deletions' = deletions - 1

\* Mutant: chunks that are still to be sent are forgotten at the end.
PropertyDeletedEarly ==
  /\ Deleted
  /\ ~notifier
  /\ m_propertyIsSet' = FALSE /\ m_flushPropertyOnDelete' = FALSE
  /\ property' = Data(<<>>)
  /\ phase' = "completed"
  /\ UNCHANGED <<sourceVars, read, notifier, m_chunks, incr, m_timeout,
                 notified, xVars>>

\* All was sent: a property of length zero ends the transfer.
PropertyDeletedLast ==
  /\ Deleted
  /\ ~notifier /\ m_chunks = <<>>
  /\ m_propertyIsSet' = FALSE /\ m_flushPropertyOnDelete' = FALSE
  /\ property' = Data(<<>>)
  /\ phase' = "completed"
  /\ UNCHANGED <<sourceVars, read, notifier, m_chunks, incr, m_timeout,
                 notified, xVars>>

\* The next chunk is sent.  On an empty list QVector::first is undefined.
PropertyDeletedNext ==
  /\ Deleted
  /\ notifier \/ m_chunks # <<>>
  /\ IF m_chunks = <<>>
     THEN phase' = "crashed" /\ UNCHANGED <<property, m_chunks, m_propertyIsSet>>
     ELSE FlushSourceData(m_chunks, ~notifier) /\ UNCHANGED phase
  /\ m_timeout' = FALSE
  /\ UNCHANGED <<sourceVars, read, notifier, incr, m_flushPropertyOnDelete,
                 notified, xVars>>

HandlePropertyDelete == PropertyDeletedLast \/ PropertyDeletedNext

-----------------------------------------------------------------------------
(* The timer of Selection calls Transfer::timeout every five seconds.      *)

\* Mutant: only the first call counts.
TimeoutNever ==
  /\ phase = "running"
  /\ m_timeout' = ~m_timeout
  /\ UNCHANGED <<sourceVars, read, notifier, m_chunks, flagVars, phase,
                 property, deletions, notified, xVars>>

Timeout ==
  /\ phase = "running"
  /\ m_timeout' = TRUE
  /\ phase' = IF m_timeout THEN "timed out" ELSE phase
  /\ notifier' = (notifier /\ ~m_timeout)
  /\ UNCHANGED <<sourceVars, read, m_chunks, flagVars, property, deletions,
                 notified, xVars>>

-----------------------------------------------------------------------------
(* The peers.                                                              *)

SourceWrite ==
  /\ ~closed
  /\ \E n \in 1..(length - written) : written' = written + n
  /\ UNCHANGED <<length, closed, read, notifier, m_chunks, flagVars, m_timeout,
                 phase, property, deletions, notified, xVars>>

SourceClose ==
  /\ ~closed /\ written = length
  /\ closed' = TRUE
  /\ UNCHANGED <<length, written, read, notifier, m_chunks, flagVars,
                 m_timeout, phase, property, deletions, notified, xVars>>

\* The requestor gets and deletes the property.  KWin has selected for the
\* event if the transfer is incremental and still there.
Take ==
  /\ notified /\ ~done
  /\ property # Unset
  /\ property' = Unset
  /\ deletions' = IF incr /\ phase = "running" THEN deletions + 1 ELSE deletions
  /\ IF property = Incr
     THEN reqIncr' = TRUE /\ UNCHANGED <<received, done>>
     ELSE /\ received' = received \o property.data
          /\ done' = (~reqIncr \/ property.data = <<>>)
          /\ UNCHANGED reqIncr
  /\ UNCHANGED <<sourceVars, read, notifier, m_chunks, flagVars, m_timeout,
                 phase, notified>>

-----------------------------------------------------------------------------
Init ==
  /\ length \in 0..MaxLength
  /\ written = 0 /\ closed = FALSE /\ read = 0
  /\ notifier = TRUE /\ m_chunks = <<>>
  /\ incr = FALSE /\ m_propertyIsSet = FALSE
  /\ m_flushPropertyOnDelete = FALSE /\ m_timeout = FALSE
  /\ phase = "running"
  /\ property = Unset /\ deletions = 0 /\ notified = FALSE
  /\ received = <<>> /\ reqIncr = FALSE /\ done = FALSE

Next ==
  \/ ReadWlSource \/ ReadError \/ HandlePropertyDelete \/ Timeout
  \/ SourceWrite \/ SourceClose \/ Take

Spec == Init /\ [][Next]_vars

\* KWin's event loop handles what is ready.
KWinFair == WF_vars(ReadWlSource) /\ WF_vars(HandlePropertyDelete)

\* Both peers do their part.
PeersFair == WF_vars(SourceWrite) /\ WF_vars(SourceClose) /\ WF_vars(Take)

FairSpec == Spec /\ KWinFair

-----------------------------------------------------------------------------
(* Properties.                                                             *)

\* The data arrives unchanged and in order: what the requestor has taken and
\* what is in the property is a prefix of the data of the source.  m_chunks
\* "contains all received data portioned in chunks" (transfer.h).
Intact ==
  LET seen == received \o property.data
  IN  /\ Len(seen) <= length
      /\ \A i \in 1..Len(seen) : seen[i] = i

\* A running transfer never waits for nothing: the source still has something
\* to do, the pipe can be read, a deletion is on its way or the requestor can
\* take a property.  The timeout is for peers that stop, not for the protocol.
NoStall ==
  phase = "running" =>
    \/ ~closed \/ notifier
    \/ deletions > 0
    \/ notified /\ ~done /\ property # Unset

Stream == INSTANCE ByteStream
  WITH input <- [i \in 1..length |-> i], output <- received,
       ended <- done

\* The transfer implements a byte stream from the source to the requestor: INCR
\* portions, chunks and late deletions are invisible to the two peers.
ImplementsStream == Stream!Spec

\* No transfer lives for ever: as long as the timer fires, a source or a
\* requestor that stops half way does not keep the transfer alive, and neither
\* can the timeout be held off without end.
TransferEnds == WF_vars(Timeout) => <>(phase # "running")

\* Peers that do their part get the data across, however slow they are, unless
\* the transfer times out or the pipe fails.
Delivered ==
  PeersFair => <>(phase \in {"timed out", "failed"} \/ done)
=============================================================================
