------------------------ MODULE TransferWltoXProofs ------------------------
(***************************************************************************)
(* A transfer to an X window is well typed and never waits for nothing,    *)
(* for every chunk size and every length of the data, and also when the    *)
(* requestor is faster than the source.  When it is not, the transfer      *)
(* implements ByteStream: what was taken, what is in the property and what *)
(* is in each chunk are runs of consecutive units, one after the other.    *)
(***************************************************************************)
EXTENDS TransferWltoX, SequenceTheorems, TLAPS

\* The counters of the source and of the pipe.
LEMMA Counters ==
  ASSUME TypeOK
  PROVE  /\ length \in Nat /\ written \in Nat /\ read \in Nat
         /\ read <= written /\ written <= length
<1>1. length \in 0..MaxLength /\ written \in 0..length /\ read \in 0..written
  BY Zenon DEF TypeOK
<1>2. length \in Nat
  BY <1>1, BoundAssumption
<1> QED
  BY <1>1, <1>2

\* The chunks readWlSource works on: the last one has room.
LEMMA ChunksToReadType ==
  ASSUME TypeOK
  PROVE  /\ ChunksToRead \in Seq(Seq(Unit))
         /\ Len(ChunksToRead) \in Nat \ {0}
         /\ \A k \in 1..Len(ChunksToRead) : Len(ChunksToRead[k]) <= ChunkSize
         /\ Len(Last(ChunksToRead)) < ChunkSize
         /\ Last(ChunksToRead) \in Seq(Unit)
         /\ Room \in 1..ChunkSize
<1> USE ChunkAssumption
<1>0. m_chunks \in Seq(Seq(Unit))
  BY DEF TypeOK
<1>1. m_chunks \in Seq(Seq(Unit)) /\ Len(m_chunks) \in Nat
  BY <1>0
<1>2. \A k \in 1..Len(m_chunks) : Len(m_chunks[k]) <= ChunkSize
  BY DEF TypeOK
<1>3. CASE m_chunks = <<>> \/ Len(Last(m_chunks)) = ChunkSize
  <2>1. ChunksToRead = Append(m_chunks, <<>>)
    BY <1>3 DEF ChunksToRead
  <2>2. /\ Len(ChunksToRead) = Len(m_chunks) + 1
        /\ \A k \in 1..Len(m_chunks) : ChunksToRead[k] = m_chunks[k]
        /\ ChunksToRead[Len(m_chunks) + 1] = <<>>
        /\ ChunksToRead \in Seq(Seq(Unit))
    BY <1>1, <2>1
  <2>3. Last(ChunksToRead) = <<>> /\ Len(Last(ChunksToRead)) = 0
    BY <1>1, <2>2 DEF Last
  <2>4. Last(ChunksToRead) \in Seq(Unit)
    BY <2>3
  <2>5. \A k \in 1..Len(ChunksToRead) : Len(ChunksToRead[k]) <= ChunkSize
    <3> TAKE k \in 1..Len(ChunksToRead)
    <3>1. CASE k \in 1..Len(m_chunks)
      BY <3>1, <1>2, <2>2
    <3>2. CASE k = Len(m_chunks) + 1
      BY <3>2, <2>2
    <3> QED
      BY <3>1, <3>2, <1>1, <2>2
  <2>6. Room = ChunkSize
    BY <2>3 DEF Room
  <2>7. Len(ChunksToRead) \in Nat \ {0}
    BY <1>1, <2>2
  <2> QED
    BY <2>2, <2>3, <2>4, <2>5, <2>6, <2>7
<1>4. CASE ~(m_chunks = <<>> \/ Len(Last(m_chunks)) = ChunkSize)
  <2>1. ChunksToRead = m_chunks
    BY <1>4 DEF ChunksToRead
  <2>2. Len(m_chunks) \in Nat \ {0}
    BY <1>1, <1>4
  <2>3. Last(m_chunks) \in Seq(Unit) /\ Len(Last(m_chunks)) \in Nat
    BY <1>1, <2>2 DEF Last
  <2>4. Len(Last(m_chunks)) <= ChunkSize
    BY <1>2, <2>2 DEF Last
  <2> QED
    BY <1>1, <1>2, <1>4, <2>1, <2>2, <2>3, <2>4 DEF Room
<1> QED
  BY <1>3, <1>4

\* What read() returns fits into the last chunk and is in the pipe.
LEMMA ReadLenType ==
  ASSUME TypeOK
  PROVE  /\ ReadLen \in Nat /\ ReadLen <= Room
         /\ read + ReadLen \in 0..written
         /\ ReadLen = 0 <=> written = read
<1>1. Room \in 1..ChunkSize /\ ChunkSize \in Nat
  BY ChunksToReadType, ChunkAssumption
<1> QED
  BY <1>1, Counters DEF ReadLen

\* Reading n units keeps the chunks typed and within their size.
LEMMA ChunksReadType ==
  ASSUME TypeOK, NEW n \in Nat, n <= Room
  PROVE  /\ ChunksRead(n) \in Seq(Seq(Unit))
         /\ Len(ChunksRead(n)) = Len(ChunksToRead)
         /\ \A k \in 1..Len(ChunksRead(n)) : Len(ChunksRead(n)[k]) <= ChunkSize
         /\ Len(ChunksRead(n)[Len(ChunksRead(n))]) = Len(Last(ChunksToRead)) + n
         /\ \A k \in 1..(Len(ChunksRead(n)) - 1) :
              ChunksRead(n)[k] = ChunksToRead[k]
<1> DEFINE C == ChunksToRead
           new == [i \in 1..n |-> read + i]
<1>1. /\ C \in Seq(Seq(Unit)) /\ Len(C) \in Nat \ {0}
      /\ \A k \in 1..Len(C) : Len(C[k]) <= ChunkSize
      /\ Last(C) \in Seq(Unit)
      /\ Room = ChunkSize - Len(Last(C))
  BY ChunksToReadType DEF Room
<1>2. read \in Nat
  BY Counters
<1>3. new \in Seq(Unit) /\ Len(new) = n
  BY <1>2 DEF Unit
<1>4. /\ Last(C) \o new \in Seq(Unit)
      /\ Len(Last(C) \o new) = Len(Last(C)) + n
      /\ Len(Last(C)) \in Nat
  BY <1>1, <1>3
<1>5. ChunksRead(n) = [C EXCEPT ![Len(C)] = Last(C) \o new]
  BY DEF ChunksRead, Last
<1> HIDE DEF C, new
<1>6. /\ ChunksRead(n) \in Seq(Seq(Unit))
      /\ Len(ChunksRead(n)) = Len(C)
      /\ ChunksRead(n)[Len(C)] = Last(C) \o new
      /\ \A k \in 1..Len(C) : k # Len(C) => ChunksRead(n)[k] = C[k]
  BY <1>1, <1>4, <1>5
<1>7. Len(Last(C)) + n <= ChunkSize
  BY <1>1, <1>4, ChunkAssumption
<1>8. Len(ChunksRead(n)[Len(C)]) = Len(Last(C)) + n
  BY <1>4, <1>6
<1>9. \A k \in 1..Len(C) : Len(ChunksRead(n)[k]) <= ChunkSize
  BY <1>1, <1>6, <1>7, <1>8
<1> QED
  BY <1>1, <1>6, <1>8, <1>9 DEF C

-----------------------------------------------------------------------------
(* Type correctness.                                                       *)

\* flushSourceData sets the property to a byte array, which is empty only for
\* an empty chunk that was resized.
LEMMA FlushedType ==
  ASSUME NEW chunk \in Seq(Unit), Len(chunk) <= ChunkSize, NEW resized \in BOOLEAN
  PROVE  /\ Flushed(chunk, resized) \in [type : {"none", "incr", "data"}, data : Seq(Unit)]
         /\ Flushed(chunk, resized).type = "data"
         /\ Flushed(chunk, resized) # Unset
         /\ Flushed(chunk, resized).data = <<>> => resized /\ chunk = <<>>
<1> USE ChunkAssumption
<1>1. Len(chunk) \in Nat
  OBVIOUS
<1>2. Padding(chunk) \in Seq(Unit) /\ Len(Padding(chunk)) = ChunkSize - Len(chunk)
  BY <1>1 DEF Padding, Unit, Junk
<1>3. /\ chunk \o Padding(chunk) \in Seq(Unit)
      /\ Len(chunk \o Padding(chunk)) = ChunkSize
  BY <1>1, <1>2
<1>4. chunk \o Padding(chunk) # <<>>
  BY <1>3
<1> QED
  BY <1>3, <1>4 DEF Flushed, Data, Unset

\* The chunks left after the first one was taken.
LEMMA TailType ==
  ASSUME NEW chunks \in Seq(Seq(Unit)), chunks # <<>>,
         \A k \in 1..Len(chunks) : Len(chunks[k]) <= ChunkSize
  PROVE  /\ chunks[1] \in Seq(Unit) /\ Len(chunks[1]) <= ChunkSize
         /\ Tail(chunks) \in Seq(Seq(Unit))
         /\ Len(chunks) \in Nat \ {0}
         /\ Len(Tail(chunks)) = Len(chunks) - 1
         /\ \A k \in 1..Len(Tail(chunks)) :
              Tail(chunks)[k] = chunks[k + 1] /\ Len(Tail(chunks)[k]) <= ChunkSize
<1>1. Len(chunks) \in Nat \ {0}
  OBVIOUS
<1>2. /\ Tail(chunks) \in Seq(Seq(Unit))
      /\ Len(Tail(chunks)) = Len(chunks) - 1
      /\ \A k \in 1..Len(Tail(chunks)) : Tail(chunks)[k] = chunks[k + 1]
  BY <1>1
<1>3. chunks[1] \in Seq(Unit) /\ Len(chunks[1]) <= ChunkSize
  BY <1>1
<1> QED
  BY <1>1, <1>2, <1>3

\* The chunks of a transfer.
ChunksOK(chunks) ==
  /\ chunks \in Seq(Seq(Unit))
  /\ \A k \in 1..Len(chunks) : Len(chunks[k]) <= ChunkSize

PropertyType == [type : {"none", "incr", "data"}, data : Seq(Unit)]

\* Flushing keeps the property and the chunks typed.
LEMMA FlushType ==
  ASSUME NEW chunks, ChunksOK(chunks), chunks # <<>>, NEW resized \in BOOLEAN,
         FlushSourceData(chunks, resized)
  PROVE  /\ property' \in PropertyType /\ ChunksOK(m_chunks')
         /\ property'.type = "data" /\ property' # Unset
         /\ property'.data = <<>> => resized /\ chunks[1] = <<>>
         /\ m_propertyIsSet'
<1>1. /\ chunks[1] \in Seq(Unit) /\ Len(chunks[1]) <= ChunkSize
      /\ ChunksOK(Tail(chunks))
  BY TailType DEF ChunksOK
<1> QED
  BY <1>1, FlushedType DEF FlushSourceData, PropertyType

\* What reading n units, n fitting into the last chunk, does to the chunks.
LEMMA ReadChunksOK ==
  ASSUME TypeOK, NEW n \in Nat, n <= Room
  PROVE  ChunksOK(ChunksRead(n)) /\ ChunksRead(n) # <<>>
BY ChunksReadType, ChunksToReadType DEF ChunksOK

\* The variables that no action types in an interesting way.
PlainType ==
  /\ closed \in BOOLEAN /\ notifier \in BOOLEAN /\ incr \in BOOLEAN
  /\ m_propertyIsSet \in BOOLEAN
  /\ m_flushPropertyOnDelete \in BOOLEAN /\ m_timeout \in BOOLEAN
  /\ phase \in {"running", "completed", "failed", "timed out", "crashed"}
  /\ notified \in BOOLEAN /\ reqIncr \in BOOLEAN /\ done \in BOOLEAN

CountType ==
  /\ length \in 0..MaxLength /\ written \in 0..length /\ read \in 0..written
  /\ deletions \in Nat

DataType ==
  ChunksOK(m_chunks) /\ property \in PropertyType /\ received \in Seq(Unit)

LEMMA TypeSplit == TypeOK <=> PlainType /\ CountType /\ DataType
BY Zenon DEF TypeOK, PlainType, CountType, DataType, ChunksOK, PropertyType

LEMMA TypeSplitPrime == PlainType' /\ CountType' /\ DataType' => TypeOK'
BY Zenon DEF TypeOK, PlainType, CountType, DataType, ChunksOK, PropertyType

\* Every step keeps the types.
LEMMA TypeStep == TypeOK /\ [Next]_vars => TypeOK'
<1> SUFFICES ASSUME TypeOK, [Next]_vars PROVE TypeOK'
  OBVIOUS
<1>0. PlainType /\ CountType /\ DataType
  BY TypeSplit
<1>c. /\ read + ReadLen \in 0..written /\ ReadLen \in Nat /\ ReadLen <= Room
      /\ Room \in Nat /\ 0 <= Room
  BY ReadLenType, ChunksToReadType, ChunkAssumption
<1>r. /\ ChunksOK(ChunksRead(0)) /\ ChunksRead(0) # <<>>
      /\ ChunksOK(ChunksRead(ReadLen)) /\ ChunksRead(ReadLen) # <<>>
  BY <1>c, ReadChunksOK
<1>u. Unset \in PropertyType /\ Incr \in PropertyType /\ Data(<<>>) \in PropertyType
  BY DEF Unset, Incr, Data, PropertyType
<1> USE DEF sourceVars, flagVars, xVars
<1>1. CASE ReadEndIncr
  <2>1. PlainType' /\ CountType' /\ received' \in Seq(Unit)
    BY <1>0, <1>1 DEF ReadEndIncr, PlainType, CountType, DataType, FlushSourceData
  <2>2. ChunksOK(m_chunks') /\ property' \in PropertyType
    <3>1. CASE m_propertyIsSet
      BY <1>0, <1>1, <1>r, <3>1 DEF ReadEndIncr, DataType
    <3>2. CASE ~m_propertyIsSet
      <4>1. FlushSourceData(ChunksRead(0), TRUE)
        BY <1>1, <3>2 DEF ReadEndIncr
      <4> QED
        BY <1>r, <4>1, FlushType
    <3> QED
      BY <3>1, <3>2
  <2> QED
    BY <2>1, <2>2, TypeSplitPrime DEF DataType
<1>2. CASE ReadEnd
  <2>1. PlainType' /\ CountType' /\ received' \in Seq(Unit)
    BY <1>0, <1>2 DEF ReadEnd, PlainType, CountType, DataType, FlushSourceData
  <2>2. ChunksOK(m_chunks') /\ property' \in PropertyType
    BY <1>2, <1>r, FlushType DEF ReadEnd
  <2> QED
    BY <2>1, <2>2, TypeSplitPrime DEF DataType
<1>3. CASE ReadPart
  <2>1. PlainType' /\ CountType' /\ received' \in Seq(Unit)
    BY <1>0, <1>3, <1>c DEF ReadPart, PlainType, CountType, DataType
  <2>2. ChunksOK(m_chunks') /\ property' \in PropertyType
    BY <1>0, <1>3, <1>r DEF ReadPart, DataType
  <2> QED
    BY <2>1, <2>2, TypeSplitPrime DEF DataType
<1>4. CASE ReadFull
  <2>1. PlainType' /\ CountType' /\ received' \in Seq(Unit)
    BY <1>0, <1>4, <1>c DEF ReadFull, PlainType, CountType, DataType, FlushSourceData
  <2>2. ChunksOK(m_chunks') /\ property' \in PropertyType
    <3>1. CASE m_propertyIsSet
      BY <1>0, <1>4, <1>r, <3>1 DEF ReadFull, DataType
    <3>2. CASE ~m_propertyIsSet
      <4>1. FlushSourceData(ChunksRead(ReadLen), FALSE)
        BY <1>4, <3>2 DEF ReadFull
      <4> QED
        BY <1>r, <4>1, FlushType
    <3> QED
      BY <3>1, <3>2
  <2> QED
    BY <2>1, <2>2, TypeSplitPrime DEF DataType
<1>5. CASE StartIncr
  <2>1. PlainType' /\ CountType' /\ received' \in Seq(Unit)
    BY <1>0, <1>5, <1>c DEF StartIncr, PlainType, CountType, DataType
  <2>2. ChunksOK(m_chunks') /\ property' \in PropertyType
    BY <1>5, <1>r, <1>u DEF StartIncr
  <2> QED
    BY <2>1, <2>2, TypeSplitPrime DEF DataType
<1>6. CASE ReadError
  BY <1>0, <1>6, TypeSplitPrime DEF ReadError, PlainType, CountType, DataType
<1>7. CASE PropertyDeletedLast
  <2>0. deletions' \in Nat
    BY <1>0, <1>7 DEF PropertyDeletedLast, Deleted, CountType
  <2>1. PlainType' /\ CountType' /\ received' \in Seq(Unit)
    BY <1>0, <1>7, <2>0 DEF PropertyDeletedLast, PlainType, CountType, DataType
  <2>2. ChunksOK(m_chunks') /\ property' \in PropertyType
    BY <1>0, <1>7, <1>u DEF PropertyDeletedLast, DataType
  <2> QED
    BY <2>1, <2>2, TypeSplitPrime DEF DataType
<1>8. CASE PropertyDeletedNext
  <2>0. deletions' \in Nat
    BY <1>0, <1>8 DEF PropertyDeletedNext, Deleted, CountType
  <2>1. PlainType' /\ CountType' /\ received' \in Seq(Unit)
    BY <1>0, <1>8, <2>0 DEF PropertyDeletedNext, FlushSourceData, PlainType,
                            CountType, DataType
  <2>2. ChunksOK(m_chunks') /\ property' \in PropertyType
    <3>1. CASE m_chunks = <<>>
      BY <1>0, <1>8, <3>1 DEF PropertyDeletedNext, DataType
    <3>2. CASE m_chunks # <<>>
      <4>1. FlushSourceData(m_chunks, ~notifier)
        BY <1>8, <3>2 DEF PropertyDeletedNext
      <4> QED
        BY <1>0, <3>2, <4>1, FlushType DEF DataType
    <3> QED
      BY <3>1, <3>2
  <2> QED
    BY <2>1, <2>2, TypeSplitPrime DEF DataType
<1>9. CASE Timeout
  BY <1>0, <1>9, TypeSplitPrime DEF Timeout, PlainType, CountType, DataType
<1>10. CASE SourceWrite
  <2>1. CountType'
    <3>1. PICK n \in 1..(length - written) : written' = written + n
      BY <1>10 DEF SourceWrite
    <3> QED
      BY <1>0, <1>10, <3>1, Counters DEF SourceWrite, CountType
  <2>2. PlainType' /\ DataType'
    BY <1>0, <1>10 DEF SourceWrite, PlainType, DataType
  <2> QED
    BY <2>1, <2>2, TypeSplitPrime
<1>11. CASE SourceClose
  BY <1>0, <1>11, TypeSplitPrime DEF SourceClose, PlainType, CountType, DataType
<1>12. CASE Take
  <2>1. PlainType'
    BY <1>0, <1>12 DEF Take, PlainType
  <2>2. CountType'
    BY <1>0, <1>12 DEF Take, CountType
  <2>3. property.data \in Seq(Unit)
    BY <1>0 DEF DataType, PropertyType
  <2>4. received' \in Seq(Unit)
    <3>1. received \in Seq(Unit) /\ received \o property.data \in Seq(Unit)
      BY <1>0, <2>3 DEF DataType
    <3> QED
      BY <1>12, <3>1, Zenon DEF Take
  <2>5. m_chunks' = m_chunks /\ property' = Unset
    BY <1>12 DEF Take
  <2>6. DataType'
    BY <1>0, <1>u, <2>4, <2>5, Zenon DEF DataType
  <2> QED
    BY <2>1, <2>2, <2>6, TypeSplitPrime
<1>13. CASE UNCHANGED vars
  BY <1>0, <1>13, TypeSplitPrime, ZenonT(30) DEF vars, PlainType, CountType, DataType
<1> QED
  BY <1>1, <1>2, <1>3, <1>4, <1>5, <1>6, <1>7, <1>8, <1>9, <1>10, <1>11, <1>12,
     <1>13 DEF Next, ReadWlSource, HandlePropertyDelete

\* No transfer starts with an ill typed state.
LEMMA TypeInit == Init => TypeOK
<1> SUFFICES ASSUME Init PROVE TypeOK
  OBVIOUS
<1>1. PlainType
  BY DEF Init, PlainType
<1>2. CountType
  BY BoundAssumption DEF Init, CountType
<1>3. DataType
  BY DEF Init, DataType, ChunksOK, PropertyType, Unset
<1> QED
  BY <1>1, <1>2, <1>3, TypeSplit

\* TypeOK: in particular no chunk grows past s_incrChunkSize and readWlSource
\* never counts more than the pipe has, for every chunk size and every length.
THEOREM TypeCorrect == Spec => []TypeOK
BY TypeInit, TypeStep, PTL DEF Spec

-----------------------------------------------------------------------------
(* A running transfer never waits for nothing.                             *)

\* An empty chunk is the last one and there is no further reading.
EmptyLast ==
  \A k \in 1..Len(m_chunks) :
    m_chunks[k] = <<>> => k = Len(m_chunks) /\ ~notifier

\* Before startIncr nothing has happened on the X side.
PlainPart == ~incr => notifier /\ deletions = 0 /\ property = Unset

\* Afterwards the property is set, or its deletion is on its way to KWin, and
\* never both; a deletion is always acted upon.
TurnPart ==
  incr => /\ notified /\ m_propertyIsSet /\ m_flushPropertyOnDelete
          /\ \/ deletions = 0 /\ property # Unset
             \/ deletions = 1 /\ property = Unset /\ reqIncr
          /\ property \in {Unset, Incr} \/ (property.type = "data" /\ reqIncr)

\* The requestor believes in the end of the data only when there is none left.
EndPart ==
  /\ done => ~notifier /\ m_chunks = <<>> /\ property = Unset
  /\ property.type = "data" /\ property.data = <<>> =>
       ~notifier /\ m_chunks = <<>>

FlagInv ==
  phase = "running" => EmptyLast /\ PlainPart /\ TurnPart /\ EndPart

\* Reading into the chunks keeps them free of empty ones, except for the last
\* one at the end of the file.
LEMMA ReadNonEmpty ==
  ASSUME TypeOK, EmptyLast, notifier = TRUE, NEW n \in Nat, n <= Room,
         NEW k \in 1..Len(ChunksRead(n)), ChunksRead(n)[k] = <<>>
  PROVE  k = Len(ChunksRead(n)) /\ n = 0
<1>1. /\ Len(ChunksRead(n)) = Len(ChunksToRead)
      /\ Len(ChunksToRead) \in Nat \ {0}
      /\ Len(ChunksRead(n)[Len(ChunksRead(n))]) = Len(Last(ChunksToRead)) + n
      /\ \A j \in 1..(Len(ChunksRead(n)) - 1) : ChunksRead(n)[j] = ChunksToRead[j]
  BY ChunksReadType, ChunksToReadType
<1>2. Len(Last(ChunksToRead)) \in Nat
  <2>1. Last(ChunksToRead) \in Seq(Unit)
    BY ChunksToReadType
  <2> QED
    BY <2>1
<1>3. m_chunks \in Seq(Seq(Unit)) /\ Len(m_chunks) \in Nat
  <2>1. m_chunks \in Seq(Seq(Unit))
    BY Zenon DEF TypeOK
  <2> QED
    BY <2>1
<1>4. k = Len(ChunksRead(n))
  <2> SUFFICES ASSUME k \in 1..(Len(ChunksRead(n)) - 1) PROVE FALSE
    BY <1>1
  <2>1. ChunksToRead[k] = <<>>
    BY <1>1
  <2>2. CASE ChunksToRead = m_chunks
    <3>1. k \in 1..Len(m_chunks) /\ m_chunks[k] = <<>>
      BY <1>1, <2>1, <2>2
    <3> QED
      BY <3>1, Zenon DEF EmptyLast
  <2>3. CASE ChunksToRead = Append(m_chunks, <<>>)
    <3>1. Len(ChunksToRead) = Len(m_chunks) + 1 /\ k \in 1..Len(m_chunks)
      BY <1>1, <1>3, <2>3
    <3>2. m_chunks[k] = <<>>
      BY <1>3, <2>1, <2>3, <3>1
    <3> QED
      BY <3>1, <3>2, Zenon DEF EmptyLast
  <2> QED
    BY <2>2, <2>3 DEF ChunksToRead
<1>5. n = 0
  <2>1. Len(ChunksRead(n)[k]) = 0
    OBVIOUS
  <2> QED
    BY <1>1, <1>2, <1>4, <2>1
<1> QED
  BY <1>4, <1>5

\* Every step keeps FlagInv.
LEMMA FlagStep == TypeOK /\ FlagInv /\ [Next]_vars => FlagInv'
<1> SUFFICES ASSUME TypeOK, FlagInv, [Next]_vars, phase' = "running"
             PROVE  EmptyLast' /\ PlainPart' /\ TurnPart' /\ EndPart'
  BY Zenon DEF FlagInv
<1>0. PlainType /\ CountType /\ DataType
  BY TypeSplit
<1>c. /\ ReadLen \in Nat /\ ReadLen <= Room /\ Room \in 1..ChunkSize
      /\ ChunkSize \in Nat
  BY ReadLenType, ChunksToReadType, ChunkAssumption
<1>z. 0 \in Nat /\ 0 <= Room /\ Room # 0
  BY <1>c
<1> USE DEF sourceVars, flagVars, xVars
<1>k. /\ phase = "running" => EmptyLast /\ PlainPart /\ TurnPart /\ EndPart
  BY Zenon DEF FlagInv
<1>1. CASE ReadEndIncr
  <2>1. /\ phase = "running" /\ notifier = TRUE /\ incr = TRUE
        /\ EmptyLast /\ PlainPart /\ TurnPart /\ EndPart
    BY <1>0, <1>1, <1>k DEF ReadEndIncr, Readable, PlainType
  <2>2. m_propertyIsSet
    BY <2>1 DEF TurnPart
  <2>3. /\ m_chunks' = ChunksRead(0) /\ notifier' = FALSE
        /\ UNCHANGED <<property, m_propertyIsSet, incr, deletions, notified,
                       reqIncr, done>>
        /\ m_flushPropertyOnDelete' = TRUE
    BY <1>1, <2>2 DEF ReadEndIncr
  <2>4. EmptyLast'
    <3> SUFFICES ASSUME NEW k \in 1..Len(ChunksRead(0)), ChunksRead(0)[k] = <<>>
                 PROVE  k = Len(ChunksRead(0))
      BY <2>3 DEF EmptyLast
    <3> QED
      BY <1>z, <2>1, ReadNonEmpty
  <2>5. ~done /\ ~(property.type = "data" /\ property.data = <<>>)
    BY <2>1 DEF EndPart
  <2> QED
    BY <2>1, <2>3, <2>4, <2>5 DEF PlainPart, TurnPart, EndPart
<1>2. CASE ReadEnd
  BY <1>2 DEF ReadEnd
<1>3. CASE ReadPart \/ ReadFull
  <2>1. /\ phase = "running" /\ notifier = TRUE /\ ReadLen # 0
        /\ EmptyLast /\ PlainPart /\ TurnPart /\ EndPart
    <3>1. phase = "running" /\ notifier = TRUE
      BY <1>0, <1>3 DEF ReadPart, ReadFull, Readable, PlainType
    <3>2. ReadLen \in 1..(Room - 1) \/ ReadLen = Room
      BY <1>3, Zenon DEF ReadPart, ReadFull
    <3>3. ReadLen # 0
      BY <1>c, <3>2
    <3> QED
      BY <1>k, <3>1, <3>3
  <2>2. incr => m_propertyIsSet
    BY <2>1 DEF TurnPart
  <2>3. /\ m_chunks' = ChunksRead(ReadLen)
        /\ UNCHANGED <<property, m_propertyIsSet, incr, deletions, notified,
                       notifier, reqIncr, done>>
        /\ m_flushPropertyOnDelete' \in {m_flushPropertyOnDelete, TRUE}
    BY <1>3, <2>2 DEF ReadPart, ReadFull
  <2>4. EmptyLast'
    <3> SUFFICES ASSUME NEW k \in 1..Len(ChunksRead(ReadLen)),
                        ChunksRead(ReadLen)[k] = <<>>
                 PROVE  FALSE
      BY <2>3 DEF EmptyLast
    <3> QED
      BY <1>c, <2>1, ReadNonEmpty
  <2>5. ~done /\ ~(property.type = "data" /\ property.data = <<>>)
    BY <2>1 DEF EndPart
  <2> QED
    BY <2>1, <2>3, <2>4, <2>5 DEF PlainPart, TurnPart, EndPart
<1>4. CASE StartIncr
  <2>1. /\ phase = "running" /\ notifier = TRUE /\ ReadLen # 0
        /\ EmptyLast /\ PlainPart /\ TurnPart /\ EndPart
    BY <1>0, <1>4, <1>c, <1>z, <1>k DEF StartIncr, Readable, PlainType
  <2>2. deletions = 0 /\ ~done
    BY <1>4, <2>1 DEF StartIncr, PlainPart, EndPart
  <2>3. /\ m_chunks' = ChunksRead(ReadLen) /\ property' = Incr
        /\ incr' = TRUE /\ m_propertyIsSet' = TRUE /\ notified' = TRUE
        /\ m_flushPropertyOnDelete' = TRUE
        /\ UNCHANGED <<deletions, notifier, reqIncr, done>>
    BY <1>4 DEF StartIncr
  <2>4. EmptyLast'
    <3> SUFFICES ASSUME NEW k \in 1..Len(ChunksRead(ReadLen)),
                        ChunksRead(ReadLen)[k] = <<>>
                 PROVE  FALSE
      BY <2>3 DEF EmptyLast
    <3> QED
      BY <1>c, <2>1, ReadNonEmpty
  <2>5. Incr # Unset /\ Incr.type # "data"
    BY DEF Incr, Unset
  <2> QED
    BY <2>1, <2>2, <2>3, <2>4, <2>5 DEF PlainPart, TurnPart, EndPart
<1>5. CASE ReadError \/ PropertyDeletedLast
  BY <1>5 DEF ReadError, PropertyDeletedLast
<1>6. CASE PropertyDeletedNext
  <2>1. /\ phase = "running" /\ deletions > 0 /\ deletions' = deletions - 1
        /\ EmptyLast /\ PlainPart /\ TurnPart /\ EndPart
    BY <1>6, <1>k DEF PropertyDeletedNext, Deleted
  <2>2. incr /\ deletions = 1 /\ reqIncr /\ notified /\ m_flushPropertyOnDelete
    BY <1>0, <2>1 DEF PlainPart, TurnPart, CountType
  <2>3. m_chunks # <<>> /\ FlushSourceData(m_chunks, ~notifier)
    BY <1>6 DEF PropertyDeletedNext
  <2>4. ~done
    BY <2>1, <2>3 DEF EndPart
  <2>5. /\ property'.type = "data" /\ property' # Unset /\ m_propertyIsSet'
        /\ property'.data = <<>> => ~notifier /\ m_chunks[1] = <<>>
    BY <1>0, <2>3, FlushType DEF DataType
  <2>6. UNCHANGED <<incr, notifier, notified, reqIncr, done,
                    m_flushPropertyOnDelete>>
    BY <1>6 DEF PropertyDeletedNext
  <2>7. /\ m_chunks' = Tail(m_chunks) /\ Len(m_chunks) \in Nat \ {0}
        /\ Len(m_chunks') = Len(m_chunks) - 1
        /\ \A k \in 1..Len(m_chunks') : m_chunks'[k] = m_chunks[k + 1]
        /\ m_chunks' \in Seq(Seq(Unit))
    BY <1>0, <2>3, TailType DEF DataType, ChunksOK, FlushSourceData
  <2>8. EmptyLast'
    <3> SUFFICES ASSUME NEW k \in 1..Len(m_chunks'), m_chunks'[k] = <<>>
                 PROVE  k = Len(m_chunks') /\ ~notifier
      BY <2>6 DEF EmptyLast
    <3>1. k + 1 \in 1..Len(m_chunks) /\ m_chunks[k + 1] = <<>>
      BY <2>7
    <3>2. PICK j \in 1..Len(m_chunks) : j = k + 1 /\ m_chunks[j] = <<>>
      BY <3>1
    <3>3. j = Len(m_chunks) /\ ~notifier
      BY <2>1, <3>2, Zenon DEF EmptyLast
    <3>4. Len(m_chunks) \in Nat /\ k \in Nat /\ Len(m_chunks') = Len(m_chunks) - 1
      BY <2>7
    <3>5. k = Len(m_chunks')
      BY <3>2, <3>3, <3>4
    <3> QED
      BY <3>3, <3>5
  <2>9. property'.data = <<>> => ~notifier /\ m_chunks' = <<>>
    <3> SUFFICES ASSUME property'.data = <<>> PROVE ~notifier /\ m_chunks' = <<>>
      OBVIOUS
    <3>1. ~notifier /\ m_chunks[1] = <<>> /\ 1 \in 1..Len(m_chunks)
      BY <2>5, <2>7
    <3>2. 1 = Len(m_chunks)
      BY <2>1, <3>1, Zenon DEF EmptyLast
    <3> QED
      BY <2>7, <3>1, <3>2
  <2> QED
    BY <2>1, <2>2, <2>4, <2>5, <2>6, <2>8, <2>9 DEF PlainPart, TurnPart, EndPart
<1>7. CASE Timeout
  <2>1. /\ phase = "running" /\ ~m_timeout
        /\ EmptyLast /\ PlainPart /\ TurnPart /\ EndPart
    BY <1>7, <1>k DEF Timeout
  <2>2. /\ notifier' = notifier
        /\ UNCHANGED <<m_chunks, m_propertyIsSet, incr, property, deletions,
                       notified, reqIncr, done, m_flushPropertyOnDelete>>
    BY <1>0, <1>7, <2>1 DEF Timeout, PlainType
  <2> QED
    BY <2>1, <2>2 DEF EmptyLast, PlainPart, TurnPart, EndPart
<1>8. CASE SourceWrite \/ SourceClose \/ UNCHANGED vars
  <2>1. UNCHANGED <<notifier, m_chunks, m_propertyIsSet, incr, property, phase,
                    deletions, notified, reqIncr, done,
                    m_flushPropertyOnDelete>>
    BY <1>8 DEF SourceWrite, SourceClose, vars
  <2>2. EmptyLast /\ PlainPart /\ TurnPart /\ EndPart
    BY <1>k, <2>1
  <2> QED
    BY <2>1, <2>2 DEF EmptyLast, PlainPart, TurnPart, EndPart
<1>9. CASE Take
  <2>1. /\ phase = "running" /\ property # Unset /\ ~done /\ property' = Unset
        /\ EmptyLast /\ PlainPart /\ TurnPart /\ EndPart
        /\ UNCHANGED <<notifier, m_chunks, m_propertyIsSet, incr, notified,
                       m_flushPropertyOnDelete>>
    BY <1>9, <1>k DEF Take
  <2>2. incr /\ deletions = 0 /\ deletions' = 1
    BY <1>9, <2>1 DEF Take, PlainPart, TurnPart
  <2>4. CASE property = Incr
    <3>1. reqIncr' = TRUE /\ done' = done
      BY <1>9, <2>4 DEF Take
    <3> QED
      BY <2>1, <2>2, <3>1 DEF EmptyLast, PlainPart, TurnPart, EndPart, Unset
  <2>5. CASE property # Incr
    <3>1. property.type = "data" /\ reqIncr
      BY <2>1, <2>2, <2>5 DEF TurnPart
    <3>2. reqIncr' = reqIncr /\ done' = (property.data = <<>>)
      BY <1>0, <1>9, <2>5, <3>1 DEF Take, PlainType
    <3>3. done' => ~notifier /\ m_chunks = <<>>
      BY <2>1, <3>1, <3>2 DEF EndPart
    <3> QED
      BY <2>1, <2>2, <3>1, <3>2, <3>3
         DEF EmptyLast, PlainPart, TurnPart, EndPart, Unset
  <2> QED
    BY <2>4, <2>5
<1> QED
  BY <1>1, <1>2, <1>3, <1>4, <1>5, <1>6, <1>7, <1>8, <1>9
     DEF Next, ReadWlSource, HandlePropertyDelete

\* A transfer starts with an open pipe and nothing on the X side.
LEMMA FlagInit == Init => FlagInv
BY DEF Init, FlagInv, EmptyLast, PlainPart, TurnPart, EndPart, Unset

\* A transfer without a reader and without a deletion on its way has a
\* property the requestor can take.
LEMMA FlagNoStall == TypeOK /\ FlagInv => NoStall
BY DEF TypeOK, FlagInv, PlainPart, TurnPart, EndPart, NoStall

\* NoStall: the hand-over of chunks between readWlSource and
\* handlePropertyDelete never blocks by itself, for every chunk size and every
\* length, and whether the requestor is faster than the source or not.
THEOREM NeverStalls == Spec => []NoStall
<1>1. TypeOK /\ FlagInv /\ [Next]_vars => TypeOK' /\ FlagInv'
  BY TypeStep, FlagStep
<1> QED
  BY <1>1, TypeInit, FlagInit, FlagNoStall, PTL DEF Spec

-----------------------------------------------------------------------------
(* The stream: where the data is on its way.                               *)

\* The units a + 1, ..., b.
Run(a, b) == [i \in 1..(b - a) |-> a + i]

LEMMA RunType ==
  ASSUME NEW a \in Nat, NEW b \in Nat, a <= b
  PROVE  /\ Run(a, b) \in Seq(Nat) /\ Len(Run(a, b)) = b - a
         /\ \A i \in 1..(b - a) : Run(a, b)[i] = a + i
         /\ Run(a, b) = <<>> <=> a = b
BY DEF Run

LEMMA IsRun ==
  ASSUME NEW a \in Nat, NEW b \in Nat, a <= b,
         NEW s \in Seq(Nat), Len(s) = b - a,
         \A i \in 1..(b - a) : s[i] = a + i
  PROVE  s = Run(a, b)
<1> DEFINE t == Run(a, b)
<1>1. t \in Seq(Nat) /\ Len(t) = b - a /\ \A i \in 1..(b - a) : t[i] = a + i
  BY RunType
<1> HIDE DEF t
<1>2. Len(s) = Len(t) /\ \A i \in 1..Len(s) : s[i] = t[i]
  BY <1>1
<1>3. s = t
  BY <1>1, <1>2, SeqEqual
<1> QED BY <1>3 DEF t

LEMMA RunCat ==
  ASSUME NEW a \in Nat, NEW b \in Nat, NEW c \in Nat, a <= b, b <= c
  PROVE  Run(a, b) \o Run(b, c) = Run(a, c)
<1> DEFINE s == Run(a, b)
           t == Run(b, c)
<1>1. /\ s \in Seq(Nat) /\ Len(s) = b - a
      /\ \A i \in 1..(b - a) : s[i] = a + i
  BY RunType
<1>2. /\ t \in Seq(Nat) /\ Len(t) = c - b
      /\ \A i \in 1..(c - b) : t[i] = b + i
  BY RunType
<1> HIDE DEF s, t
<1>3. /\ s \o t \in Seq(Nat) /\ Len(s \o t) = c - a
      /\ \A i \in 1..(c - a) :
           (s \o t)[i] = IF i <= b - a THEN s[i] ELSE t[i - (b - a)]
  <2>1. /\ s \o t \in Seq(Nat) /\ Len(s \o t) = Len(s) + Len(t)
        /\ \A i \in 1..(Len(s) + Len(t)) :
             (s \o t)[i] = IF i <= Len(s) THEN s[i] ELSE t[i - Len(s)]
    BY <1>1, <1>2, ConcatProperties
  <2>2. Len(s) = b - a /\ Len(t) = c - b /\ Len(s) + Len(t) = c - a
    BY <1>1, <1>2
  <2> QED BY <2>1, <2>2
<1>4. \A i \in 1..(c - a) : (s \o t)[i] = a + i
  <2> TAKE i \in 1..(c - a)
  <2>1. CASE i <= b - a
    BY <1>1, <1>3, <2>1
  <2>2. CASE ~(i <= b - a)
    <3>1. i - (b - a) \in 1..(c - b)
      BY <2>2
    <3>2. t[i - (b - a)] = b + (i - (b - a))
      BY <1>2, <3>1
    <3> QED BY <1>3, <2>2, <3>2
  <2> QED BY <2>1, <2>2
<1>5. a <= c
  OBVIOUS
<1>6. s \o t = Run(a, c)
  BY <1>3, <1>4, <1>5, IsRun
<1> QED BY <1>6 DEF s, t


LEMMA RunPrefix ==
  ASSUME NEW b \in Nat, NEW n \in Nat, n <= b
  PROVE  SubSeq(Run(0, b), 1, n) = Run(0, n)
<1> DEFINE s == Run(0, b)
           f == SubSeq(s, 1, n)
<1>1. s \in Seq(Nat) /\ Len(s) = b /\ \A i \in 1..b : s[i] = i
  <2>1. 0 \in Nat /\ 0 <= b /\ b - 0 = b
    OBVIOUS
  <2>2. /\ s \in Seq(Nat) /\ Len(s) = b - 0
        /\ \A i \in 1..(b - 0) : s[i] = 0 + i
    BY <2>1, RunType
  <2> HIDE DEF s
  <2> QED
    BY <2>1, <2>2
<1> HIDE DEF s
<1>2. \A i \in 1..n : s[i] \in Nat
  BY <1>1
<1>3. f \in Seq(Nat) /\ Len(f) = n /\ \A i \in 1..n : f[i] = s[i]
  BY <1>2, SubSeqProperties
<1> HIDE DEF f
<1>4. Len(f) = n - 0 /\ \A i \in 1..(n - 0) : f[i] = 0 + i
  BY <1>1, <1>3
<1>5. f = Run(0, n)
  BY <1>3, <1>4, IsRun
<1> QED
  BY <1>5 DEF f, s

\* The chunks hold the units from + 1, ..., to: the k-th one ends at e[k].
Cuts(chunks, e, from, to) ==
  /\ e \in [0..Len(chunks) -> 0..to]
  /\ e[0] = from /\ e[Len(chunks)] = to
  /\ \A k \in 1..Len(chunks) :
       e[k - 1] <= e[k] /\ chunks[k] = Run(e[k - 1], e[k])

Holds(chunks, from, to) == \E e : Cuts(chunks, e, from, to)

\* A new chunk holds nothing yet.
LEMMA ToReadHolds ==
  ASSUME TypeOK, NEW from \in Nat, Holds(m_chunks, from, read)
  PROVE  Holds(ChunksToRead, from, read)
<1>1. PICK e : Cuts(m_chunks, e, from, read)
  BY DEF Holds
<1>2. m_chunks \in Seq(Seq(Unit)) /\ Len(m_chunks) \in Nat /\ read \in Nat
  <2>1. m_chunks \in Seq(Seq(Unit))
    BY Zenon DEF TypeOK
  <2> QED
    BY <2>1, Counters
<1>3. CASE ChunksToRead = m_chunks
  BY <1>1, <1>3 DEF Holds
<1>4. CASE ChunksToRead = Append(m_chunks, <<>>)
  <2> DEFINE n == Len(m_chunks)
             g == [k \in 0..(n + 1) |-> IF k = n + 1 THEN read ELSE e[k]]
  <2>1. /\ Len(ChunksToRead) = n + 1 /\ ChunksToRead[n + 1] = <<>>
        /\ \A k \in 1..n : ChunksToRead[k] = m_chunks[k]
    BY <1>2, <1>4
  <2>2. /\ e \in [0..n -> 0..read] /\ e[0] = from /\ e[n] = read
        /\ \A k \in 1..n : e[k - 1] <= e[k] /\ m_chunks[k] = Run(e[k - 1], e[k])
    BY <1>1 DEF Cuts
  <2>3. Run(read, read) = <<>>
    BY <1>2, RunType
  <2>4. g \in [0..(n + 1) -> 0..read]
    BY <1>2, <2>2
  <2>5. g[0] = from /\ g[n + 1] = read /\ g[n] = read
    BY <1>2, <2>2
  <2>6. ASSUME NEW k \in 1..(n + 1)
        PROVE  g[k - 1] <= g[k] /\ ChunksToRead[k] = Run(g[k - 1], g[k])
    <3>1. CASE k = n + 1
      <4>1. g[k - 1] = read /\ g[k] = read
        BY <1>2, <2>5, <3>1
      <4> HIDE DEF g
      <4> QED
        BY <1>2, <2>1, <2>3, <3>1, <4>1
    <3>2. CASE k # n + 1
      <4>1. k \in 1..n /\ g[k - 1] = e[k - 1] /\ g[k] = e[k]
        BY <1>2, <3>2
      <4> HIDE DEF g
      <4> QED
        BY <2>1, <2>2, <4>1
    <3> QED
      BY <3>1, <3>2
  <2> HIDE DEF g
  <2>7. Cuts(ChunksToRead, g, from, read)
    BY <2>1, <2>4, <2>5, <2>6 DEF Cuts
  <2> QED
    BY <2>7 DEF Holds
<1> QED
  BY <1>3, <1>4 DEF ChunksToRead

\* What is read continues what the chunks hold.
LEMMA ReadHolds ==
  ASSUME TypeOK, NEW from \in Nat, Holds(m_chunks, from, read),
         NEW n \in Nat, n <= Room
  PROVE  Holds(ChunksRead(n), from, read + n)
<1> DEFINE C == ChunksToRead
           D == ChunksRead(n)
           z == Len(C)
<1>1. PICK e : Cuts(C, e, from, read)
  BY ToReadHolds DEF Holds
<1>2. C \in Seq(Seq(Unit)) /\ z \in Nat \ {0} /\ read \in Nat
  BY ChunksToReadType, Counters
<1>3. /\ e \in [0..z -> 0..read] /\ e[0] = from /\ e[z] = read
      /\ \A k \in 1..z : e[k - 1] <= e[k] /\ C[k] = Run(e[k - 1], e[k])
  BY <1>1 DEF Cuts
<1>4. Len(D) = z /\ \A k \in 1..(z - 1) : D[k] = C[k]
  BY ChunksReadType
<1>5. D[z] = C[z] \o Run(read, read + n)
  <2>1. Run(read, read + n) = [i \in 1..n |-> read + i]
    <3>1. (read + n) - read = n
      BY <1>2
    <3> QED
      BY <3>1 DEF Run
  <2>2. D = [C EXCEPT ![z] = C[z] \o [i \in 1..n |-> read + i]]
    BY DEF ChunksRead
  <2> HIDE DEF C, D
  <2>3. z \in DOMAIN C
    BY <1>2
  <2> QED
    BY <2>1, <2>2, <2>3
<1> HIDE DEF C, D, z
<1>6. z - 1 \in 0..z /\ z \in 0..z /\ z \in 1..z /\ 0 \in 0..z
  BY <1>2
<1>7. e[z - 1] \in Nat /\ e[z - 1] <= read
  BY <1>2, <1>3, <1>6
<1>8. D[z] = Run(e[z - 1], read + n)
  <2>1. C[z] = Run(e[z - 1], read)
    BY <1>3, <1>6
  <2>2. Run(e[z - 1], read) \o Run(read, read + n) = Run(e[z - 1], read + n)
    <3>1. read + n \in Nat /\ read <= read + n
      BY <1>2
    <3> QED
      BY <1>2, <1>7, <3>1, RunCat
  <2> QED
    BY <1>5, <2>1, <2>2
<1> DEFINE g == [k \in 0..z |-> IF k = z THEN read + n ELSE e[k]]
<1>9. g \in [0..z -> 0..(read + n)] /\ g[0] = from /\ g[z] = read + n
  BY <1>2, <1>3, <1>6
<1>10. ASSUME NEW k \in 1..z
       PROVE  g[k - 1] <= g[k] /\ D[k] = Run(g[k - 1], g[k])
  <2>1. k \in Nat /\ k - 1 \in 0..z /\ k - 1 # z /\ g[k - 1] = e[k - 1]
    BY <1>2
  <2>2. CASE k = z
    <3>1. g[k] = read + n
      BY <1>9, <2>2
    <3> HIDE DEF g
    <3>2. g[k - 1] <= g[k]
      BY <1>2, <1>7, <2>1, <2>2, <3>1
    <3> QED
      BY <1>8, <2>1, <2>2, <3>1, <3>2
  <2>3. CASE k # z
    <3>1. k \in 1..(z - 1) /\ g[k] = e[k]
      BY <1>2, <2>3
    <3> HIDE DEF g
    <3> QED
      BY <1>3, <1>4, <2>1, <3>1
  <2> QED
    BY <2>2, <2>3
<1> HIDE DEF g
<1>11. Cuts(D, g, from, read + n)
  BY <1>4, <1>9, <1>10 DEF Cuts
<1> QED
  BY <1>11 DEF Holds, D

\* The first chunk is what comes next, and the others continue it.
LEMMA FirstHolds ==
  ASSUME NEW chunks \in Seq(Seq(Unit)), chunks # <<>>, NEW from \in Nat,
         NEW to \in Nat, Holds(chunks, from, to)
  PROVE  \E m \in Nat :
           /\ from <= m /\ m <= to /\ chunks[1] = Run(from, m)
           /\ Len(chunks) = 1 => m = to
           /\ Holds(Tail(chunks), m, to)
<1>1. PICK e : Cuts(chunks, e, from, to)
  BY DEF Holds
<1> DEFINE z == Len(chunks)
           T == Tail(chunks)
<1>2. z \in Nat \ {0} /\ Len(T) = z - 1 /\ \A k \in 1..(z - 1) : T[k] = chunks[k + 1]
  OBVIOUS
<1>3. /\ e \in [0..z -> 0..to] /\ e[0] = from /\ e[z] = to
      /\ \A k \in 1..z : e[k - 1] <= e[k] /\ chunks[k] = Run(e[k - 1], e[k])
  BY <1>1 DEF Cuts
<1> HIDE DEF z, T
<1>4. 1 \in 1..z /\ 1 \in 0..z /\ 1 - 1 = 0
  BY <1>2
<1>5. /\ e[1] \in 0..to /\ from <= e[1] /\ chunks[1] = Run(from, e[1])
      /\ z = 1 => e[1] = to
  BY <1>3, <1>4
<1> DEFINE g == [k \in 0..(z - 1) |-> e[k + 1]]
<1>6. g \in [0..(z - 1) -> 0..to] /\ g[0] = e[1] /\ g[z - 1] = to
  BY <1>2, <1>3
<1>7. ASSUME NEW k \in 1..(z - 1)
      PROVE  g[k - 1] <= g[k] /\ T[k] = Run(g[k - 1], g[k])
  <2>1. /\ k + 1 \in 1..z /\ (k + 1) - 1 = k
        /\ g[k - 1] = e[k] /\ g[k] = e[k + 1]
    BY <1>2
  <2> HIDE DEF g
  <2>2. /\ e[(k + 1) - 1] <= e[k + 1]
        /\ chunks[k + 1] = Run(e[(k + 1) - 1], e[k + 1])
    BY <1>3, <2>1
  <2> QED
    BY <1>2, <2>1, <2>2
<1> HIDE DEF g
<1>8. Cuts(T, g, e[1], to)
  BY <1>2, <1>6, <1>7 DEF Cuts
<1>9. Holds(T, e[1], to)
  BY <1>8 DEF Holds
<1>10. e[1] \in Nat /\ e[1] <= to
  BY <1>5
<1> QED
  BY <1>5, <1>9, <1>10 DEF z, T

-----------------------------------------------------------------------------
(* The invariant of the stream.                                            *)

\* How much was put into the property, and taken from it or not.
Sent == Len(received) + Len(property.data)

SentPart ==
  /\ closed => written = length
  /\ Sent <= length
  /\ received = Run(0, Len(received)) /\ property.data = Run(Len(received), Sent)
  /\ property.type # "data" => property.data = <<>>

\* A requestor that takes the last property has everything.
LastPart ==
  /\ property.type = "data" /\ (property.data = <<>> \/ ~reqIncr) => Sent = length
  /\ done => Len(received) = length

\* The chunks continue what was sent, up to what was read.
ChunkPart ==
  /\ ~notifier => read = length
  /\ ~incr => \/ Len(m_chunks) = 0
              \/ Len(m_chunks) = 1 /\ Len(m_chunks[1]) < ChunkSize
  /\ Holds(m_chunks, Sent, read)

DataInv == SentPart /\ LastPart /\ (phase = "running" => ChunkPart)

LEMMA SentTyped ==
  ASSUME TypeOK
  PROVE  /\ received \in Seq(Nat) /\ property.data \in Seq(Nat)
         /\ Len(received) \in Nat /\ Len(property.data) \in Nat /\ Sent \in Nat
<1>1. received \in Seq(Nat) /\ property.data \in Seq(Nat)
  BY TypeSplit DEF DataType, PropertyType, Unit
<1> QED
  BY <1>1 DEF Sent

LEMMA ChunksTyped ==
  ASSUME TypeOK
  PROVE  m_chunks \in Seq(Seq(Unit)) /\ Len(m_chunks) \in Nat
<1>1. m_chunks \in Seq(Seq(Unit))
  BY Zenon DEF TypeOK
<1> QED
  BY <1>1

\* Data that goes into an empty property continues what was sent.
LEMMA PropertySet ==
  ASSUME TypeOK, SentPart, property.data = <<>>, NEW m \in Nat, Sent <= m,
         m <= length, received' = received, property' = Data(Run(Sent, m)),
         length' = length, closed' = closed, written' = written
  PROVE  SentPart' /\ Sent' = m /\ property'.type = "data"
<1>1. /\ Len(received) \in Nat /\ Sent \in Nat
      /\ Sent = Len(received)
  <2>1. Len(property.data) = 0
    OBVIOUS
  <2> QED
    BY <2>1, SentTyped DEF Sent
<1>2. property'.type = "data" /\ property'.data = Run(Sent, m)
  BY DEF Data
<1>3. Len(Run(Sent, m)) = m - Sent
  BY <1>1, RunType
<1>4. Sent' = m
  <2>1. Sent' = Len(received) + Len(property'.data)
    BY DEF Sent
  <2> QED
    BY <1>1, <1>2, <1>3, <2>1
<1>5. property'.data = Run(Len(received)', Sent')
  BY <1>1, <1>2, <1>4
<1> QED
  BY <1>2, <1>4, <1>5 DEF SentPart

LEMMA SentKept ==
  ASSUME SentPart, received' = received, property'.data = property.data,
         property'.type = property.type \/ property.data = <<>>,
         length' = length, closed' => written' = length
  PROVE  SentPart' /\ Sent' = Sent
<1>1. Sent' = Sent
  BY DEF Sent
<1> QED
  BY <1>1 DEF SentPart

\* Only at the end of the file nothing can be read.
LEMMA AtEnd ==
  ASSUME TypeOK, SentPart, Readable, ReadLen = 0
  PROVE  read = length
BY ReadLenType, Counters DEF Readable, SentPart

\* A transfer that is not incremental has one chunk.
LEMMA PlainChunks ==
  ASSUME TypeOK, \/ Len(m_chunks) = 0
                 \/ Len(m_chunks) = 1 /\ Len(m_chunks[1]) < ChunkSize
  PROVE  Len(ChunksToRead) = 1
<1>1. CASE Len(m_chunks) = 0
  <2>1. m_chunks = <<>>
    BY <1>1, ChunksTyped
  <2> QED
    BY <2>1 DEF ChunksToRead
<1>2. CASE Len(m_chunks) = 1 /\ Len(m_chunks[1]) < ChunkSize
  <2>1. 1 \in 1..Len(m_chunks) /\ m_chunks \in Seq(Seq(Unit))
    BY <1>2, ChunksTyped
  <2>2. m_chunks[1] \in Seq(Unit)
    BY <2>1, ElementOfSeq, Zenon
  <2>3. Len(m_chunks[1]) \in Nat
    BY <2>2
  <2>4. Len(Last(m_chunks)) # ChunkSize
    BY <1>2, <2>3, ChunkAssumption DEF Last
  <2>5. m_chunks # <<>>
    BY <1>2
  <2> QED
    BY <1>2, <2>4, <2>5 DEF ChunksToRead
<1> QED
  BY <1>1, <1>2

\* Steps of readWlSource that only fill the chunks.
LEMMA FillStep ==
  ASSUME TypeOK, DataInv, phase = "running", NEW n \in Nat, n <= Room,
         m_chunks' = ChunksRead(n), read' = read + n, length' = length,
         closed' = closed, written' = written, received' = received,
         property'.data = property.data,
         property'.type = property.type \/ (property.data = <<>> /\ property'.type # "data"),
         reqIncr' = reqIncr, done' = done,
         ~notifier' => read' = length,
         ~incr' => ~incr /\ n < Room
  PROVE  DataInv'
<1>1. SentPart' /\ Sent' = Sent
  BY SentKept DEF DataInv, SentPart
<1>2. LastPart'
  BY <1>1 DEF DataInv, LastPart
<1>3. ChunkPart'
  <2>1. Holds(m_chunks', Sent, read')
    BY SentTyped, ReadHolds DEF DataInv, ChunkPart
  <2>2. ASSUME ~incr'
        PROVE  Len(m_chunks') = 1 /\ Len(m_chunks'[1]) < ChunkSize
    <3>1. \/ Len(m_chunks) = 0
          \/ Len(m_chunks) = 1 /\ Len(m_chunks[1]) < ChunkSize
      BY <2>2 DEF DataInv, ChunkPart
    <3>2. Len(ChunksToRead) = 1
      BY <3>1, PlainChunks
    <3>3. /\ Len(ChunksRead(n)) = 1
          /\ Len(ChunksRead(n)[1]) = Len(Last(ChunksToRead)) + n
      BY <3>2, ChunksReadType
    <3>4. Len(Last(ChunksToRead)) \in Nat
      <4>1. Last(ChunksToRead) \in Seq(Unit)
        BY ChunksToReadType
      <4> QED
        BY <4>1
    <3> QED
      BY <2>2, <3>3, <3>4, ChunkAssumption DEF Room
  <2> QED
    BY <1>1, <2>1, <2>2 DEF ChunkPart
<1> QED
  BY <1>1, <1>2, <1>3 DEF DataInv

\* handlePropertyDelete sends the next chunk, which is full or the last one.
LEMMA NextChunkStep ==
  ASSUME SourceAhead = TRUE, TypeOK, FlagInv, DataInv, PropertyDeletedNext
  PROVE  DataInv'
<1>1. /\ phase = "running" /\ deletions > 0 /\ incr /\ ChunkReady
      /\ UNCHANGED <<length, closed, written, read, received, reqIncr, done,
                     notifier, incr>>
  BY DEF PropertyDeletedNext, Deleted, sourceVars, xVars
<1>2. SentPart /\ LastPart /\ ChunkPart /\ EmptyLast /\ TurnPart /\ EndPart
  BY <1>1 DEF DataInv, FlagInv
<1>3. Sent \in Nat /\ length \in Nat /\ read \in Nat /\ read <= length
  BY SentTyped, Counters
<1>4. CASE m_chunks = <<>>
  <2>1. phase' = "crashed" /\ property' = property
    BY <1>4 DEF PropertyDeletedNext
  <2>2. closed' => written' = length
    BY <1>1, <1>2 DEF SentPart
  <2>3. SentPart' /\ Sent' = Sent
    BY <1>1, <1>2, <2>1, <2>2, SentKept
  <2>4. LastPart'
    BY <1>1, <1>2, <2>1, <2>3 DEF LastPart
  <2> QED
    BY <2>1, <2>3, <2>4 DEF DataInv
<1>5. CASE m_chunks # <<>>
  <2>1. /\ property' = Flushed(m_chunks[1], ~notifier) /\ m_chunks' = Tail(m_chunks)
        /\ phase' = phase
    BY <1>5 DEF PropertyDeletedNext, FlushSourceData
  <2>2. property = Unset /\ property.data = <<>> /\ reqIncr /\ ~done
    <3>1. property = Unset /\ reqIncr
      BY <1>1, <1>2 DEF TurnPart
    <3> QED
      BY <1>2, <1>5, <3>1 DEF EndPart, Unset
  <2>3. m_chunks \in Seq(Seq(Unit)) /\ Len(m_chunks) \in Nat \ {0}
    BY <1>5, ChunksTyped
  <2>4. PICK m \in Nat :
          /\ Sent <= m /\ m <= read /\ m_chunks[1] = Run(Sent, m)
          /\ Len(m_chunks) = 1 => m = read
          /\ Holds(m_chunks', m, read)
    BY <1>2, <1>3, <1>5, <2>1, <2>3, FirstHolds DEF ChunkPart
  <2>5. property' = Data(m_chunks[1])
    <3>1. CASE ~notifier
      BY <2>1, <3>1 DEF Flushed
    <3>2. CASE notifier
      <4>1. Len(m_chunks[1]) = ChunkSize
        BY <1>1, <3>2 DEF ChunkReady
      <4>2. Padding(m_chunks[1]) = <<>>
        BY <4>1, ChunkAssumption DEF Padding
      <4>3. m_chunks[1] \in Seq(Unit)
        BY <1>3, <2>4, RunType DEF Unit
      <4>4. m_chunks[1] \o <<>> = m_chunks[1]
        BY <4>3
      <4> QED
        BY <2>1, <3>2, <4>2, <4>4 DEF Flushed
    <3> QED
      BY <3>1, <3>2
  <2>6. SentPart' /\ Sent' = m
    BY <1>1, <1>2, <1>3, <2>2, <2>4, <2>5, PropertySet
  <2>7. property'.data = <<>> => m = length
    <3> SUFFICES ASSUME property'.data = <<>> PROVE m = length
      OBVIOUS
    <3>1. m_chunks[1] = <<>> /\ 1 \in 1..Len(m_chunks)
      BY <2>3, <2>5 DEF Data
    <3>2. 1 = Len(m_chunks) /\ ~notifier
      BY <1>2, <3>1, Zenon DEF EmptyLast
    <3> QED
      BY <1>2, <2>4, <3>2 DEF ChunkPart
  <2>8. LastPart'
    BY <1>1, <2>2, <2>6, <2>7 DEF LastPart
  <2>9. ChunkPart'
    BY <1>1, <1>2, <2>4, <2>6 DEF ChunkPart
  <2> QED
    BY <2>6, <2>8, <2>9 DEF DataInv
<1> QED
  BY <1>4, <1>5

\* What the requestor takes continues what it has.
LEMMA TakeStep ==
  ASSUME TypeOK, FlagInv, DataInv, Take
  PROVE  DataInv'
<1>1. /\ property # Unset /\ property' = Unset /\ ~done
      /\ UNCHANGED <<length, closed, written, read, m_chunks, notifier, incr, phase>>
  BY DEF Take, sourceVars, flagVars
<1>2. SentPart /\ LastPart /\ (phase = "running" => ChunkPart)
  BY DEF DataInv
<1>3. /\ Sent \in Nat /\ Len(received) \in Nat /\ Len(property.data) \in Nat
      /\ Len(received) <= Sent
  BY SentTyped DEF Sent
<1>4. /\ Unset.data = <<>> /\ Unset.type # "data" /\ Len(Unset.data) = 0
      /\ Incr.data = <<>> /\ Incr.type # "data"
  BY DEF Unset, Incr
<1>5. received' = Run(0, Sent)
  <2>1. CASE property = Incr
    <3>1. received' = received /\ Len(property.data) = 0
      BY <1>4, <2>1 DEF Take
    <3>2. Sent = Len(received)
      BY <1>3, <3>1 DEF Sent
    <3> QED
      BY <1>2, <3>1, <3>2 DEF SentPart
  <2>2. CASE property # Incr
    <3>1. received' = received \o property.data
      BY <2>2 DEF Take
    <3>2. Run(0, Len(received)) \o Run(Len(received), Sent) = Run(0, Sent)
      <4>1. 0 \in Nat /\ 0 <= Len(received)
        BY <1>3
      <4> QED
        BY <1>3, <4>1, RunCat
    <3> QED
      BY <1>2, <3>1, <3>2 DEF SentPart
  <2> QED
    BY <2>1, <2>2
<1>6. Len(received') = Sent /\ Sent' = Sent
  <2>1. Len(Run(0, Sent)) = Sent - 0
    BY <1>3, RunType
  <2>2. Sent' = Len(received') + Len(property'.data)
    BY DEF Sent
  <2> QED
    BY <1>1, <1>3, <1>4, <1>5, <2>1, <2>2
<1>7. Run(Sent, Sent) = <<>>
  BY <1>3, RunType
<1>8. SentPart'
  BY <1>1, <1>2, <1>4, <1>5, <1>6, <1>7 DEF SentPart
<1>9. done' => Sent = length
  <2> SUFFICES ASSUME done' PROVE Sent = length
    OBVIOUS
  <2>1. property # Incr
    BY <1>1 DEF Take
  <2>2. done' = (~reqIncr \/ property.data = <<>>)
    BY <2>1 DEF Take
  <2>3. property.type = "data"
    <3>1. property \in PropertyType
      BY TypeSplit DEF DataType
    <3>2. CASE property.type = "none"
      <4>1. property.data = <<>>
        BY <1>2, <3>2 DEF SentPart
      <4> QED
        BY <1>1, <3>1, <3>2, <4>1 DEF PropertyType, Unset
    <3>3. CASE property.type = "incr"
      <4>1. property.data = <<>>
        BY <1>2, <3>3 DEF SentPart
      <4> QED
        BY <2>1, <3>1, <3>3, <4>1 DEF PropertyType, Incr
    <3> QED
      BY <3>1, <3>2, <3>3 DEF PropertyType
  <2> QED
    BY <1>2, <2>2, <2>3 DEF LastPart
<1>10. LastPart'
  BY <1>1, <1>4, <1>6, <1>9 DEF LastPart
<1>11. phase' = "running" => ChunkPart'
  BY <1>1, <1>2, <1>6 DEF ChunkPart
<1> QED
  BY <1>8, <1>10, <1>11 DEF DataInv

\* Every step keeps what is on its way in order, when the source is ahead.
LEMMA DataStep ==
  ASSUME SourceAhead = TRUE, TypeOK, FlagInv, DataInv, [Next]_vars
  PROVE  DataInv'
<1>0. SentPart /\ LastPart /\ (phase = "running" => ChunkPart)
  BY DEF DataInv
<1>c. /\ ReadLen \in Nat /\ ReadLen <= Room /\ Room \in 1..ChunkSize
      /\ ChunkSize \in Nat /\ 0 \in Nat /\ 0 <= Room /\ 0 < Room
      /\ read \in Nat /\ read + 0 = read /\ length \in Nat
  BY ReadLenType, ChunksToReadType, ChunkAssumption, Counters
<1>f. phase = "running" => EmptyLast /\ PlainPart /\ TurnPart /\ EndPart
  BY Zenon DEF FlagInv
<1>s. /\ Sent \in Nat /\ Len(received) \in Nat /\ Len(property.data) \in Nat
      /\ received \in Seq(Nat) /\ property.data \in Seq(Nat)
  BY SentTyped
<1>u. Unset.data = <<>> /\ Unset.type # "data" /\ Incr.data = <<>> /\ Incr.type # "data"
  BY DEF Unset, Incr
<1> USE DEF sourceVars, flagVars, xVars
<1>1. CASE ReadEndIncr
  <2>1. phase = "running" /\ incr /\ Readable /\ ReadLen = 0
    BY <1>1 DEF ReadEndIncr, Readable
  <2>2. m_propertyIsSet
    BY <1>f, <2>1 DEF TurnPart
  <2>3. /\ m_chunks' = ChunksRead(0) /\ read' = read + 0 /\ incr' = incr
        /\ UNCHANGED <<length, closed, written, received, property, reqIncr, done>>
    BY <1>1, <1>c, <2>2 DEF ReadEndIncr
  <2>4. read = length
    BY <1>0, <2>1, AtEnd
  <2> QED
    BY <1>c, <2>1, <2>3, <2>4, FillStep
<1>2. CASE ReadEnd
  <2>1. /\ phase = "running" /\ ~incr /\ Readable /\ ReadLen = 0
        /\ FlushSourceData(ChunksRead(0), TRUE) /\ phase' = "completed"
        /\ UNCHANGED <<length, closed, written, received, reqIncr, done>>
    BY <1>2 DEF ReadEnd, Readable
  <2>2. read = length
    BY <1>0, <2>1, AtEnd
  <2>3. property = Unset /\ property.data = <<>> /\ ~done
    BY <1>f, <1>u, <2>1 DEF PlainPart, EndPart, Readable
  <2>4. Holds(ChunksRead(0), Sent, length)
    BY <1>0, <1>c, <1>s, <2>1, <2>2, ReadHolds DEF ChunkPart
  <2>5. /\ ChunksRead(0) \in Seq(Seq(Unit)) /\ ChunksRead(0) # <<>>
        /\ Len(ChunksRead(0)) = 1
    <3>1. /\ ChunksRead(0) \in Seq(Seq(Unit)) /\ ChunksRead(0) # <<>>
          /\ Len(ChunksRead(0)) = Len(ChunksToRead)
      BY <1>c, ReadChunksOK, ChunksReadType DEF ChunksOK
    <3>2. Len(ChunksToRead) = 1
      BY <1>0, <2>1, PlainChunks DEF ChunkPart
    <3> QED
      BY <3>1, <3>2
  <2>6. Sent <= length /\ ChunksRead(0)[1] = Run(Sent, length)
    BY <1>c, <1>s, <2>4, <2>5, FirstHolds
  <2>7. property' = Data(Run(Sent, length))
    BY <2>1, <2>6 DEF FlushSourceData, Flushed
  <2>8. SentPart' /\ Sent' = length
    BY <1>0, <1>c, <2>1, <2>3, <2>6, <2>7, PropertySet
  <2>9. LastPart'
    BY <2>1, <2>3, <2>8 DEF LastPart
  <2> QED
    BY <2>1, <2>8, <2>9 DEF DataInv
<1>3. CASE ReadPart
  <2>1. phase = "running" /\ ReadLen < Room
    BY <1>3, <1>c DEF ReadPart, Readable
  <2>2. /\ m_chunks' = ChunksRead(ReadLen) /\ read' = read + ReadLen
        /\ UNCHANGED <<length, closed, written, received, property, reqIncr, done,
                       notifier, incr>>
    BY <1>3 DEF ReadPart
  <2>3. ~notifier' => read' = length
    BY <1>3, <2>2 DEF ReadPart, Readable
  <2> QED
    BY <1>c, <2>1, <2>2, <2>3, FillStep
<1>4. CASE ReadFull
  <2>1. phase = "running" /\ incr /\ notifier
    BY <1>4 DEF ReadFull, Readable
  <2>2. m_propertyIsSet
    BY <1>f, <2>1 DEF TurnPart
  <2>3. /\ m_chunks' = ChunksRead(ReadLen) /\ read' = read + ReadLen
        /\ UNCHANGED <<length, closed, written, received, property, reqIncr, done,
                       notifier, incr>>
    BY <1>4, <2>2 DEF ReadFull
  <2> QED
    BY <1>c, <2>1, <2>3, FillStep
<1>5. CASE StartIncr
  <2>1. phase = "running" /\ ~incr /\ notifier
    BY <1>5 DEF StartIncr, Readable
  <2>2. property = Unset
    BY <1>f, <2>1 DEF PlainPart
  <2>3. /\ m_chunks' = ChunksRead(ReadLen) /\ read' = read + ReadLen
        /\ property' = Incr /\ incr'
        /\ UNCHANGED <<length, closed, written, received, reqIncr, done, notifier>>
    BY <1>5 DEF StartIncr
  <2> QED
    BY <1>c, <1>u, <2>1, <2>2, <2>3, FillStep
<1>6. CASE PropertyDeletedLast
  <2>1. /\ phase = "running" /\ deletions > 0 /\ incr /\ ~notifier /\ m_chunks = <<>>
        /\ property' = Data(<<>>) /\ phase' = "completed"
        /\ UNCHANGED <<length, closed, written, received, reqIncr, done>>
    BY <1>6 DEF PropertyDeletedLast, Deleted
  <2>2. property = Unset /\ property.data = <<>>
    BY <1>f, <1>u, <2>1 DEF TurnPart
  <2>3. Sent = length
    <3>1. PICK e : Cuts(m_chunks, e, Sent, read)
      BY <1>0, <2>1 DEF ChunkPart, Holds
    <3>2. Len(m_chunks) = 0
      BY <2>1
    <3> QED
      BY <1>0, <2>1, <3>1, <3>2 DEF Cuts, ChunkPart
  <2>4. Run(Sent, length) = <<>>
    BY <1>c, <2>3, RunType
  <2>5. SentPart' /\ Sent' = length
    BY <1>0, <1>c, <2>1, <2>2, <2>3, <2>4, PropertySet
  <2>6. LastPart'
    BY <1>0, <2>1, <2>5 DEF LastPart
  <2> QED
    BY <2>1, <2>5, <2>6 DEF DataInv
<1>7. CASE PropertyDeletedNext
  BY <1>7, NextChunkStep
<1>8. CASE ReadError \/ Timeout \/ SourceWrite \/ SourceClose \/ UNCHANGED vars
  <2>1. UNCHANGED <<length, read, m_chunks, received, property, reqIncr, done, incr>>
    BY <1>8 DEF ReadError, Timeout, SourceWrite, SourceClose, vars
  <2>2. closed' => written' = length
    BY <1>0, <1>8 DEF ReadError, Timeout, SourceWrite, SourceClose, vars, SentPart
  <2>3. SentPart' /\ Sent' = Sent
    BY <1>0, <2>1, <2>2, SentKept
  <2>4. LastPart'
    BY <1>0, <2>1, <2>3 DEF LastPart
  <2>5. phase' = "running" => phase = "running" /\ notifier' = notifier
    <3>1. notifier \in BOOLEAN
      BY TypeSplit DEF PlainType
    <3> QED
      BY <1>8, <3>1 DEF ReadError, Timeout, SourceWrite, SourceClose, vars
  <2>6. phase' = "running" => ChunkPart'
    BY <1>0, <2>1, <2>3, <2>5 DEF ChunkPart
  <2> QED
    BY <2>3, <2>4, <2>6 DEF DataInv
<1>9. CASE Take
  BY <1>9, TakeStep
<1> QED
  BY <1>1, <1>2, <1>3, <1>4, <1>5, <1>6, <1>7, <1>8, <1>9
     DEF Next, ReadWlSource, HandlePropertyDelete

LEMMA DataInit == Init => DataInv
<1> SUFFICES ASSUME Init PROVE DataInv
  OBVIOUS
<1>1. /\ length \in Nat /\ received = <<>> /\ property = Unset /\ m_chunks = <<>>
      /\ read = 0 /\ closed = FALSE /\ done = FALSE /\ notifier = TRUE
  BY BoundAssumption DEF Init
<1>2. Unset.data = <<>> /\ Unset.type # "data"
  BY DEF Unset
<1>3. Len(received) = 0 /\ Len(property.data) = 0 /\ Len(m_chunks) = 0
  BY <1>1, <1>2
<1>4. Sent = 0 /\ Run(0, 0) = <<>>
  BY <1>3, RunType DEF Sent
<1>5. SentPart /\ LastPart
  BY <1>1, <1>2, <1>3, <1>4 DEF SentPart, LastPart
<1>6. Holds(m_chunks, Sent, read)
  <2> DEFINE e == [k \in 0..0 |-> 0]
  <2>1. Cuts(m_chunks, e, 0, 0)
    BY <1>3 DEF Cuts
  <2> HIDE DEF e
  <2> QED
    BY <1>1, <1>4, <2>1 DEF Holds
<1>7. ChunkPart
  BY <1>1, <1>3, <1>6 DEF ChunkPart
<1> QED
  BY <1>5, <1>7 DEF DataInv

-----------------------------------------------------------------------------
(* The refinement.                                                         *)

Input == [i \in 1..length |-> i]

\* What was taken is a prefix of the data, and all of it at the end.
OutputInv ==
  /\ Len(received) \in 0..length /\ Len(Input) = length
  /\ received = SubSeq(Input, 1, Len(received))
  /\ done => received = Input
  /\ done \in BOOLEAN

LEMMA OutputPrefix == TypeOK /\ DataInv => OutputInv
<1> SUFFICES ASSUME TypeOK, DataInv PROVE OutputInv
  OBVIOUS
<1>1. /\ Len(received) \in Nat /\ Sent \in Nat /\ length \in Nat
      /\ Len(received) <= length /\ received = Run(0, Len(received))
      /\ done => Len(received) = length
  <2>1. Len(received) <= Sent /\ Sent <= length
    BY SentTyped DEF DataInv, SentPart, Sent
  <2> QED
    BY <2>1, SentTyped, Counters DEF DataInv, SentPart, LastPart
<1>2. Input = Run(0, length)
  <2>1. length - 0 = length /\ \A i \in 1..length : 0 + i = i
    BY <1>1
  <2> QED
    BY <2>1 DEF Input, Run
<1>3. Len(Input) = length
  BY <1>1 DEF Input
<1>4. received = SubSeq(Input, 1, Len(received))
  BY <1>1, <1>2, RunPrefix
<1>5. done \in BOOLEAN
  BY TypeSplit DEF PlainType
<1>6. done => received = Input
  BY <1>1, <1>2
<1>7. Len(received) \in 0..length
  BY <1>1
<1> QED
  BY <1>3, <1>4, <1>5, <1>6, <1>7 DEF OutputInv

\* Only Take is seen by the requestor.
LEMMA StreamStep ==
  OutputInv /\ OutputInv' /\ TypeOK /\ [Next]_vars
    => [Stream!Deliver]_Stream!vars
<1> SUFFICES ASSUME OutputInv, OutputInv', TypeOK, [Next]_vars
             PROVE  [Stream!Deliver]_Stream!vars
  OBVIOUS
<1>1. /\ length' = length
      /\ (received' = received /\ done' = done) \/ (Take /\ ~done)
  BY DEF Next, ReadWlSource, ReadEndIncr, ReadEnd, ReadPart, ReadFull, StartIncr,
         ReadError, HandlePropertyDelete, PropertyDeletedLast, PropertyDeletedNext,
         Timeout, SourceWrite, SourceClose, Take, sourceVars, xVars, vars
<1>2. Input' = Input
  BY <1>1 DEF Input
<1>3. CASE received' = received /\ done' = done
  BY <1>2, <1>3 DEF Stream!vars, Input
<1>4. CASE Take /\ ~done
  <2>1. Len(received) <= Len(received')
    <3>1. received \in Seq(Nat) /\ property.data \in Seq(Nat)
      BY SentTyped
    <3>2. received' = received \/ received' = received \o property.data
      BY <1>4 DEF Take
    <3>3. Len(received \o property.data) = Len(received) + Len(property.data)
      BY <3>1
    <3> QED
      BY <3>1, <3>2, <3>3, SentTyped
  <2>2. /\ Len(received) \in Nat /\ Len(received') \in 0..length
        /\ length \in Nat /\ Len(Input) = length
        /\ received' = SubSeq(Input, 1, Len(received'))
        /\ done' => received' = Input
        /\ done' \in BOOLEAN
    BY <1>1, <1>2, SentTyped, Counters DEF OutputInv
  <2>3. Len(received') \in Len(received)..Len(Input)
    BY <2>1, <2>2
  <2>4. \E n \in Len(received)..Len(Input) : received' = SubSeq(Input, 1, n)
    BY <2>2, <2>3
  <2> QED
    BY <1>2, <1>4, <2>2, <2>4 DEF Stream!Deliver, Input
<1> QED
  BY <1>1, <1>3, <1>4

\* A transfer to an X window is a byte stream: the requestor gets the data of
\* the source in order, without gaps and without what resize left in a chunk,
\* and believes in the end only when it has all of them, for every chunk size
\* and length.  SourceAhead is needed: flushSourceData sends the first chunk
\* whole, also when it is only partly filled.
THEOREM TransferIsStream ==
  ASSUME SourceAhead = TRUE
  PROVE  Spec => ImplementsStream
<1>1. /\ TypeOK /\ FlagInv /\ DataInv /\ [Next]_vars
         => TypeOK' /\ FlagInv' /\ DataInv'
  BY TypeStep, FlagStep, DataStep
<1>2. Spec => [](TypeOK /\ FlagInv /\ DataInv)
  BY <1>1, TypeInit, FlagInit, DataInit, PTL DEF Spec
<1>3. Init => Stream!Init
  BY DEF Init, Stream!Init
<1> QED
  BY <1>2, <1>3, OutputPrefix, StreamStep, PTL
  DEF Spec, ImplementsStream, Stream!Spec
=============================================================================
