------------------------ MODULE TransferXtoWlProofs ------------------------
(***************************************************************************)
(* A transfer to a Wayland client implements ByteStream, for every length  *)
(* of the data, every size of the pipe and every cut into portions.        *)
(*                                                                         *)
(* Whatever is on its way is a run of consecutive units.  The invariant    *)
(* says, for each stage of the protocol, where the runs meet.              *)
(***************************************************************************)
EXTENDS TransferXtoWl, SequenceTheorems, TLAPS

\* The units a + 1, ..., b.
Run(a, b) == [i \in 1..(b - a) |-> a + i]

\* How much was written to the pipe.
Written == Len(got) + Len(pipe)

Quiet == ~notifier /\ ~blocked

\* The two peers and the pipe: what was read and what can be read are runs.
PipeInv ==
  /\ length \in Nat /\ sent \in 0..length
  /\ Len(got) \in Nat /\ Len(pipe) \in 0..PipeSize
  /\ got = Run(0, Len(got)) /\ pipe = Run(Len(got), Written)
  /\ Written <= length

Notified == {<<"new value", "notify">>, <<"notify">>}

(* The stages of a transfer that runs. *)

Asked ==
  /\ source = "asked" /\ property = Unset /\ events = <<>> /\ ~m_receiver
  /\ sent = 0 /\ Written = 0 /\ Quiet

RefusedStage ==
  /\ source = "done" /\ property = Unset /\ events \in {<<"refusal">>, <<>>}
  /\ ~m_receiver /\ Quiet

\* All data are in the property.
AnsweredStage ==
  /\ source = "done" /\ property = Data(Run(0, length)) /\ events \in Notified
  /\ ~m_receiver /\ Written = 0 /\ Quiet

WritingAll ==
  /\ source = "done" /\ events = <<>> /\ ~incr
  /\ data = Run(Written, length)

AnnouncedStage ==
  /\ source = "incr" /\ property = Incr /\ events \in Notified
  /\ ~m_receiver /\ sent = 0 /\ Written = 0 /\ Quiet

\* The source has to set the next portion.
Idle ==
  /\ source = "incr" /\ property = Unset /\ events = <<>>
  /\ m_receiver /\ incr /\ Written = sent /\ Quiet

\* A portion is set.  The one that ends the transfer is empty.
PortionSet ==
  /\ property = Data(Run(Written, sent)) /\ events = <<"new value">>
  /\ m_receiver /\ incr /\ Quiet
  /\ \/ source = "incr" /\ Written < sent
     \/ source = "done" /\ Written = sent /\ sent = length

\* A portion is written partly, and its property is still there.
WritingPortion ==
  /\ source = "incr" /\ property # Unset /\ events = <<>>
  /\ m_receiver /\ incr
  /\ Written <= sent /\ data = Run(Written, sent)

StageInv ==
  /\ phase = "running" =>
       \/ Asked \/ RefusedStage \/ AnsweredStage \/ WritingAll
       \/ AnnouncedStage \/ Idle \/ PortionSet \/ WritingPortion
  /\ phase = "completed" => Written = length

StreamInv == PipeInv /\ StageInv

-----------------------------------------------------------------------------
(* Runs.                                                                   *)

LEMMA RunType ==
  ASSUME NEW a \in Nat, NEW b \in Nat, a <= b
  PROVE  /\ Run(a, b) \in Seq(Nat) /\ Len(Run(a, b)) = b - a
         /\ \A i \in 1..(b - a) : Run(a, b)[i] = a + i
         /\ Run(a, b) = <<>> <=> a = b
BY DEF Run

LEMMA IsRun ==
  ASSUME NEW a \in Nat, NEW b \in Nat, a <= b,
         NEW s \in Seq(Nat), Len(s) = b - a,
         \A i \in 1..(b - a) : s[i] = a + i
  PROVE  s = Run(a, b)
<1> DEFINE t == Run(a, b)
<1>1. t \in Seq(Nat) /\ Len(t) = b - a /\ \A i \in 1..(b - a) : t[i] = a + i
  BY RunType
<1> HIDE DEF t
<1>2. Len(s) = Len(t) /\ \A i \in 1..Len(s) : s[i] = t[i]
  BY <1>1
<1>3. s = t
  BY <1>1, <1>2, SeqEqual
<1> QED BY <1>3 DEF t

LEMMA RunCat ==
  ASSUME NEW a \in Nat, NEW b \in Nat, NEW c \in Nat, a <= b, b <= c
  PROVE  Run(a, b) \o Run(b, c) = Run(a, c)
<1> DEFINE s == Run(a, b)
           t == Run(b, c)
<1>1. /\ s \in Seq(Nat) /\ Len(s) = b - a
      /\ \A i \in 1..(b - a) : s[i] = a + i
  BY RunType
<1>2. /\ t \in Seq(Nat) /\ Len(t) = c - b
      /\ \A i \in 1..(c - b) : t[i] = b + i
  BY RunType
<1> HIDE DEF s, t
<1>3. /\ s \o t \in Seq(Nat) /\ Len(s \o t) = c - a
      /\ \A i \in 1..(c - a) :
           (s \o t)[i] = IF i <= b - a THEN s[i] ELSE t[i - (b - a)]
  <2>1. /\ s \o t \in Seq(Nat) /\ Len(s \o t) = Len(s) + Len(t)
        /\ \A i \in 1..(Len(s) + Len(t)) :
             (s \o t)[i] = IF i <= Len(s) THEN s[i] ELSE t[i - Len(s)]
    BY <1>1, <1>2, ConcatProperties
  <2>2. Len(s) = b - a /\ Len(t) = c - b /\ Len(s) + Len(t) = c - a
    BY <1>1, <1>2
  <2> QED BY <2>1, <2>2
<1>4. \A i \in 1..(c - a) : (s \o t)[i] = a + i
  <2> TAKE i \in 1..(c - a)
  <2>1. CASE i <= b - a
    BY <1>1, <1>3, <2>1
  <2>2. CASE ~(i <= b - a)
    <3>1. i - (b - a) \in 1..(c - b)
      BY <2>2
    <3>2. t[i - (b - a)] = b + (i - (b - a))
      BY <1>2, <3>1
    <3> QED BY <1>3, <2>2, <3>2
  <2> QED BY <2>1, <2>2
<1>5. a <= c
  OBVIOUS
<1>6. s \o t = Run(a, c)
  BY <1>3, <1>4, <1>5, IsRun
<1> QED BY <1>6 DEF s, t

LEMMA RunCut ==
  ASSUME NEW a \in Nat, NEW b \in Nat, NEW n \in Nat, a + n <= b
  PROVE  /\ SubSeq(Run(a, b), 1, n) = Run(a, a + n)
         /\ SubSeq(Run(a, b), n + 1, b - a) = Run(a + n, b)
<1> DEFINE s == Run(a, b)
           f == SubSeq(s, 1, n)
           r == SubSeq(s, n + 1, b - a)
<1>nat. a <= b /\ a + n \in Nat /\ n <= b - a
  OBVIOUS
<1>1. /\ s \in Seq(Nat) /\ Len(s) = b - a
      /\ \A i \in 1..(b - a) : s[i] = a + i
  BY <1>nat, RunType
<1> HIDE DEF s
<1>2. /\ \A i \in 1..n : s[i] \in Nat
      /\ \A i \in (n + 1)..(b - a) : s[i] \in Nat
  BY <1>nat, <1>1
<1>3. /\ f \in Seq(Nat) /\ Len(f) = n
      /\ \A i \in 1..n : f[i] = s[i]
  BY <1>2, SubSeqProperties
<1>4. /\ r \in Seq(Nat) /\ Len(r) = b - (a + n)
      /\ \A i \in 1..(b - (a + n)) : r[i] = s[n + i]
  <2>1. /\ r \in Seq(Nat)
        /\ Len(r) = IF n + 1 <= b - a THEN (b - a) - (n + 1) + 1 ELSE 0
        /\ \A i \in 1..((b - a) - (n + 1) + 1) : r[i] = s[(n + 1) + i - 1]
    BY <1>2, SubSeqProperties
  <2> HIDE DEF r
  <2>2. Len(r) = b - (a + n)
    BY <1>nat, <2>1
  <2>3. (b - a) - (n + 1) + 1 = b - (a + n)
    OBVIOUS
  <2>4. \A i \in 1..(b - (a + n)) : (n + 1) + i - 1 = n + i
    OBVIOUS
  <2> QED BY <2>1, <2>2, <2>3, <2>4
<1> HIDE DEF f, r
<1>5. /\ \A i \in 1..n : f[i] = a + i
      /\ \A i \in 1..(b - (a + n)) : r[i] = (a + n) + i
  <2>1. \A i \in 1..n : i \in 1..(b - a)
    BY <1>nat
  <2>2. \A i \in 1..(b - (a + n)) : n + i \in 1..(b - a)
    BY <1>nat
  <2>3. \A i \in 1..n : f[i] = a + i
    BY <1>1, <1>3, <2>1
  <2>4. ASSUME NEW i \in 1..(b - (a + n)) PROVE r[i] = (a + n) + i
    <3>1. r[i] = s[n + i] /\ s[n + i] = a + (n + i)
      BY <1>1, <1>4, <2>2
    <3> QED BY <3>1
  <2> QED BY <2>3, <2>4
<1>6. f = Run(a, a + n)
  <2>1. Len(f) = (a + n) - a /\ a <= a + n
    BY <1>3
  <2>2. \A i \in 1..((a + n) - a) : f[i] = a + i
    BY <1>5
  <2> QED BY <1>nat, <1>3, <2>1, <2>2, IsRun
<1>7. r = Run(a + n, b)
  BY <1>nat, <1>4, <1>5, IsRun
<1> QED BY <1>6, <1>7 DEF f, r, s

-----------------------------------------------------------------------------
\* dataSourceWrite moves the point where the pipe and the rest of the data meet.
LEMMA WriteKeeps ==
  ASSUME PipeInv, NEW e \in Nat, Written <= e, e <= length,
         NEW isIncr \in BOOLEAN, phase = "running",
         DataSourceWrite(Run(Written, e), isIncr),
         UNCHANGED <<length, sent, got>>
  PROVE  /\ PipeInv'
         /\ \/ WriteError(Run(Written, e)) /\ phase' = "failed"
            \/ /\ ~FullyWritten(Run(Written, e)) /\ phase' = "running"
               /\ Written' <= e /\ data' = Run(Written', e)
            \/ /\ FullyWritten(Run(Written, e)) /\ Quiet' /\ Written' = e
               /\ data' = Run(Written', e)
               /\ phase' = IF isIncr THEN "running" ELSE "completed"
<1> DEFINE w == Written
           d == Run(w, e)
           n == WriteLen(d)
<1>1. /\ w \in Nat /\ Len(got) \in Nat /\ Len(got) <= w /\ w <= e
      /\ pipe = Run(Len(got), w) /\ w = Len(got) + Len(pipe)
  BY DEF PipeInv, Written
<1>2. d \in Seq(Nat) /\ Len(d) = e - w /\ (d = <<>> <=> w = e)
  BY <1>1, RunType
<1> HIDE DEF w
<1>3. /\ n \in Nat /\ w + n <= e /\ n <= PipeSize - Len(pipe) /\ n <= Len(d)
      /\ Space \in Nat
  <2> HIDE DEF d
  <2>1. PipeSize \in Nat /\ Len(pipe) \in 0..PipeSize
    BY SizeAssumption DEF PipeInv
  <2>2. Space \in Nat /\ Space = PipeSize - Len(pipe)
    BY <2>1 DEF Space
  <2>3. n = IF Len(d) < Space THEN Len(d) ELSE Space
    BY DEF WriteLen
  <2>4. Len(d) \in Nat /\ Len(d) = e - w
    BY <1>1, <1>2
  <2> HIDE DEF n
  <2>5. n \in Nat /\ n <= Space /\ n <= Len(d)
    BY <2>2, <2>3, <2>4
  <2> QED BY <1>1, <2>2, <2>4, <2>5
<1>4. CASE WriteError(d)
  <2>1. phase' = "failed" /\ pipe' = pipe
    BY <1>4 DEF DataSourceWrite, w
  <2>2. PipeInv'
    BY <2>1 DEF PipeInv, Written
  <2> QED BY <1>4, <2>1, <2>2 DEF w
<1>5. CASE ~WriteError(d)
  <2>1. /\ pipe' = pipe \o SubSeq(d, 1, n)
        /\ data' = SubSeq(d, n + 1, Len(d))
        /\ notifier' = (n < Len(d) /\ ~blocking)
        /\ blocked' = (n < Len(d) /\ blocking)
        /\ phase' = IF n < Len(d) \/ isIncr THEN phase ELSE "completed"
    BY <1>5 DEF DataSourceWrite, w
  <2>2. pipe' = Run(Len(got), w + n)
    <3>1. SubSeq(d, 1, n) = Run(w, w + n)
      <4> HIDE DEF n
      <4> QED BY <1>1, <1>3, RunCut, ZenonT(30)
    <3> HIDE DEF n, d
    <3>2. w + n \in Nat /\ w <= w + n
      BY <1>1, <1>3
    <3>3. Run(Len(got), w) \o Run(w, w + n) = Run(Len(got), w + n)
      BY <1>1, <3>2, RunCat
    <3> QED BY <1>1, <2>1, <3>1, <3>3
  <2>3. data' = Run(w + n, e)
    <3>1. SubSeq(d, n + 1, e - w) = Run(w + n, e)
      <4> HIDE DEF n
      <4> QED BY <1>1, <1>3, RunCut, ZenonT(30)
    <3> HIDE DEF n, d
    <3> QED BY <1>2, <2>1, <3>1
  <2>4. Len(pipe') = Len(pipe) + n /\ Len(pipe) \in Nat
    <3> HIDE DEF n, d
    <3>1. Len(pipe') = (w + n) - Len(got)
      <4>1. w + n \in Nat /\ Len(got) <= w + n
        BY <1>1, <1>3
      <4> QED BY <1>1, <2>2, <4>1, RunType
    <3>2. Len(pipe) \in Nat
      BY SizeAssumption DEF PipeInv
    <3> QED BY <1>1, <1>3, <3>1, <3>2
  <2>5. Written' = w + n
    <3> HIDE DEF n, d
    <3> QED BY <1>1, <1>3, <2>4 DEF Written
  <2>6. PipeInv'
    <3> HIDE DEF n, d
    <3>1. Len(pipe') \in 0..PipeSize
      BY <1>3, <2>4, SizeAssumption
    <3>2. Written' <= length
      BY <1>1, <1>3, <2>5 DEF PipeInv
    <3> QED BY <2>2, <2>5, <3>1, <3>2 DEF PipeInv
  <2>7. FullyWritten(d) <=> n = Len(d)
    BY <1>5 DEF FullyWritten
  <2>8. CASE n = Len(d)
    <3>1. Quiet'
      <4>1. ~(n < Len(d))
        <5> HIDE DEF n, d
        <5> QED BY <1>3, <2>8
      <4> QED BY <2>1, <4>1 DEF Quiet
    <3>2. phase' = IF isIncr THEN "running" ELSE "completed"
      BY <1>3, <2>1, <2>8
    <3>3. w + n = e
      <4> HIDE DEF n, d
      <4> QED BY <1>1, <1>2, <2>8
    <3> QED BY <2>3, <2>5, <2>6, <2>7, <2>8, <3>1, <3>2, <3>3 DEF w
  <2>9. CASE n # Len(d)
    <3>1. phase' = "running"
      <4> HIDE DEF n, d
      <4> QED BY <1>2, <1>3, <2>1, <2>9
    <3> QED BY <1>3, <2>3, <2>5, <2>6, <2>7, <2>9, <3>1 DEF w
  <2> QED BY <2>8, <2>9
<1> QED BY <1>4, <1>5

\* The reader takes units from the front of the pipe.
LEMMA ReadKeeps ==
  ASSUME PipeInv, Read
  PROVE  /\ PipeInv' /\ Written' = Written
         /\ Len(got) <= Len(got') /\ ~(pipe = <<>>)
<1>1. PICK n \in 1..Len(pipe) : /\ got' = got \o SubSeq(pipe, 1, n)
                                /\ pipe' = SubSeq(pipe, n + 1, Len(pipe))
  BY DEF Read
<1>2. /\ Len(got) \in Nat /\ Len(pipe) \in Nat /\ n \in Nat /\ n <= Len(pipe)
      /\ Written \in Nat /\ Written = Len(got) + Len(pipe)
  BY SizeAssumption DEF PipeInv, Written
<1>3. got = Run(0, Len(got)) /\ pipe = Run(Len(got), Written)
  BY DEF PipeInv
<1>4. SubSeq(pipe, 1, n) = Run(Len(got), Len(got) + n)
  BY <1>2, <1>3, RunCut
<1>5. pipe' = Run(Len(got) + n, Written)
  <2>1. SubSeq(Run(Len(got), Written), n + 1, Written - Len(got))
          = Run(Len(got) + n, Written)
    <3>1. Len(got) + n <= Written
      BY <1>2
    <3> QED BY <1>2, <3>1, RunCut, ZenonT(30)
  <2> QED BY <1>1, <1>2, <1>3, <2>1
<1>6. got' = Run(0, Len(got) + n)
  <2>1. /\ Len(got) + n \in Nat /\ Len(got) <= Len(got) + n
        /\ 0 \in Nat /\ 0 <= Len(got)
    BY <1>2
  <2>2. Run(0, Len(got)) \o Run(Len(got), Len(got) + n) = Run(0, Len(got) + n)
    BY <1>2, <2>1, RunCat
  <2> QED BY <1>1, <1>3, <1>4, <2>2
<1>7. Len(got') = Len(got) + n /\ Len(pipe') = Len(pipe) - n
  <2>1. /\ Len(got) + n \in Nat /\ Len(got) + n <= Written /\ 0 \in Nat
        /\ 0 <= Len(got) + n
    BY <1>2
  <2>2. Len(got') = Len(got) + n - 0
    BY <1>6, <2>1, RunType
  <2>3. Len(pipe') = Written - (Len(got) + n)
    BY <1>2, <1>5, <2>1, RunType
  <2> QED BY <1>2, <2>2, <2>3
<1>8. Written' = Written
  BY <1>2, <1>7 DEF Written
<1>9. UNCHANGED <<length, sent>>
  BY DEF Read, sourceVars
<1>10. PipeInv'
  BY <1>2, <1>5, <1>6, <1>7, <1>8, <1>9, SizeAssumption DEF PipeInv
<1> QED BY <1>2, <1>7, <1>8, <1>10 DEF Read

\* What the peers and the pipe have is not touched.
LEMMA PipeStays ==
  ASSUME PipeInv, UNCHANGED <<length, sent, got, pipe>>
  PROVE  PipeInv' /\ Written' = Written
BY DEF PipeInv, Written

LEMMA StreamInvInit == Init => StreamInv
<1> SUFFICES ASSUME Init PROVE StreamInv
  OBVIOUS
<1> USE SizeAssumption DEF Init
<1>1. Len(got) = 0 /\ Len(pipe) = 0 /\ Written = 0
  BY DEF Written
<1>2. Run(0, 0) = <<>>
  BY RunType
<1>3. PipeInv
  BY <1>1, <1>2 DEF PipeInv
<1>4. StageInv
  BY <1>1 DEF StageInv, Asked, Quiet
<1> QED BY <1>3, <1>4 DEF StreamInv

-----------------------------------------------------------------------------
(* One step per handler.                                                   *)

LEMMA WriteOnKeeps ==
  ASSUME StreamInv, WriteOn
  PROVE  StreamInv'
<1> USE DEF StreamInv
<1>1. /\ phase = "running" /\ (notifier \/ blocked)
      /\ DataSourceWrite(data, incr)
      /\ UNCHANGED <<length, sent, source, events, m_receiver, incr, got>>
      /\ property' = IF incr /\ FullyWritten(data) THEN Unset ELSE property
  BY DEF WriteOn, sourceVars, readerVars, DeleteProperty
<1>2. /\ length \in Nat /\ sent \in Nat /\ sent <= length
      /\ Written \in Nat /\ Written <= length /\ length <= length
  BY SizeAssumption DEF PipeInv, Written
<1>3. WritingAll \/ WritingPortion
  BY <1>1 DEF StageInv, Asked, RefusedStage, AnsweredStage, AnnouncedStage,
              Idle, PortionSet, Quiet
<1>4. CASE WritingAll
  <2>1. DataSourceWrite(Run(Written, length), FALSE)
    BY <1>1, <1>4, Zenon DEF WritingAll, DataSourceWrite
  <2>2. /\ PipeInv'
        /\ \/ phase' = "failed"
           \/ phase' = "running" /\ data' = Run(Written', length)
           \/ phase' = "completed" /\ Written' = length
    BY <1>1, <1>2, <2>1, WriteKeeps
  <2> QED BY <1>1, <1>4, <2>2 DEF WritingAll, StageInv
<1>5. CASE WritingPortion
  <2>1. DataSourceWrite(Run(Written, sent), TRUE)
    BY <1>1, <1>5, Zenon DEF WritingPortion, DataSourceWrite
  <2>2. /\ PipeInv'
        /\ \/ phase' = "failed"
           \/ /\ ~FullyWritten(Run(Written, sent)) /\ phase' = "running"
              /\ Written' <= sent /\ data' = Run(Written', sent)
           \/ /\ FullyWritten(Run(Written, sent)) /\ phase' = "running"
              /\ Quiet' /\ Written' = sent
    BY <1>1, <1>2, <1>5, <2>1, WriteKeeps DEF WritingPortion
  <2>3. data = Run(Written, sent) /\ incr
    BY <1>5 DEF WritingPortion
  <2>4. phase' = "running" => WritingPortion' \/ Idle'
    BY <1>1, <1>5, <2>2, <2>3 DEF WritingPortion, Idle
  <2> QED BY <2>2, <2>4 DEF StageInv
<1> QED BY <1>3, <1>4, <1>5

LEMMA ShortSeqs ==
  ASSUME NEW x, NEW y
  PROVE  /\ Head(<<x>>) = x /\ Tail(<<x>>) = <<>>
         /\ Head(<<x, y>>) = x /\ Tail(<<x, y>>) = <<y>>
         /\ Append(<<>>, x) = <<x>> /\ <<>> \o <<x, y>> = <<x, y>>
OBVIOUS

\* The stage in which an X event is handled.
LEMMA EventStage ==
  ASSUME StreamInv, phase = "running", events # <<>>, events' = Tail(events)
  PROVE  \/ RefusedStage /\ Head(events) = "refusal" /\ events' = <<>>
         \/ /\ AnsweredStage \/ AnnouncedStage
            /\ \/ Head(events) = "new value" /\ events' = <<"notify">>
               \/ Head(events) = "notify" /\ events' = <<>>
         \/ PortionSet /\ Head(events) = "new value" /\ events' = <<>>
<1>1. phase = "running" /\ events # <<>> /\ events' = Tail(events)
  OBVIOUS
<1>2. RefusedStage \/ AnsweredStage \/ AnnouncedStage \/ PortionSet
  BY <1>1 DEF StreamInv, StageInv, Asked, WritingAll, Idle, WritingPortion
<1>3. CASE RefusedStage
  <2>1. events = <<"refusal">>
    BY <1>1, <1>3 DEF RefusedStage
  <2> QED BY <1>1, <1>3, <2>1, ShortSeqs
<1>4. CASE AnsweredStage \/ AnnouncedStage
  <2>1. events \in Notified
    BY <1>4 DEF AnsweredStage, AnnouncedStage
  <2>2. CASE events = <<"notify">>
    BY <1>1, <1>4, <2>2, ShortSeqs
  <2>3. CASE events = <<"new value", "notify">>
    BY <1>1, <1>4, <2>3, ShortSeqs
  <2> QED BY <2>1, <2>2, <2>3 DEF Notified
<1>5. CASE PortionSet
  <2>1. events = <<"new value">>
    BY <1>5 DEF PortionSet
  <2> QED BY <1>1, <1>5, <2>1, ShortSeqs
<1> QED BY <1>1, <1>2, <1>3, <1>4, <1>5

LEMMA HandleKeeps ==
  ASSUME StreamInv, Handle
  PROVE  StreamInv'
<1> USE DEF StreamInv
<1>nat. /\ length \in Nat /\ sent \in Nat /\ sent <= length
      /\ Written \in Nat /\ Written <= length
  BY SizeAssumption DEF PipeInv, Written
<1>1. CASE Refused
  <2>1. RefusedStage /\ events' = <<>>
    <3>1. Event("refusal")
      BY <1>1 DEF Refused, Event
    <3> QED BY <3>1, EventStage DEF Event
  <2> QED BY <1>1, <2>1, PipeStays
    DEF Refused, sourceVars, readerVars, RefusedStage, StageInv, Quiet
<1>2. CASE EarlyValue
  <2>1. /\ AnsweredStage \/ AnnouncedStage
        /\ events' = <<"notify">> /\ phase = "running"
    <3>1. Event("new value") /\ (~incr \/ ~m_receiver)
      BY <1>2 DEF EarlyValue, Event
    <3> QED BY <3>1, EventStage DEF Event, PortionSet
  <2>2. /\ PipeInv' /\ Written' = Written
        /\ UNCHANGED <<length, sent, source, property, m_receiver, notifier,
                       blocked, phase>>
    BY <1>2, PipeStays DEF EarlyValue, sourceVars, readerVars
  <2>3. AnsweredStage' \/ AnnouncedStage'
    BY <2>1, <2>2 DEF AnsweredStage, AnnouncedStage, Notified, Quiet
  <2> QED BY <2>1, <2>2, <2>3 DEF StageInv
<1>3. CASE StartIncr
  <2>1. AnnouncedStage /\ events' = <<>> /\ phase = "running"
    <3>1. Event("notify") /\ property.type = "incr"
      BY <1>3 DEF StartIncr, Event
    <3>2. ~AnsweredStage
      BY <3>1 DEF AnsweredStage, Data
    <3> QED BY <3>1, <3>2, EventStage DEF Event
  <2>2. /\ PipeInv' /\ Written' = Written
        /\ UNCHANGED <<length, sent, source, notifier, blocked, phase>>
        /\ property' = Unset /\ m_receiver' /\ incr'
    BY <1>3, PipeStays DEF StartIncr, sourceVars, readerVars
  <2>3. Idle'
    BY <2>1, <2>2 DEF Idle, AnnouncedStage, Quiet
  <2> QED BY <2>1, <2>2, <2>3 DEF StageInv
<1>4. CASE StartTransfer
  <2>1. AnsweredStage /\ events' = <<>> /\ phase = "running"
    <3>1. Event("notify") /\ property.type # "incr"
      BY <1>4 DEF StartTransfer, Event
    <3>2. ~AnnouncedStage
      BY <3>1 DEF AnnouncedStage, Incr
    <3> QED BY <3>1, <3>2, EventStage DEF Event
  <2>2. property.data = Run(Written, length)
    BY <2>1 DEF AnsweredStage, Data
  <2>3. /\ DataSourceWrite(Run(Written, length), FALSE) /\ ~incr'
        /\ UNCHANGED <<length, sent, source, got>>
    BY <1>4, <2>2 DEF StartTransfer, sourceVars, readerVars
  <2>4. /\ PipeInv'
        /\ \/ phase' = "failed"
           \/ phase' = "running" /\ data' = Run(Written', length)
           \/ phase' = "completed" /\ Written' = length
    <3>1. length <= length
      BY <1>nat
    <3> QED BY <1>nat, <2>1, <2>3, <3>1, WriteKeeps
  <2> QED BY <2>1, <2>3, <2>4 DEF WritingAll, AnsweredStage, StageInv
<1>5. CASE GetIncrChunk
  <2>1. PortionSet /\ events' = <<>> /\ phase = "running"
    <3>1. Event("new value") /\ m_receiver
      BY <1>5 DEF GetIncrChunk, Event
    <3> QED BY <3>1, EventStage DEF Event, AnsweredStage, AnnouncedStage
  <2>2. property.data = Run(Written, sent) /\ property # Unset
    BY <2>1 DEF PortionSet, Data, Unset
  <2>3. Written <= sent
    <3>1. Written < sent \/ Written = sent
      BY <2>1 DEF PortionSet
    <3> QED BY <1>nat, <3>1
  <2>4. source = "incr"
    <3>1. Written # sent
      BY <1>nat, <1>5, <2>2, <2>3, RunType DEF GetIncrChunk
    <3> QED BY <2>1, <3>1 DEF PortionSet
  <2>5. /\ DataSourceWrite(Run(Written, sent), TRUE)
        /\ UNCHANGED <<length, sent, source, m_receiver, incr, got>>
        /\ property' = IF FullyWritten(Run(Written, sent)) THEN Unset ELSE property
    BY <1>5, <2>2 DEF GetIncrChunk, sourceVars, readerVars, DeleteProperty
  <2>6. /\ PipeInv'
        /\ \/ phase' = "failed"
           \/ /\ ~FullyWritten(Run(Written, sent)) /\ phase' = "running"
              /\ Written' <= sent /\ data' = Run(Written', sent)
           \/ /\ FullyWritten(Run(Written, sent)) /\ phase' = "running"
              /\ Quiet' /\ Written' = sent
    BY <1>nat, <2>1, <2>3, <2>5, WriteKeeps
  <2>7. phase' = "running" => WritingPortion' \/ Idle'
    BY <2>1, <2>2, <2>4, <2>5, <2>6 DEF PortionSet, WritingPortion, Idle
  <2> QED BY <2>6, <2>7 DEF StageInv
<1>6. CASE GetLastChunk
  <2>1. PortionSet
    <3>1. Event("new value") /\ m_receiver
      BY <1>6 DEF GetLastChunk, Event
    <3> QED BY <3>1, EventStage DEF Event, AnsweredStage, AnnouncedStage
  <2>2. property.data = Run(Written, sent) /\ Written <= sent
    <3>1. Written < sent \/ Written = sent
      BY <2>1 DEF PortionSet
    <3>2. property.data = Run(Written, sent)
      BY <2>1 DEF PortionSet, Data
    <3> QED BY <1>nat, <3>1, <3>2
  <2>3. Written = length
    <3>1. Written = sent
      BY <1>nat, <1>6, <2>2, RunType DEF GetLastChunk
    <3>2. \/ Written < sent
          \/ Written = sent /\ sent = length
      BY <2>1 DEF PortionSet
    <3> QED BY <1>nat, <3>1, <3>2
  <2>4. /\ PipeInv' /\ Written' = Written /\ phase' = "completed"
        /\ length' = length
    BY <1>6, PipeStays DEF GetLastChunk, sourceVars, readerVars
  <2> QED BY <2>3, <2>4 DEF StageInv
<1>7. CASE WriteOn
  BY <1>7, WriteOnKeeps
<1> QED BY <1>1, <1>2, <1>3, <1>4, <1>5, <1>6, <1>7 DEF Handle

LEMMA SourceKeeps ==
  ASSUME StreamInv, SourceStep \/ SourceRefuses
  PROVE  StreamInv'
<1> USE DEF StreamInv
<1>nat. length \in Nat /\ sent \in Nat /\ sent <= length
  BY DEF PipeInv
<1>1. /\ UNCHANGED <<length, got, pipe, m_receiver, incr, notifier, blocked,
                     phase, data>>
  BY DEF SourceStep, SourceRefuses, SourceAnswers, SourceAnnounces, SourceSends,
         ownVars, readerVars
<1>2. sent' \in 0..length
  <2>1. CASE SourceSends
    <3>1. PICK n \in 0..(length - sent) : sent' = sent + n
      BY <2>1 DEF SourceSends
    <3> QED BY <1>nat, <3>1
  <2>2. CASE SourceRefuses \/ SourceAnswers \/ SourceAnnounces
    <3>1. sent' = sent \/ sent' = length
      BY <2>2 DEF SourceRefuses, SourceAnswers, SourceAnnounces
    <3> QED BY <1>nat, <3>1
  <2> QED BY <2>1, <2>2 DEF SourceStep
<1>3. PipeInv' /\ Written' = Written
  BY <1>1, <1>2 DEF PipeInv, Written
<1>4. ASSUME phase = "running"
      PROVE  RefusedStage' \/ AnsweredStage' \/ AnnouncedStage' \/ PortionSet'
  <2>1. CASE SourceRefuses
    <3>1. Asked
      BY <1>4, <2>1 DEF StageInv, SourceRefuses, RefusedStage, AnsweredStage,
        WritingAll, AnnouncedStage, Idle, PortionSet, WritingPortion
    <3> QED BY <1>1, <2>1, <3>1 DEF SourceRefuses, Asked, RefusedStage, Quiet
  <2>2. CASE SourceAnswers
    <3>1. Asked
      BY <1>4, <2>2 DEF StageInv, SourceAnswers, RefusedStage, AnsweredStage,
        WritingAll, AnnouncedStage, Idle, PortionSet, WritingPortion
    <3>2. Units(length) = Run(0, length)
      BY <1>nat, <3>1 DEF Asked, Units, Run
    <3>3. events' \in Notified
      BY <2>2, <3>1, ShortSeqs DEF SourceAnswers, Asked, Notified
    <3> QED BY <1>1, <1>3, <2>2, <3>1, <3>2, <3>3
      DEF SourceAnswers, Asked, AnsweredStage, Quiet
  <2>3. CASE SourceAnnounces
    <3>1. Asked
      BY <1>4, <2>3 DEF StageInv, SourceAnnounces, RefusedStage, AnsweredStage,
        WritingAll, AnnouncedStage, Idle, PortionSet, WritingPortion
    <3>2. events' \in Notified
      BY <2>3, <3>1, ShortSeqs DEF SourceAnnounces, Asked, Notified
    <3> QED BY <1>1, <1>3, <2>3, <3>1, <3>2
      DEF SourceAnnounces, Asked, AnnouncedStage, Quiet
  <2>4. CASE SourceSends
    <3>1. Idle
      BY <1>4, <2>4 DEF StageInv, SourceSends, Asked, RefusedStage,
        AnsweredStage, WritingAll, AnnouncedStage, PortionSet, WritingPortion,
        Unset, Incr, Data
    <3>2. PICK n \in 0..(length - sent) :
            /\ n = 0 <=> sent = length
            /\ property' = Data(Units(n))
            /\ sent' = sent + n
            /\ source' = IF n = 0 THEN "done" ELSE "incr"
      BY <2>4 DEF SourceSends
    <3>3. Units(n) = Run(Written', sent')
      BY <1>nat, <1>3, <3>1, <3>2 DEF Idle, Units, Run
    <3>4. events' = <<"new value">>
      BY <2>4, <3>1, ShortSeqs DEF SourceSends, Idle
    <3>5. \/ source' = "incr" /\ Written' < sent'
          \/ source' = "done" /\ Written' = sent' /\ sent' = length'
      BY <1>nat, <1>1, <1>3, <3>1, <3>2 DEF Idle
    <3> QED BY <1>1, <3>1, <3>2, <3>3, <3>4, <3>5 DEF Idle, PortionSet, Quiet
  <2> QED BY <2>1, <2>2, <2>3, <2>4 DEF SourceStep
<1> QED BY <1>1, <1>3, <1>4 DEF StageInv

LEMMA StreamInvStep == StreamInv /\ [Next]_vars => StreamInv'
<1> SUFFICES ASSUME StreamInv, [Next]_vars PROVE StreamInv'
  OBVIOUS
<1> DEFINE same == UNCHANGED <<length, sent, source, property, events, m_receiver,
                               data, incr, notifier, blocked, phase>>
<1>1. ASSUME same, PipeInv', Written' = Written
      PROVE  StreamInv'
  BY <1>1 DEF StreamInv, StageInv, Asked, RefusedStage, AnsweredStage,
    WritingAll, AnnouncedStage, Idle, PortionSet, WritingPortion, Quiet
<1>2. CASE Read
  BY <1>1, <1>2, ReadKeeps DEF Read, sourceVars, ownVars, StreamInv
<1>3. CASE ReaderCloses \/ UNCHANGED vars
  BY <1>1, <1>3, PipeStays
  DEF ReaderCloses, sourceVars, ownVars, vars, StreamInv
<1>4. CASE Timeout
  <2>1. PipeInv' /\ Written' = Written
    BY <1>4, PipeStays DEF Timeout, sourceVars, readerVars, StreamInv
  <2>2. CASE m_timeout
    BY <1>4, <2>1, <2>2 DEF Timeout, StreamInv, StageInv
  <2>3. CASE ~m_timeout
    <3>1. /\ phase = "running" /\ phase' = phase /\ ~blocked /\ ~blocked'
          /\ notifier' = (notifier /\ TRUE)
          /\ UNCHANGED <<length, sent, source, property, events, m_receiver,
                         data, incr>>
      BY <1>4, <2>3 DEF Timeout, sourceVars
    <3>2. Quiet => Quiet'
      BY <3>1 DEF Quiet
    <3> QED BY <2>1, <3>1, <3>2
      DEF StreamInv, StageInv, Asked, RefusedStage, AnsweredStage, WritingAll,
          AnnouncedStage, Idle, PortionSet, WritingPortion
  <2> QED BY <2>2, <2>3
<1> QED BY <1>2, <1>3, <1>4, HandleKeeps, SourceKeeps DEF Next

-----------------------------------------------------------------------------
(* The refinement.                                                         *)

Input == [i \in 1..length |-> i]

Ended == phase = "completed" /\ pipe = <<>>

\* The output is a prefix of the input, and all of it at a regular end.
OutputInv ==
  /\ Len(got) \in 0..length /\ Len(Input) = length
  /\ got = SubSeq(Input, 1, Len(got))
  /\ Ended => got = Input

LEMMA OutputPrefix == StreamInv => OutputInv
<1> SUFFICES ASSUME StreamInv PROVE OutputInv
  OBVIOUS
<1>1. /\ Len(got) \in Nat /\ Len(pipe) \in Nat /\ length \in Nat
      /\ Len(got) + Len(pipe) <= length /\ got = Run(0, Len(got))
  BY SizeAssumption DEF StreamInv, PipeInv, Written
<1>2. Input = Run(0, length)
  BY <1>1 DEF Input, Run
<1>3. Len(Input) = length
  BY <1>1, <1>2, RunType
<1>4. got = SubSeq(Input, 1, Len(got))
  <2>1. 0 \in Nat /\ 0 + Len(got) <= length /\ 0 + Len(got) = Len(got)
    BY <1>1
  <2>2. SubSeq(Run(0, length), 1, Len(got)) = Run(0, 0 + Len(got))
    BY <1>1, <2>1, RunCut, ZenonT(30)
  <2> QED BY <1>1, <1>2, <2>1, <2>2
<1>5. Ended => got = Input
  <2> SUFFICES ASSUME Ended PROVE got = Input
    OBVIOUS
  <2>1. Len(got) + Len(pipe) = length /\ Len(pipe) = 0
    BY DEF Ended, StreamInv, StageInv, Written
  <2>2. Len(got) = length
    BY <1>1, <2>1
  <2> QED BY <1>1, <1>2, <2>2
<1>6. Len(got) \in 0..length
  BY <1>1
<1> QED BY <1>3, <1>4, <1>5, <1>6 DEF OutputInv

\* Only the reader takes from the pipe, and after the end nothing happens that
\* the abstract stream could see.
LEMMA VisibleSteps ==
  ASSUME StreamInv, [Next]_vars
  PROVE  /\ length' = length
         /\ got' = got \/ (~Ended /\ Len(got) <= Len(got'))
         /\ Ended => UNCHANGED <<got, pipe, phase>>
<1> USE DEF StreamInv
<1>1. CASE Read
  <2>1. Len(got) <= Len(got') /\ ~(pipe = <<>>)
    BY <1>1, ReadKeeps
  <2> QED BY <1>1, <2>1 DEF Read, sourceVars, Ended
<1>2. CASE Handle \/ Timeout
  <2>1. phase = "running"
    BY <1>2 DEF Handle, Refused, StartIncr, StartTransfer, EarlyValue,
      GetIncrChunk, GetLastChunk, WriteOn, Timeout, Event
  <2>2. UNCHANGED <<length, got>>
    BY <1>2 DEF Handle, Refused, StartIncr, StartTransfer, EarlyValue,
      GetIncrChunk, GetLastChunk, WriteOn, Timeout, sourceVars, readerVars
  <2> QED BY <2>1, <2>2 DEF Ended
<1>3. CASE SourceStep \/ SourceRefuses \/ ReaderCloses \/ UNCHANGED vars
  BY <1>3 DEF SourceStep, SourceAnswers, SourceAnnounces, SourceSends,
    SourceRefuses, ReaderCloses, sourceVars, readerVars, ownVars, vars
<1> QED BY <1>1, <1>2, <1>3 DEF Next

LEMMA StreamStep ==
  StreamInv /\ OutputInv /\ OutputInv' /\ [Next]_vars
    => [Stream!Deliver]_Stream!vars
<1> SUFFICES ASSUME StreamInv, OutputInv, OutputInv', [Next]_vars
             PROVE  [Stream!Deliver]_Stream!vars
  OBVIOUS
<1>1. /\ length' = length
      /\ got' = got \/ (~Ended /\ Len(got) <= Len(got'))
      /\ Ended => UNCHANGED <<got, pipe, phase>>
  BY VisibleSteps
<1>2. Input' = Input
  BY <1>1 DEF Input
<1>3. CASE Ended
  <2>1. UNCHANGED <<got, pipe, phase>>
    BY <1>1, <1>3
  <2> QED BY <1>2, <2>1 DEF Stream!vars, Input
<1>4. CASE ~Ended
  <2>1. /\ Len(got) \in 0..length /\ Len(got') \in 0..length
        /\ Len(Input) = length /\ got' = SubSeq(Input, 1, Len(got'))
        /\ Ended' => got' = Input
    BY <1>1, <1>2 DEF OutputInv
  <2>2. Len(got') \in Len(got)..Len(Input)
    BY <1>1, <2>1
  <2>3. \E n \in Len(got)..Len(Input) : got' = SubSeq(Input, 1, n)
    BY <2>1, <2>2
  <2>4. Ended' \in BOOLEAN
    BY DEF Ended
  <2> QED BY <1>2, <1>4, <2>1, <2>3, <2>4 DEF Stream!Deliver, Input, Ended
<1> QED BY <1>3, <1>4

\* A transfer from an X client to a Wayland client is a byte stream: the reader
\* gets the data of the source in order and without gaps, and the transfer
\* ends regularly, with the pipe empty, only when it has all of them
\* (TransferXtoWl::startTransfer, getIncrChunk and dataSourceWrite).
THEOREM TransferIsStream == Spec => ImplementsStream
<1>1. Spec => []StreamInv
  BY StreamInvInit, StreamInvStep, PTL DEF Spec
<1>2. Init => Stream!Init
  BY DEF Init, Stream!Init
<1> QED
  BY <1>1, <1>2, OutputPrefix, StreamStep, PTL
  DEF Spec, ImplementsStream, Stream!Spec
=============================================================================
