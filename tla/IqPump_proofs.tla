---------------------------- MODULE IqPump_proofs ----------------------------
(***************************************************************************)
(* Proofs about IqPump for every size of the rings, of the channel, of a   *)
(* pump and of the file, and for every bound.                              *)
(***************************************************************************)
EXTENDS IqPump, SequenceTheorems, TLAPS

(* The header is written last: until the writer thread ends it counts      *)
(* nothing, and the stream is closed before it.                            *)
HeaderInv ==
    /\ wpc # "end" => file.header = 0
    /\ wpc = "header" => file.sealed
    /\ HeaderHonest

(* The playback thread raises `done' only at its end; so a playback that   *)
(* the engine finds finished has no thread left.                           *)
OwnerInv ==
    /\ playing /\ pdone => ppc = "end"
    /\ NoStrayThread

(* The ring of a playback holds the samples between the engine's and the   *)
(* thread's place in the file, in order.                                   *)
StreamInv ==
    /\ ppc = "push" => pleft \in 1..(FileLen - pnext + 1)
    /\ playing => /\ pnext = heard + Len(pring) + 1
                  /\ \A i \in 1..Len(pring) : pring[i] = heard + i

IInv == TypeOK /\ HeaderInv /\ OwnerInv /\ StreamInv
-----------------------------------------------------------------------------
(* The parts of the type invariant: the flags, and the state of each thread. *)
FlagType ==
    /\ conn \in BOOLEAN /\ playing \in BOOLEAN /\ rec \in BOOLEAN
    /\ pdone \in BOOLEAN /\ werror \in BOOLEAN /\ saved \in BOOLEAN

EngineType ==
    /\ epc \in {"loop", "pop", "check", "push", "dropPlay", "joinPlay",
                "stopRec", "joinRec", "settle", "exit", "dead"}
    /\ goal \in Goal
    /\ drain \in Seq(Sample) /\ Len(drain) <= DrainCap
    /\ ops \in 0..MaxOps

DeviceType ==
    /\ ring \in Seq(Sample) /\ Len(ring) <= RingCap
    /\ produced \in 0..MaxSample
    /\ overflow \subseteq 1..MaxSample

PlayType ==
    /\ ppc \in {"none", "read", "push", "end"}
    /\ pring \in Seq(Sample) /\ Len(pring) <= PlayRingCap
    /\ pnext \in 1..(FileLen + 1)
    /\ pleft \in 0..FileLen
    /\ heard \in 0..FileLen

RecordType ==
    /\ wpc \in {"none", "recv", "write", "seal", "header", "end"}
    /\ chan \in Seq(RecMsg) /\ Len(chan) <= ChanCap
    /\ wchunk \in Seq(Sample)
    /\ file \in [header : Nat, data : Seq(Sample), sealed : BOOLEAN]
    /\ taken \in Seq(Sample)

LEMMA TypeParts ==
    TypeOK <=> FlagType /\ EngineType /\ DeviceType /\ PlayType /\ RecordType
BY DEF TypeOK, FlagType, EngineType, DeviceType, PlayType, RecordType

(* The empty sequence fits everywhere. *)
LEMMA Nothing ==
    /\ <<>> \in Seq(Sample) /\ <<>> \in Seq(RecMsg) /\ Len(<<>>) = 0
    /\ NoFile \in [header : Nat, data : Seq(Sample), sealed : BOOLEAN]
<1>1. <<>> \in Seq(Sample) /\ <<>> \in Seq(RecMsg) /\ Len(<<>>) = 0
    BY EmptySeq
<1> QED BY <1>1 DEF NoFile

LEMMA InitType == Init => TypeOK
<1> SUFFICES ASSUME Init PROVE TypeOK
    OBVIOUS
<1>0. FlagType
    BY DEF Init, FlagType
<1> USE Nothing, CapAssumption, LenAssumption, BoundAssumption DEF Init
<1>1. EngineType
    BY DEF EngineType, Goal
<1>2. DeviceType
    BY DEF DeviceType
<1>3. PlayType
    BY DEF PlayType
<1>4. RecordType
    BY DEF RecordType
<1> QED BY <1>0, <1>1, <1>2, <1>3, <1>4, TypeParts

(* IqPump starts with no thread, no file and nothing in flight. *)
LEMMA InitIInv == Init => IInv
<1> SUFFICES ASSUME Init PROVE IInv
    OBVIOUS
<1>1. HeaderInv /\ OwnerInv
    BY DEF Init, HeaderInv, HeaderHonest, NoFile, OwnerInv, NoStrayThread
<1>2. StreamInv
    BY DEF Init, StreamInv
<1> QED BY <1>1, <1>2, InitType DEF IInv

(* No step lets the file's header run ahead of its contents. *)
LEMMA HeaderStep ==
    ASSUME IInv, [Next]_vars
    PROVE  HeaderInv'
<1> USE DEF HeaderInv, HeaderHonest, IInv
<1>1. CASE UNCHANGED recordVars
    BY <1>1 DEF recordVars
<1>2. CASE WriterTake \/ WriterWrite
    <2>1. file.header = 0 /\ file'.header = 0 /\ wpc' \in {"recv", "write", "seal"}
        BY <1>2 DEF WriterTake, WriterWrite, TypeOK
    <2> QED BY <2>1
<1>3. CASE WriterSeal
    BY <1>3 DEF WriterSeal, TypeOK
<1>4. CASE WriterHeader
    BY <1>4 DEF WriterHeader, TypeOK
<1>5. CASE WriterFails
    BY <1>5 DEF WriterFails, TypeOK
<1>6. CASE PumpCheck \/ PushChunk \/ SendFinish
    BY <1>6 DEF PumpCheck, PushChunk, SendFinish
<1>7. CASE JoinRecorder
    BY <1>7 DEF JoinRecorder
<1>8. CASE StartRecord
    BY <1>8 DEF StartRecord, NoFile
<1>9. CASE Deliver \/ PlaybackThread \/ PumpStart \/ PumpPop \/ PumpDrained
           \/ PushPanics \/ DropPlay \/ JoinPlay \/ Settle
    BY <1>1, <1>9
    DEF Deliver, PlaybackThread, PlayRead, PlayPush, PlayStop, PumpStart,
        PumpPop, PumpDrained, PushPanics, DropPlay, JoinPlay, Settle
<1>10. CASE StopRecord \/ StopPlay \/ \E g \in Goal : TearDown(g)
    BY <1>1, <1>10 DEF StopRecord, StopPlay, TearDown
<1>11. CASE WriterTimeout \/ Idle \/ UNCHANGED vars
    BY <1>1, <1>11 DEF WriterTimeout, Idle, vars
<1> QED
    BY <1>2, <1>3, <1>4, <1>5, <1>6, <1>7, <1>8, <1>9, <1>10, <1>11
    DEF Next, WriterThread, Pump, CommandStart, CommandRest, Goal

(* No step leaves a thread behind. *)
LEMMA OwnerStep ==
    ASSUME IInv, [Next]_vars
    PROVE  OwnerInv'
<1> USE DEF OwnerInv, NoStrayThread, IInv
<1>1. CASE Deliver
    BY <1>1 DEF Deliver, engineVars, playVars, recordVars
<1>2. CASE PlayRead
    BY <1>2 DEF PlayRead, engineVars, recordVars
<1>3. CASE PlayPush
    BY <1>3 DEF PlayPush, engineVars, recordVars
<1>4. CASE PlayStop
    BY <1>4 DEF PlayStop, engineVars, recordVars
<1>5. CASE WriterThread \/ WriterFails
    <2>1. UNCHANGED <<engineVars, playVars>> /\ wpc \notin {"none", "end"}
        BY <1>5 DEF WriterThread, WriterTake, WriterWrite, WriterSeal,
                    WriterHeader, WriterFails
    <2> QED BY <2>1 DEF engineVars, playVars
<1>6. CASE PumpStart
    BY <1>6 DEF PumpStart, playVars, recordVars
<1>7. CASE PumpPop
    BY <1>7 DEF PumpPop, recordVars
<1>8. CASE PumpDrained
    BY <1>8 DEF PumpDrained, playVars, recordVars
<1>9. CASE PumpCheck
    BY <1>9 DEF PumpCheck, playVars
<1>10. CASE PushChunk
    BY <1>10 DEF PushChunk, playVars
<1>11. CASE PushPanics
    BY <1>11 DEF PushPanics
<1>12. CASE StartRecord
    BY <1>12 DEF StartRecord, Command, playVars
<1>13. CASE StopRecord \/ StopPlay \/ \E g \in Goal : TearDown(g)
    BY <1>13 DEF StopRecord, StopPlay, TearDown, Command, playVars, recordVars
<1>14. CASE DropPlay
    BY <1>14 DEF DropPlay, recordVars
<1>15. CASE JoinPlay
    BY <1>15 DEF JoinPlay, playVars, recordVars
<1>16. CASE SendFinish
    BY <1>16 DEF SendFinish, playVars
<1>17. CASE JoinRecorder
    BY <1>17 DEF JoinRecorder, playVars
<1>18. CASE Settle
    BY <1>18 DEF Settle, playVars, recordVars
<1>19. CASE WriterTimeout \/ Idle \/ UNCHANGED vars
    BY <1>19 DEF WriterTimeout, Idle, vars, engineVars, playVars, recordVars
<1> QED
    BY <1>1, <1>2, <1>3, <1>4, <1>5, <1>6, <1>7, <1>8, <1>9, <1>10, <1>11,
       <1>12, <1>13, <1>14, <1>15, <1>16, <1>17, <1>18, <1>19
    DEF Next, PlaybackThread, Pump, CommandStart, CommandRest, Goal

(* What the playback thread pushes and the engine pops stays in order. *)
LEMMA StreamStep ==
    ASSUME IInv, [Next]_vars
    PROVE  StreamInv'
<1> USE DEF StreamInv, IInv
<1>1. /\ pring \in Seq(Sample) /\ heard \in Nat /\ pnext \in Nat
      /\ pleft \in Nat /\ FileLen \in Nat /\ pnext <= FileLen + 1
    BY LenAssumption DEF TypeOK
<1>2. CASE UNCHANGED <<ppc, pring, pnext, pleft, heard>> /\ (playing' => playing)
    BY <1>2
<1>3. CASE PlayRead
    BY <1>1, <1>3 DEF PlayRead, engineVars
<1>4. CASE PlayPush
    <2>1. /\ pring' = Append(pring, pnext) /\ pnext' = pnext + 1
          /\ pleft' = pleft - 1 /\ ppc = "push" /\ heard' = heard
          /\ ppc' = IF pleft = 1 THEN "read" ELSE "push"
          /\ playing' = playing
        BY <1>4 DEF PlayPush, engineVars
    <2>2. ppc' = "push" => pleft' \in 1..(FileLen - pnext' + 1)
        BY <1>1, <2>1
    <2>3. ASSUME playing
          PROVE  /\ pnext' = heard' + Len(pring') + 1
                 /\ \A i \in 1..Len(pring') : pring'[i] = heard' + i
        BY <1>1, <2>1, <2>3
    <2> QED BY <2>1, <2>2, <2>3
<1>5. CASE PlayStop
    BY <1>5 DEF PlayStop, engineVars
<1>6. CASE PumpPop /\ playing
    <2>1. /\ pring # <<>> /\ pring' = Tail(pring) /\ heard' = heard + 1
          /\ UNCHANGED <<ppc, pnext, pleft, playing>>
        BY <1>6 DEF PumpPop
    <2>2. /\ pnext' = heard' + Len(pring') + 1
          /\ \A i \in 1..Len(pring') : pring'[i] = heard' + i
        BY <1>1, <1>6, <2>1
    <2> QED BY <2>1, <2>2
<1>7. CASE PumpPop /\ ~playing
    BY <1>7 DEF PumpPop
<1>8. CASE PumpCheck
    BY <1>8 DEF PumpCheck, playVars
<1>9. CASE Settle
    BY <1>9 DEF Settle, playVars
<1>10. CASE DropPlay
    BY <1>10 DEF DropPlay
<1>11. CASE PushPanics
    BY <1>11 DEF PushPanics
<1>12. CASE Deliver \/ WriterThread \/ WriterFails \/ WriterTimeout \/ Idle
              \/ UNCHANGED vars
    <2>1. UNCHANGED <<engineVars, playVars>>
        BY <1>12
        DEF Deliver, WriterThread, WriterTake, WriterWrite, WriterSeal,
            WriterHeader, WriterFails, WriterTimeout, Idle, vars
    <2> QED BY <1>2, <2>1 DEF engineVars, playVars
<1>13. CASE PumpStart \/ PumpDrained \/ PushChunk \/ JoinPlay \/ SendFinish
              \/ JoinRecorder
    BY <1>2, <1>13
    DEF PumpStart, PumpDrained, PushChunk, JoinPlay, SendFinish, JoinRecorder,
        playVars
<1>14. CASE CommandStart
    BY <1>2, <1>14
    DEF CommandStart, StartRecord, StopRecord, StopPlay, TearDown, playVars
<1> QED
    BY <1>3, <1>4, <1>5, <1>6, <1>7, <1>8, <1>9, <1>10, <1>11, <1>12, <1>13,
       <1>14
    DEF Next, PlaybackThread, Pump, CommandRest

(* The flags stay Boolean. *)
LEMMA FlagTypeStep ==
    ASSUME FlagType, [Next]_vars
    PROVE  FlagType'
<1> USE DEF FlagType
<1>1. CASE Deliver
    BY <1>1 DEF Deliver, engineVars, playVars, recordVars
<1>2. CASE PlayRead
    BY <1>2 DEF PlayRead, engineVars, recordVars
<1>3. CASE PlayPush \/ PlayStop
    BY <1>3 DEF PlayPush, PlayStop, engineVars, recordVars
<1>4. CASE WriterThread
    BY <1>4 DEF WriterThread, WriterTake, WriterWrite, WriterSeal, WriterHeader,
                engineVars, playVars
<1>5. CASE WriterFails
    BY <1>5 DEF WriterFails, engineVars, playVars
<1>6. CASE PumpStart
    BY <1>6 DEF PumpStart, playVars, recordVars
<1>7. CASE PumpPop
    BY <1>7 DEF PumpPop, recordVars
<1>8. CASE PumpDrained
    BY <1>8 DEF PumpDrained, playVars, recordVars
<1>9. CASE PumpCheck
    BY <1>9 DEF PumpCheck, playVars
<1>10. CASE PushChunk
    BY <1>10 DEF PushChunk, playVars
<1>11. CASE PushPanics
    BY <1>11 DEF PushPanics, recordVars
<1>12. CASE StartRecord
    BY <1>12 DEF StartRecord, playVars
<1>13. CASE StopRecord \/ StopPlay
    BY <1>13 DEF StopRecord, StopPlay, playVars, recordVars
<1>14. CASE \E g \in {"connect", "play", "off", "quit"} : TearDown(g)
    BY <1>14 DEF TearDown, playVars, recordVars
<1>15. CASE DropPlay
    BY <1>15 DEF DropPlay, recordVars
<1>16. CASE JoinPlay
    BY <1>16 DEF JoinPlay, playVars, recordVars
<1>17. CASE SendFinish
    BY <1>17 DEF SendFinish, playVars
<1>18. CASE JoinRecorder
    BY <1>18 DEF JoinRecorder, playVars
<1>19. CASE Settle
    BY <1>19 DEF Settle, playVars, recordVars
<1>20. CASE WriterTimeout \/ Idle \/ UNCHANGED vars
    BY <1>20 DEF WriterTimeout, Idle, vars, engineVars, playVars, recordVars
<1> QED
    BY <1>1, <1>2, <1>3, <1>4, <1>5, <1>6, <1>7, <1>8, <1>9, <1>10, <1>11,
       <1>12, <1>13, <1>14, <1>15, <1>16, <1>17, <1>18, <1>19, <1>20
    DEF Next, PlaybackThread, Pump, CommandStart, CommandRest

(* A pump takes no more than its fill. *)
LEMMA EngineTypeStep ==
    ASSUME IInv, [Next]_vars
    PROVE  EngineType'
<1> USE CapAssumption, BoundAssumption DEF EngineType
<1>0. EngineType /\ DeviceType /\ PlayType
    BY TypeParts DEF IInv
<1>1. CASE UNCHANGED engineVars
    BY <1>0, <1>1 DEF engineVars
<1>2. CASE Deliver \/ PlaybackThread \/ WriterThread \/ WriterFails
           \/ WriterTimeout \/ Idle \/ UNCHANGED vars
    BY <1>1, <1>2
    DEF Deliver, PlaybackThread, PlayRead, PlayPush, PlayStop, WriterThread,
        WriterTake, WriterWrite, WriterSeal, WriterHeader, WriterFails,
        WriterTimeout, Idle, vars
<1>3. CASE PumpStart
    BY <1>0, <1>3, Nothing DEF PumpStart
<1>4. CASE PumpPop
    <2>1. \E x \in Sample : drain' = Append(drain, x)
        <3>1. CASE playing
            BY <1>0, <1>4, <3>1, HeadTailProperties DEF PumpPop, PlayType
        <3>2. CASE ~playing
            BY <1>0, <1>4, <3>2, HeadTailProperties DEF PumpPop, DeviceType
        <3> QED BY <3>1, <3>2
    <2>2. drain' \in Seq(Sample) /\ Len(drain') = Len(drain) + 1
        BY <1>0, <2>1, AppendProperties
    <2> QED BY <1>0, <1>4, <2>2 DEF PumpPop
<1>5. CASE PumpDrained
    BY <1>0, <1>5 DEF PumpDrained
<1>6. CASE PumpCheck
    <2>1. drain' \in {drain, <<>>}
        BY <1>6 DEF PumpCheck
    <2>2. CASE drain' = drain
        BY <1>0, <1>6, <2>2 DEF PumpCheck
    <2>3. CASE drain' = <<>>
        BY <1>0, <1>6, <2>3, Nothing DEF PumpCheck
    <2> QED BY <2>1, <2>2, <2>3
<1>7. CASE PushChunk
    BY <1>0, <1>7, Nothing DEF PushChunk
<1>12. CASE PushPanics
    BY <1>0, <1>12 DEF PushPanics
<1>8. CASE \E g \in Goal : Command(g) /\ epc' \in {epc, "stopRec", "dropPlay"}
    BY <1>0, <1>8 DEF Command
<1>9. CASE CommandStart
    BY <1>8, <1>9
    DEF CommandStart, StartRecord, StopRecord, StopPlay, TearDown, Goal
<1>10. CASE DropPlay \/ JoinPlay \/ SendFinish \/ JoinRecorder
    BY <1>0, <1>10 DEF DropPlay, JoinPlay, SendFinish, JoinRecorder
<1>11. CASE Settle
    BY <1>0, <1>11 DEF Settle, Goal
<1> QED
    BY <1>2, <1>3, <1>4, <1>5, <1>6, <1>7, <1>9, <1>10, <1>11, <1>12
    DEF Next, Pump, CommandRest

(* The device's ring never holds more than its capacity. *)
LEMMA DeviceTypeStep ==
    ASSUME IInv, [Next]_vars
    PROVE  DeviceType'
<1> USE CapAssumption, BoundAssumption DEF DeviceType
<1>0. DeviceType
    BY TypeParts DEF IInv
<1>1. CASE UNCHANGED deviceVars
    BY <1>0, <1>1 DEF deviceVars
<1>2. CASE Deliver
    <2>1. produced' \in 1..MaxSample /\ produced' \in Sample
        BY <1>0, <1>2 DEF Deliver, Sample
    <2>2. Append(ring, produced') \in Seq(Sample)
          /\ Len(Append(ring, produced')) = Len(ring) + 1
        BY <1>0, <2>1, AppendProperties
    <2>3. CASE Len(ring) < RingCap
        <3>1. ring' = Append(ring, produced') /\ overflow' = overflow
            BY <1>2, <2>3 DEF Deliver
        <3>2. ring' \in Seq(Sample) /\ Len(ring') = Len(ring) + 1
            BY <2>2, <3>1
        <3> QED BY <1>0, <2>1, <2>3, <3>1, <3>2
    <2>4. CASE ~(Len(ring) < RingCap)
        <3>1. ring' = ring /\ overflow' = overflow \cup {produced'}
            BY <1>2, <2>4 DEF Deliver
        <3> QED BY <1>0, <2>1, <3>1
    <2> QED BY <2>3, <2>4
<1>3. CASE PumpStart
    <2>1. CASE ring' = ring
        BY <1>0, <1>3, <2>1 DEF PumpStart
    <2>2. CASE OverFilled /\ ring' = SubSeq(ring, Len(ring) - CatchupTarget + 1, Len(ring))
        <3>1. CatchupTarget \in Nat /\ CatchupTarget <= Len(ring)
            BY <1>0, <2>2 DEF OverFilled, CatchupTarget
        <3>2. \A i \in (Len(ring) - CatchupTarget + 1)..Len(ring) : ring[i] \in Sample
            BY <1>0, <3>1, ElementOfSeq
        <3>3. ring' \in Seq(Sample) /\ Len(ring') <= RingCap
            BY <1>0, <2>2, <3>1, <3>2, SubSeqProperties
        <3> QED BY <1>0, <1>3, <3>3 DEF PumpStart
    <2> QED BY <1>3, <2>1, <2>2 DEF PumpStart
<1>4. CASE PumpPop
    <2>1. CASE playing
        BY <1>0, <1>4, <2>1 DEF PumpPop
    <2>2. CASE ~playing
        <3>1. ring # <<>> /\ ring' = Tail(ring)
            BY <1>4, <2>2 DEF PumpPop
        <3>2. ring' \in Seq(Sample) /\ Len(ring') = Len(ring) - 1
            BY <1>0, <3>1, HeadTailProperties
        <3> QED BY <1>0, <1>4, <3>2 DEF PumpPop
    <2> QED BY <2>1, <2>2
<1>5. CASE PushPanics
    BY <1>0, <1>5, Nothing DEF PushPanics
<1>6. CASE StartRecord \/ StopRecord \/ StopPlay
    BY <1>0, <1>6 DEF StartRecord, StopRecord, StopPlay, Command
<1>7. CASE \E g \in {"connect", "play", "off", "quit"} : TearDown(g)
    BY <1>0, <1>7, Nothing DEF TearDown, Command
<1>8. CASE PlaybackThread \/ WriterThread \/ WriterFails \/ WriterTimeout
           \/ Idle \/ UNCHANGED vars
    BY <1>1, <1>8
    DEF PlaybackThread, PlayRead, PlayPush, PlayStop, WriterThread, WriterTake,
        WriterWrite, WriterSeal, WriterHeader, WriterFails, WriterTimeout, Idle,
        vars
<1>9. CASE PumpDrained \/ PumpCheck \/ PushChunk \/ CommandRest
    BY <1>1, <1>9
    DEF PumpDrained, PumpCheck, PushChunk, CommandRest, DropPlay, JoinPlay,
        SendFinish, JoinRecorder, Settle
<1> QED
    BY <1>2, <1>3, <1>4, <1>5, <1>6, <1>7, <1>8, <1>9
    DEF Next, Pump, CommandStart

(* The playback ring never holds more than its capacity, and neither end   *)
(* of a playback leaves the file.                                          *)
LEMMA PlayTypeStep ==
    ASSUME IInv, [Next]_vars
    PROVE  PlayType'
<1> USE CapAssumption, LenAssumption DEF PlayType
<1>0. PlayType /\ StreamInv
    BY TypeParts DEF IInv
<1>1. CASE UNCHANGED <<ppc, pring, pnext, pleft, heard>>
    BY <1>0, <1>1
<1>2. CASE PlayRead
    BY <1>0, <1>2 DEF PlayRead
<1>3. CASE PlayPush
    <2>1. pleft \in 1..(FileLen - pnext + 1)
        BY <1>0, <1>3 DEF PlayPush, StreamInv
    <2>2. pnext \in Sample /\ pnext' \in 1..(FileLen + 1) /\ pleft' \in 0..FileLen
        BY <1>0, <1>3, <2>1 DEF PlayPush, Sample
    <2>3. pring' \in Seq(Sample) /\ Len(pring') <= PlayRingCap
        BY <1>0, <1>3, <2>2, AppendProperties DEF PlayPush
    <2> QED BY <1>0, <1>3, <2>2, <2>3 DEF PlayPush
<1>4. CASE PlayStop
    BY <1>0, <1>4 DEF PlayStop
<1>5. CASE PumpPop /\ playing
    <2>1. pring # <<>> /\ pring' = Tail(pring) /\ heard' = heard + 1
          /\ UNCHANGED <<ppc, pnext, pleft>>
        BY <1>5 DEF PumpPop
    <2>2. pring' \in Seq(Sample) /\ Len(pring') = Len(pring) - 1
          /\ Len(pring) \in Nat \ {0}
        BY <1>0, <2>1, HeadTailProperties, EmptySeq
    <2>3. pnext = heard + Len(pring) + 1
        BY <1>0, <1>5 DEF StreamInv
    <2> QED BY <1>0, <2>1, <2>2, <2>3
<1>6. CASE Settle
    <2>1. CASE goal = "play"
        BY <1>0, <1>6, <2>1, Nothing DEF Settle
    <2>2. CASE goal # "play"
        BY <1>1, <1>6, <2>2 DEF Settle, playVars
    <2> QED BY <2>1, <2>2
<1>7. CASE \/ Deliver \/ WriterThread \/ WriterFails \/ WriterTimeout \/ Idle
           \/ UNCHANGED vars
    BY <1>1, <1>7
    DEF Deliver, WriterThread, WriterTake, WriterWrite, WriterSeal,
        WriterHeader, WriterFails, WriterTimeout, Idle, vars, playVars
<1>8. CASE \/ PumpStart \/ (PumpPop /\ ~playing) \/ PumpDrained
           \/ PumpCheck \/ PushChunk \/ PushPanics
    BY <1>1, <1>8
    DEF PumpStart, PumpPop, PumpDrained, PumpCheck, PushChunk, PushPanics,
        playVars
<1>9. CASE \/ CommandStart \/ DropPlay \/ JoinPlay \/ SendFinish \/ JoinRecorder
    BY <1>1, <1>9
    DEF CommandStart, StartRecord, StopRecord, StopPlay, TearDown, DropPlay,
        JoinPlay, SendFinish, JoinRecorder, playVars
<1> QED
    BY <1>2, <1>3, <1>4, <1>5, <1>6, <1>7, <1>8, <1>9
    DEF Next, PlaybackThread, Pump, CommandRest

(* The recorder's channel never holds more than its capacity. *)
LEMMA RecordTypeStep ==
    ASSUME IInv, [Next]_vars
    PROVE  RecordType'
<1> USE CapAssumption DEF RecordType
<1>0. RecordType /\ EngineType
    BY TypeParts DEF IInv
<1>1. CASE UNCHANGED <<wpc, chan, wchunk, file, taken>>
    BY <1>0, <1>1
<1>2. CASE WriterTake
    <2>1. /\ Head(chan) \in RecMsg /\ Tail(chan) \in Seq(RecMsg)
          /\ Len(Tail(chan)) = Len(chan) - 1
        BY <1>0, <1>2, HeadTailProperties DEF WriterTake
    <2>2. Head(chan).chunk \in Seq(Sample)
        BY <2>1 DEF RecMsg
    <2> QED BY <1>0, <1>2, <2>1, <2>2 DEF WriterTake
<1>3. CASE WriterWrite
    <2>1. file.data \o wchunk \in Seq(Sample)
        BY <1>0, ConcatProperties
    <2> QED BY <1>0, <1>3, <2>1 DEF WriterWrite
<1>4. CASE WriterSeal \/ WriterHeader
    <2>1. Len(file.data) \in Nat
        BY <1>0, LenProperties
    <2> QED BY <1>0, <1>4, <2>1 DEF WriterSeal, WriterHeader
<1>5. CASE WriterFails
    <2>1. ASSUME NEW n \in 0..Len(wchunk)
          PROVE  file.data \o SubSeq(wchunk, 1, n) \in Seq(Sample)
        <3>1. \A i \in 1..n : wchunk[i] \in Sample
            BY <1>0, <2>1, ElementOfSeq
        <3>2. SubSeq(wchunk, 1, n) \in Seq(Sample)
            BY <1>0, <2>1, <3>1, SubSeqProperties
        <3> QED BY <1>0, <3>2, ConcatProperties
    <2>2. file' \in [header : Nat, data : Seq(Sample), sealed : BOOLEAN]
        <3>1. CASE wpc = "write"
            <4>1. PICK n \in 0..Len(wchunk), closed \in BOOLEAN :
                    file' = [file EXCEPT !.data = @ \o SubSeq(wchunk, 1, n),
                                         !.sealed = closed]
                BY <1>5, <3>1 DEF WriterFails
            <4> QED BY <1>0, <4>1, <2>1
        <3>2. CASE wpc # "write"
            <4>1. Len(file.data) \in Nat
                BY <1>0, LenProperties
            <4> QED BY <1>0, <1>5, <3>2, <4>1 DEF WriterFails
        <3> QED BY <3>1, <3>2
    <2>3. UNCHANGED <<wchunk, taken>> /\ chan' = <<>> /\ wpc' = "end"
        BY <1>5 DEF WriterFails
    <2> QED BY <1>0, <2>2, <2>3, Nothing
<1>6. CASE PumpCheck
    <2>1. taken \o drain \in Seq(Sample)
        BY <1>0, ConcatProperties DEF EngineType
    <2> QED BY <1>0, <1>6, <2>1 DEF PumpCheck
<1>7. CASE PushChunk
    <2>1. Chunk(drain) \in RecMsg
        BY <1>0 DEF Chunk, RecMsg, EngineType
    <2>2. chan' \in Seq(RecMsg) /\ Len(chan') <= ChanCap
        BY <1>0, <1>7, <2>1, AppendProperties DEF PushChunk
    <2> QED BY <1>0, <1>7, <2>2 DEF PushChunk
<1>8. CASE StartRecord
    BY <1>0, <1>8, Nothing DEF StartRecord
<1>9. CASE SendFinish
    <2>1. Finish \in RecMsg
        BY Nothing DEF Finish, RecMsg
    <2>2. chan' \in Seq(RecMsg) /\ Len(chan') <= ChanCap
        <3>1. CASE rec /\ wpc # "end"
            <4>1. chan' = Append(chan, Finish) /\ Len(chan) < ChanCap
                BY <1>9, <3>1 DEF SendFinish
            <4> QED BY <1>0, <2>1, <4>1, AppendProperties
        <3>2. CASE ~(rec /\ wpc # "end")
            BY <1>0, <1>9, <3>2 DEF SendFinish
        <3> QED BY <3>1, <3>2
    <2> QED BY <1>0, <1>9, <2>2 DEF SendFinish
<1>10. CASE JoinRecorder
    BY <1>1, <1>10 DEF JoinRecorder
<1>11. CASE UNCHANGED recordVars
    BY <1>1, <1>11 DEF recordVars
<1>12. CASE \/ Deliver \/ PlaybackThread \/ PumpStart \/ PumpPop \/ PumpDrained
            \/ PushPanics \/ StopRecord \/ StopPlay
            \/ \E g \in {"connect", "play", "off", "quit"} : TearDown(g)
    BY <1>11, <1>12
    DEF Deliver, PlaybackThread, PlayRead, PlayPush, PlayStop, PumpStart,
        PumpPop, PumpDrained, PushPanics, StopRecord, StopPlay, TearDown
<1>13. CASE \/ DropPlay \/ JoinPlay \/ Settle \/ WriterTimeout \/ Idle
            \/ UNCHANGED vars
    BY <1>11, <1>13
    DEF DropPlay, JoinPlay, Settle, WriterTimeout, Idle, vars
<1> QED
    BY <1>2, <1>3, <1>4, <1>5, <1>6, <1>7, <1>8, <1>9, <1>10, <1>12, <1>13
    DEF Next, WriterThread, Pump, CommandStart, CommandRest

(* Every variable keeps its range. *)
LEMMA TypeStep ==
    ASSUME IInv, [Next]_vars
    PROVE  TypeOK'
<1>1. FlagType
    BY TypeParts DEF IInv
<1>2. FlagType' /\ EngineType' /\ DeviceType' /\ PlayType' /\ RecordType'
    BY <1>1, FlagTypeStep, EngineTypeStep, DeviceTypeStep, PlayTypeStep,
       RecordTypeStep
<1> QED
    BY <1>2
    DEF TypeOK, FlagType, EngineType, DeviceType, PlayType, RecordType

-----------------------------------------------------------------------------
(* The inductive invariant holds in every reachable state: types, and that *)
(* the header comes last, that a finished playback has no thread, and that *)
(* the playback ring is the part of the file between its two ends.         *)
THEOREM AlwaysIInv == Spec => []IInv
<1>1. IInv /\ [Next]_vars => IInv'
    BY TypeStep, HeaderStep, OwnerStep, StreamStep DEF IInv
<1> QED BY InitIInv, <1>1, PTL DEF Spec

(* Types: above all, the rings, the channel and a pump keep their bounds.  *)
THEOREM TypeCorrect == Spec => []TypeOK
<1>1. IInv => TypeOK
    BY DEF IInv
<1> QED BY AlwaysIInv, <1>1, PTL

(* Whatever moment a crash or a disk error cuts the recording off at, a    *)
(* header that counts samples tells the truth about the file.              *)
THEOREM HeaderNeverLies == Spec => []HeaderHonest
<1>1. IInv => HeaderHonest
    BY DEF IInv, HeaderInv
<1> QED BY AlwaysIInv, <1>1, PTL

(* Neither file thread is left running by any sequence of commands.        *)
THEOREM ThreadsAreOwned == Spec => []NoStrayThread
<1>1. IInv => NoStrayThread
    BY DEF IInv, OwnerInv
<1> QED BY AlwaysIInv, <1>1, PTL

(* What the engine drains of a playback is the file, without a gap.        *)
THEOREM PlaybackInOrder == Spec => []PlaybackGapless
<1>1. IInv => PlaybackGapless
    <2> SUFFICES ASSUME IInv, playing, pring # <<>>
                 PROVE  Head(pring) = heard + 1
        BY DEF PlaybackGapless
    <2>1. 1 \in 1..Len(pring) /\ Head(pring) = pring[1]
        BY EmptySeq, HeadTailProperties DEF IInv, TypeOK
    <2> QED BY <2>1 DEF IInv, StreamInv
<1> QED BY AlwaysIInv, <1>1, PTL
-----------------------------------------------------------------------------
(* The recordings: what is drained while recording reaches the file, and   *)
(* what is drained has no gaps.                                            *)

(* Every sample reaches the file. *)

(* s is the part of what was drained that follows place `from'. *)
Part(s, from) ==
    /\ from + Len(s) <= Len(taken)
    /\ \A i \in 1..Len(s) : s[i] = taken[from + i]

Written == IF wpc = "write" THEN Len(file.data) + Len(wchunk) ELSE Len(file.data)
Waiting == IF epc = "push" THEN Len(drain) ELSE 0

(* cut[k] is the place where the k-th chunk in the channel ends. *)
Queued(cut) ==
    /\ cut \in [0..Len(chan) -> Nat]
    /\ cut[0] = Written
    /\ \A k \in 1..Len(chan) :
          cut[k] = cut[k - 1] + Len(chan[k].chunk) /\ Part(chan[k].chunk, cut[k - 1])
    /\ cut[Len(chan)] + Waiting = Len(taken)

(* The file, the chunk being written, the channel and the engine hold, in  *)
(* this order, what was drained; Finish is the last in the channel.        *)
CompleteInv ==
    rec /\ ~werror =>
        /\ wpc # "none"
        /\ \E cut : Queued(cut)
        /\ Part(file.data, 0)
        /\ wpc = "write" => Part(wchunk, Len(file.data))
        /\ epc = "push" => Part(drain, Len(taken) - Len(drain))
        /\ \A k \in 1..Len(chan) :
              chan[k].finish => k = Len(chan) /\ epc = "joinRec" /\ chan[k].chunk = <<>>
        /\ wpc \in {"seal", "header", "end"} => chan = <<>> /\ epc = "joinRec"
        /\ wpc = "end" => file.header = Len(file.data)

SavedInv ==
    /\ epc \in {"push", "joinRec"} => rec
    /\ saved => ~rec /\ wpc = "end" /\ file.data = taken /\ file.header = Len(taken)

RecordInv == IInv /\ CompleteInv /\ SavedInv

LEMMA InitRecord == Init => RecordInv
<1>1. Init => IInv
    BY InitIInv
<1>2. Init => CompleteInv /\ SavedInv
    BY DEF Init, CompleteInv, SavedInv
<1> QED BY <1>1, <1>2 DEF RecordInv

(* The types used below. *)
LEMMA RecordTypes ==
    ASSUME IInv
    PROVE  /\ drain \in Seq(Sample) /\ wchunk \in Seq(Sample) /\ taken \in Seq(Sample)
           /\ file.data \in Seq(Sample)
           /\ file \in [header : Nat, data : Seq(Sample), sealed : BOOLEAN]
           /\ chan \in Seq(RecMsg)
           /\ \A k \in 1..Len(chan) : chan[k] \in RecMsg /\ chan[k].chunk \in Seq(Sample)
           /\ wpc \in {"none", "recv", "write", "seal", "header", "end"}
<1>1. chan \in Seq(RecMsg) /\ file \in [header : Nat, data : Seq(Sample), sealed : BOOLEAN]
    BY DEF IInv, TypeOK
<1>2. \A k \in 1..Len(chan) : chan[k] \in RecMsg
    BY <1>1, ElementOfSeq
<1> QED BY <1>1, <1>2 DEF IInv, TypeOK, RecMsg

(* A step that moves nothing of a recording. *)
LEMMA Untouched ==
    ASSUME CompleteInv,
           rec' => rec,
           UNCHANGED <<wpc, chan, wchunk, werror, file, taken>>,
           epc' = "push" <=> epc = "push",
           epc = "push" => drain' = drain,
           epc = "joinRec" => epc' = "joinRec"
    PROVE  CompleteInv'
<1>1. \A cut : Queued(cut) => Queued(cut)'
    BY DEF Queued, Written, Waiting, Part
<1> QED BY <1>1 DEF CompleteInv, Part

(* The writer takes the first chunk of the channel. *)
LEMMA TakeStep ==
    ASSUME RecordInv, WriterTake
    PROVE  CompleteInv'
<1> SUFFICES ASSUME rec, ~werror
             PROVE  CompleteInv'
    BY DEF CompleteInv, WriterTake, engineVars
<1>0. /\ UNCHANGED <<rec, epc, drain, werror, file, taken>>
      /\ wpc = "recv" /\ chan # <<>> /\ chan' = Tail(chan) /\ wchunk' = Head(chan).chunk
      /\ wpc' = IF Head(chan).finish THEN "seal" ELSE "write"
    BY DEF WriterTake, engineVars
<1>1. PICK cut : Queued(cut)
    BY DEF RecordInv, CompleteInv
<1>2. /\ chan \in Seq(RecMsg) /\ Len(chan) \in Nat \ {0} /\ Head(chan) = chan[1]
      /\ chan' \in Seq(RecMsg) /\ Len(chan') = Len(chan) - 1
      /\ \A k \in 1..Len(chan') : chan'[k] = chan[k + 1]
      /\ wchunk' = chan[1].chunk /\ wchunk' \in Seq(Sample) /\ Len(wchunk') \in Nat
      /\ file.data \in Seq(Sample) /\ Len(file.data) \in Nat
    BY <1>0, RecordTypes, HeadTailProperties, EmptySeq DEF RecordInv
<1>3. /\ cut \in [0..Len(chan) -> Nat] /\ cut[0] = Len(file.data)
      /\ cut[1] = cut[0] + Len(chan[1].chunk) /\ Part(chan[1].chunk, cut[0])
      /\ cut[0] \in Nat /\ cut[1] \in Nat
    <2>1. cut \in [0..Len(chan) -> Nat] /\ cut[0] = Len(file.data)
        BY <1>0, <1>1 DEF Queued, Written
    <2>2. 1 \in 1..Len(chan) /\ 1 - 1 = 0
        BY <1>2
    <2>3. cut[1] = cut[1 - 1] + Len(chan[1].chunk) /\ Part(chan[1].chunk, cut[1 - 1])
        BY <1>1, <2>2 DEF Queued
    <2>4. Len(chan) \in Nat \ {0}
        BY <1>2
    <2>5. cut[0] \in Nat /\ cut[1] \in Nat
        BY <2>1, <2>4
    <2> QED BY <2>1, <2>2, <2>3, <2>5
<1>4. Head(chan).finish => Len(chan) = 1 /\ epc = "joinRec" /\ wchunk' = <<>>
    BY <1>2 DEF RecordInv, CompleteInv
<1>5. \E c : Queued(c)'
    <2>1. PICK c : c = [k \in 0..Len(chan') |-> cut[k + 1]]
        OBVIOUS
    <2>2. c \in [0..Len(chan') -> Nat] /\ \A k \in 0..Len(chan') : c[k] = cut[k + 1]
        BY <1>2, <1>3, <2>1
    <2>3. c[0] = Written'
        <3>1. c[0] = Len(file.data) + Len(wchunk')
            <4>1. 0 \in 0..Len(chan') /\ 0 + 1 = 1
                BY <1>2
            <4> QED BY <1>2, <1>3, <2>2, <4>1
        <3>2. CASE Head(chan).finish
            <4>1. Len(wchunk') = 0 /\ wpc' = "seal" /\ file' = file
                BY <1>0, <1>4, <3>2
            <4>2. Len(file.data) \in Nat
                BY <1>2
            <4> QED BY <3>1, <4>1, <4>2 DEF Written
        <3>3. CASE ~Head(chan).finish
            <4>1. wpc' = "write"
                BY <1>0, <3>3
            <4> QED BY <1>0, <3>1, <4>1 DEF Written
        <3> QED BY <3>2, <3>3
    <2>4. ASSUME NEW k \in 1..Len(chan')
          PROVE  c[k] = c[k - 1] + Len(chan'[k].chunk) /\ Part(chan[k].chunk, c[k - 1])'
        <3>1. k + 1 \in 1..Len(chan) /\ c[k] = cut[k + 1] /\ c[k - 1] = cut[k]
              /\ chan'[k] = chan[k + 1]
            BY <1>2, <2>2
        <3>2. cut[k + 1] = cut[(k + 1) - 1] + Len(chan[k + 1].chunk)
              /\ Part(chan[k + 1].chunk, cut[(k + 1) - 1])
            BY <1>1, <3>1 DEF Queued
        <3>3. (k + 1) - 1 = k
            BY <1>2
        <3> QED BY <1>0, <3>1, <3>2, <3>3 DEF Part
    <2>5. c[Len(chan')] + Waiting' = Len(taken')
        <3>1. c[Len(chan')] = cut[Len(chan)] /\ Waiting' = Waiting
            BY <1>0, <1>2, <2>2 DEF Waiting
        <3> QED BY <1>0, <1>1, <3>1 DEF Queued
    <2> QED BY <2>2, <2>3, <2>4, <2>5 DEF Queued
<1>6. \A k \in 1..Len(chan') :
        chan'[k].finish => k = Len(chan') /\ epc' = "joinRec" /\ chan'[k].chunk = <<>>
    <2> SUFFICES ASSUME NEW k \in 1..Len(chan'), chan'[k].finish
                 PROVE  k = Len(chan') /\ epc' = "joinRec" /\ chan'[k].chunk = <<>>
        OBVIOUS
    <2>1. k + 1 \in 1..Len(chan) /\ chan'[k] = chan[k + 1]
        BY <1>2
    <2>2. k + 1 = Len(chan) /\ epc = "joinRec" /\ chan[k + 1].chunk = <<>>
        BY <2>1 DEF RecordInv, CompleteInv
    <2>3. Len(chan') = Len(chan) - 1 /\ Len(chan) \in Nat /\ epc' = epc
        BY <1>0, <1>2
    <2> QED BY <2>1, <2>2, <2>3
<1>7. wpc' \in {"seal", "header", "end"} => chan' = <<>> /\ epc' = "joinRec"
    BY <1>0, <1>2, <1>4, EmptySeq
<1>8. Part(file.data, 0)' /\ Part(wchunk, Len(file.data))'
    <2>1. Part(file.data, 0) /\ Part(chan[1].chunk, Len(file.data))
        BY <1>3 DEF RecordInv, CompleteInv
    <2> QED BY <1>0, <1>2, <2>1 DEF Part
<1>9. epc' = "push" => Part(drain, Len(taken) - Len(drain))'
    BY <1>0 DEF RecordInv, CompleteInv, Part
<1> QED BY <1>0, <1>5, <1>6, <1>7, <1>8, <1>9 DEF CompleteInv

(* The writer appends its chunk to the file. *)
LEMMA WriteStep ==
    ASSUME RecordInv, WriterWrite
    PROVE  CompleteInv'
<1> SUFFICES ASSUME rec, ~werror
             PROVE  CompleteInv'
    BY DEF CompleteInv, WriterWrite, engineVars
<1>0. /\ UNCHANGED <<rec, epc, drain, werror, chan, wchunk, taken>>
      /\ wpc = "write" /\ wpc' = "recv" /\ file' = [file EXCEPT !.data = @ \o wchunk]
    BY DEF WriterWrite, engineVars
<1>1. /\ file.data \in Seq(Sample) /\ Len(file.data) \in Nat
      /\ wchunk \in Seq(Sample) /\ Len(wchunk) \in Nat
    BY RecordTypes DEF RecordInv
<1>2. file'.data = file.data \o wchunk
    BY <1>0, RecordTypes DEF RecordInv
<1>3. /\ Len(file'.data) = Len(file.data) + Len(wchunk)
      /\ \A i \in 1..Len(file.data) : file'.data[i] = file.data[i]
      /\ \A i \in 1..Len(wchunk) : file'.data[Len(file.data) + i] = wchunk[i]
    BY <1>1, <1>2
<1>4. Part(file.data, 0) /\ Part(wchunk, Len(file.data))
    BY <1>0 DEF RecordInv, CompleteInv
<1>5. Part(file.data, 0)'
    <2>1. 0 + Len(file'.data) <= Len(taken)
        BY <1>1, <1>3, <1>4 DEF Part
    <2>2. ASSUME NEW i \in 1..Len(file'.data)
          PROVE  file'.data[i] = taken[0 + i]
        <3>1. CASE i \in 1..Len(file.data)
            BY <1>3, <1>4, <3>1 DEF Part
        <3>2. CASE i \notin 1..Len(file.data)
            <4>1. i - Len(file.data) \in 1..Len(wchunk)
                  /\ Len(file.data) + (i - Len(file.data)) = i /\ 0 + i = i
                BY <1>1, <1>3, <3>2
            <4>2. /\ file'.data[i] = wchunk[i - Len(file.data)]
                  /\ wchunk[i - Len(file.data)] = taken[i]
                BY <1>3, <1>4, <4>1 DEF Part
            <4> QED BY <4>1, <4>2
        <3> QED BY <3>1, <3>2
    <2> QED BY <1>0, <2>1, <2>2 DEF Part
<1>6. \E cut : Queued(cut)'
    <2>1. PICK cut : Queued(cut)
        BY DEF RecordInv, CompleteInv
    <2>2. Written' = Written /\ Waiting' = Waiting
        BY <1>0, <1>3 DEF Written, Waiting
    <2> QED BY <1>0, <2>1, <2>2 DEF Queued, Part
<1>7. /\ epc' = "push" => Part(drain, Len(taken) - Len(drain))'
      /\ \A k \in 1..Len(chan') :
            chan'[k].finish => k = Len(chan') /\ epc' = "joinRec" /\ chan'[k].chunk = <<>>
    BY <1>0 DEF RecordInv, CompleteInv, Part
<1> QED BY <1>0, <1>5, <1>6, <1>7 DEF CompleteInv

(* What the engine sends goes to the end of the channel. *)
LEMMA SendStep ==
    ASSUME RecordInv, rec, ~werror, epc # "joinRec",
           NEW msg \in RecMsg, chan' = Append(chan, msg),
           UNCHANGED <<rec, wpc, wchunk, werror, file, taken>>,
           epc' # "push",
           Len(msg.chunk) = Waiting,
           epc = "push" => msg.chunk = drain,
           msg.finish => epc' = "joinRec" /\ msg.chunk = <<>>
    PROVE  CompleteInv'
<1>1. PICK cut : Queued(cut)
    BY DEF RecordInv, CompleteInv
<1>2. /\ chan \in Seq(RecMsg) /\ Len(chan) \in Nat
      /\ Len(chan') = Len(chan) + 1
      /\ \A k \in 1..Len(chan) : chan'[k] = chan[k]
      /\ chan'[Len(chan) + 1] = msg
      /\ msg.chunk \in Seq(Sample) /\ Len(msg.chunk) \in Nat
    BY RecordTypes DEF RecordInv, RecMsg
<1>3. cut \in [0..Len(chan) -> Nat] /\ cut[0] = Written
    BY <1>1 DEF Queued
<1>4. cut[Len(chan)] \in Nat /\ cut[Len(chan)] + Len(msg.chunk) = Len(taken)
    BY <1>1, <1>2, <1>3 DEF Queued
<1>5. Part(msg.chunk, cut[Len(chan)])
    <2>1. CASE epc = "push"
        <3>1. Part(drain, Len(taken) - Len(drain)) /\ msg.chunk = drain
            BY <2>1 DEF RecordInv, CompleteInv
        <3>2. Len(taken) - Len(drain) = cut[Len(chan)]
            BY <1>2, <1>4, <3>1
        <3> QED BY <3>1, <3>2
    <2>2. CASE epc # "push"
        <3>1. Len(msg.chunk) = 0
            BY <2>2 DEF Waiting
        <3> QED BY <1>4, <3>1 DEF Part
    <2> QED BY <2>1, <2>2
<1>6. \E c : Queued(c)'
    <2>1. PICK c : c = [k \in 0..Len(chan') |->
                          IF k <= Len(chan) THEN cut[k] ELSE Len(taken)]
        OBVIOUS
    <2>2. Len(taken) \in Nat
        BY RecordTypes DEF RecordInv
    <2>3. /\ c \in [0..Len(chan') -> Nat]
          /\ \A k \in 0..Len(chan) : c[k] = cut[k]
          /\ c[Len(chan) + 1] = Len(taken)
        BY <1>2, <1>3, <2>1, <2>2
    <2>4. c[0] = Written'
        BY <1>2, <1>3, <2>3 DEF Written
    <2>5. ASSUME NEW k \in 1..Len(chan')
          PROVE  c[k] = c[k - 1] + Len(chan'[k].chunk) /\ Part(chan[k].chunk, c[k - 1])'
        <3>1. CASE k \in 1..Len(chan)
            <4>1. cut[k] = cut[k - 1] + Len(chan[k].chunk) /\ Part(chan[k].chunk, cut[k - 1])
                BY <1>1, <3>1 DEF Queued
            <4>2. c[k] = cut[k] /\ c[k - 1] = cut[k - 1] /\ chan'[k] = chan[k]
                BY <1>2, <2>3, <3>1
            <4> QED BY <4>1, <4>2 DEF Part
        <3>2. CASE k \notin 1..Len(chan)
            <4>1. k = Len(chan) + 1 /\ k - 1 = Len(chan)
                BY <1>2, <3>2
            <4>2. chan'[k] = msg /\ c[k - 1] = cut[Len(chan)] /\ c[k] = Len(taken)
                BY <1>2, <2>3, <4>1
            <4> QED BY <1>4, <1>5, <4>2 DEF Part
        <3> QED BY <3>1, <3>2
    <2>6. c[Len(chan')] + Waiting' = Len(taken')
        BY <1>2, <2>2, <2>3 DEF Waiting
    <2> QED BY <2>3, <2>4, <2>5, <2>6 DEF Queued
<1>7. \A k \in 1..Len(chan') :
        chan'[k].finish => k = Len(chan') /\ epc' = "joinRec" /\ chan'[k].chunk = <<>>
    <2> SUFFICES ASSUME NEW k \in 1..Len(chan'), chan'[k].finish
                 PROVE  k = Len(chan') /\ epc' = "joinRec" /\ chan'[k].chunk = <<>>
        OBVIOUS
    <2>1. k \notin 1..Len(chan)
        BY <1>2 DEF RecordInv, CompleteInv
    <2>2. k = Len(chan) + 1
        BY <1>2, <2>1
    <2> QED BY <1>2, <2>2
<1>8. wpc' \notin {"none", "seal", "header", "end"}
    BY DEF RecordInv, CompleteInv
<1>9. Part(file.data, 0)' /\ (wpc' = "write" => Part(wchunk, Len(file.data))')
    BY DEF RecordInv, CompleteInv, Part
<1> QED BY <1>6, <1>7, <1>8, <1>9 DEF CompleteInv

(* What a pump has drained is now to be recorded. *)
LEMMA CheckStep ==
    ASSUME RecordInv, PumpCheck
    PROVE  CompleteInv'
<1> SUFFICES ASSUME rec, ~werror
             PROVE  CompleteInv'
    BY DEF CompleteInv, PumpCheck
<1>0. /\ UNCHANGED <<rec, drain, wpc, chan, wchunk, werror, file>>
      /\ epc = "check" /\ epc' = (IF drain # <<>> THEN "push" ELSE "loop")
      /\ taken' = taken \o drain
    BY DEF PumpCheck
<1>1. /\ taken \in Seq(Sample) /\ Len(taken) \in Nat
      /\ drain \in Seq(Sample) /\ Len(drain) \in Nat
    BY RecordTypes DEF RecordInv
<1>2. /\ Len(taken') = Len(taken) + Len(drain)
      /\ \A i \in 1..Len(taken) : taken'[i] = taken[i]
      /\ \A i \in 1..Len(drain) : taken'[Len(taken) + i] = drain[i]
    BY <1>0, <1>1
<1>3. Len(drain) = Waiting'
    BY <1>0, <1>1, EmptySeq DEF Waiting
<1>4. ASSUME NEW s \in Seq(Sample), NEW from \in Nat, Part(s, from)
      PROVE  from + Len(s) <= Len(taken') /\ \A i \in 1..Len(s) : s[i] = taken'[from + i]
    <2>1. Len(s) \in Nat
        BY <1>4
    <2>2. \A i \in 1..Len(s) : from + i \in 1..Len(taken)
        BY <1>1, <1>4, <2>1 DEF Part
    <2> QED BY <1>1, <1>2, <1>4, <2>1, <2>2 DEF Part
<1>5. \E cut : Queued(cut)'
    <2>1. PICK cut : Queued(cut)
        BY DEF RecordInv, CompleteInv
    <2>2. cut \in [0..Len(chan) -> Nat] /\ cut[0] = Written
        BY <2>1 DEF Queued
    <2>3. cut[Len(chan)] + Waiting' = Len(taken')
        <3>1. cut[Len(chan)] + 0 = Len(taken)
            BY <1>0, <2>1 DEF Queued, Waiting
        <3>2. cut[Len(chan)] \in Nat
            BY <2>2, RecordTypes DEF RecordInv
        <3> QED BY <1>1, <1>2, <1>3, <3>1, <3>2
    <2>4. ASSUME NEW k \in 1..Len(chan)
          PROVE  cut[k] = cut[k - 1] + Len(chan[k].chunk) /\ Part(chan[k].chunk, cut[k - 1])'
        <3>1. cut[k] = cut[k - 1] + Len(chan[k].chunk) /\ Part(chan[k].chunk, cut[k - 1])
            BY <2>1 DEF Queued
        <3>2. cut[k - 1] \in Nat /\ chan[k].chunk \in Seq(Sample)
            <4>1. k - 1 \in 0..Len(chan)
                BY RecordTypes DEF RecordInv
            <4>2. cut[k - 1] \in Nat
                BY <2>2, <4>1
            <4>3. chan[k].chunk \in Seq(Sample)
                BY RecordTypes DEF RecordInv
            <4> QED BY <4>2, <4>3
        <3> QED BY <1>0, <1>4, <3>1, <3>2 DEF Part
    <2>5. Written' = Written
        BY <1>0 DEF Written
    <2> QED BY <1>0, <2>2, <2>3, <2>4, <2>5 DEF Queued
<1>6. Part(file.data, 0)' /\ (wpc' = "write" => Part(wchunk, Len(file.data))')
    <2>1. Part(file.data, 0) /\ file.data \in Seq(Sample)
        BY RecordTypes DEF RecordInv, CompleteInv
    <2>2. wpc = "write" => Part(wchunk, Len(file.data))
        BY DEF RecordInv, CompleteInv
    <2>3. Len(file.data) \in Nat /\ wchunk \in Seq(Sample)
        BY RecordTypes DEF RecordInv
    <2>4. Part(file.data, 0)'
        BY <1>0, <1>4, <2>1 DEF Part
    <2>5. wpc' = "write" => Part(wchunk, Len(file.data))'
        BY <1>0, <1>4, <2>2, <2>3 DEF Part
    <2> QED BY <2>4, <2>5
<1>7. Part(drain, Len(taken) - Len(drain))'
    <2>1. Len(taken') - Len(drain') = Len(taken)
        BY <1>0, <1>1, <1>2
    <2> QED BY <1>0, <1>1, <1>2, <2>1 DEF Part
<1>8. /\ wpc' \notin {"none", "seal", "header", "end"}
      /\ \A k \in 1..Len(chan') : ~chan'[k].finish
    BY <1>0 DEF RecordInv, CompleteInv
<1> QED BY <1>5, <1>6, <1>7, <1>8 DEF CompleteInv

LEMMA CompleteStep ==
    ASSUME RecordInv, [Next]_vars
    PROVE  CompleteInv'
<1>0. CompleteInv /\ SavedInv
    BY DEF RecordInv
<1>1. CASE Deliver \/ PlaybackThread \/ WriterTimeout \/ Idle \/ UNCHANGED vars
    <2>1. UNCHANGED <<engineVars, recordVars>>
        BY <1>1 DEF Deliver, PlaybackThread, PlayRead, PlayPush, PlayStop,
                    WriterTimeout, Idle, vars, engineVars, recordVars
    <2> QED BY <1>0, <2>1, Untouched DEF engineVars, recordVars
<1>2. CASE WriterTake
    BY <1>2, TakeStep
<1>3. CASE WriterWrite
    BY <1>3, WriteStep
<1>4. CASE WriterSeal \/ WriterHeader
    <2> SUFFICES ASSUME rec, ~werror
                 PROVE  CompleteInv'
        BY <1>4 DEF CompleteInv, WriterSeal, WriterHeader, engineVars
    <2>1. /\ UNCHANGED <<rec, epc, drain, werror, chan, wchunk, taken>>
          /\ wpc \in {"seal", "header"} /\ wpc' \in {"header", "end"}
          /\ file'.data = file.data
          /\ wpc' = "end" => file'.header = Len(file.data)
        BY <1>4, RecordTypes DEF RecordInv, WriterSeal, WriterHeader, engineVars
    <2>2. PICK cut : Queued(cut)
        BY <1>0 DEF CompleteInv
    <2>3. Queued(cut)'
        BY <2>1, <2>2 DEF Queued, Written, Waiting, Part
    <2> QED BY <1>0, <2>1, <2>3 DEF CompleteInv, Part
<1>5. CASE WriterFails
    BY <1>5 DEF WriterFails, CompleteInv
<1>6. CASE PumpStart \/ PumpPop \/ PumpDrained
    BY <1>0, <1>6, Untouched DEF PumpStart, PumpPop, PumpDrained, recordVars
<1>7. CASE PumpCheck
    BY <1>7, CheckStep
<1>8. CASE PushChunk
    <2> SUFFICES ASSUME rec, ~werror
                 PROVE  CompleteInv'
        BY <1>8 DEF CompleteInv, PushChunk
    <2>1. Chunk(drain) \in RecMsg /\ Chunk(drain).chunk = drain /\ ~Chunk(drain).finish
        BY RecordTypes DEF RecordInv, Chunk, RecMsg
    <2>2. Len(Chunk(drain).chunk) = Waiting
        BY <1>8, <2>1 DEF PushChunk, Waiting
    <2>3. /\ chan' = Append(chan, Chunk(drain)) /\ epc = "push" /\ epc' = "loop"
          /\ UNCHANGED <<rec, wpc, wchunk, werror, file, taken>>
        BY <1>8 DEF PushChunk
    <2> QED BY <2>1, <2>2, <2>3, SendStep
<1>9. CASE PushPanics
    BY <1>9 DEF PushPanics, CompleteInv
<1>10. CASE StartRecord
    <2>1. /\ rec' = TRUE /\ epc' = "loop" /\ wpc' = "recv" /\ chan' = <<>>
          /\ file' = NoFile /\ taken' = <<>>
        BY <1>10 DEF StartRecord, Command
    <2>2. PICK cut : cut = [k \in {0} |-> 0]
        OBVIOUS
    <2>3. Queued(cut)'
        <3>1. Len(chan') = 0 /\ Len(taken') = 0 /\ Written' = 0 /\ Waiting' = 0
            BY <2>1 DEF Written, Waiting, NoFile
        <3>2. 0..0 = {0} /\ cut \in [0..0 -> Nat] /\ cut[0] = 0
            BY <2>2
        <3>3. cut \in [0..Len(chan') -> Nat] /\ cut[0] = Written'
            BY <3>1, <3>2
        <3>4. 1..Len(chan') = {}
            BY <3>1
        <3>5. cut[Len(chan')] + Waiting' = Len(taken')
            BY <3>1, <3>2
        <3> QED BY <3>3, <3>4, <3>5 DEF Queued
    <2>4. Part(file.data, 0)'
        BY <2>1 DEF Part, NoFile
    <2>5. 1..Len(chan') = {}
        BY <2>1
    <2>6. /\ wpc' \notin {"none", "write", "seal", "header", "end"} /\ epc' # "push"
          /\ \A k \in 1..Len(chan') : FALSE
        BY <2>1, <2>5
    <2> QED BY <2>3, <2>4, <2>6 DEF CompleteInv
<1>11. CASE \/ StopRecord \/ StopPlay
            \/ \E g \in {"connect", "play", "off", "quit"} : TearDown(g)
    BY <1>0, <1>11, Untouched DEF StopRecord, StopPlay, TearDown, Command, recordVars
<1>12. CASE DropPlay \/ JoinPlay
    BY <1>0, <1>12, Untouched DEF DropPlay, JoinPlay, recordVars
<1>13. CASE SendFinish
    <2>1. CASE rec /\ ~werror
        <3>1. epc = "stopRec" /\ wpc # "end"
            BY <1>0, <1>13, <2>1 DEF SendFinish, CompleteInv
        <3>2. /\ chan' = Append(chan, Finish) /\ epc' = "joinRec"
              /\ UNCHANGED <<rec, wpc, wchunk, werror, file, taken>>
            BY <1>13, <2>1, <3>1 DEF SendFinish
        <3>3. Finish \in RecMsg /\ Finish.chunk = <<>> /\ Len(Finish.chunk) = 0
            BY Nothing DEF Finish, RecMsg
        <3>4. Waiting = 0
            BY <3>1 DEF Waiting
        <3> QED BY <2>1, <3>1, <3>2, <3>3, <3>4, SendStep
    <2>2. CASE ~(rec /\ ~werror)
        BY <1>13, <2>2 DEF SendFinish, CompleteInv
    <2> QED BY <2>1, <2>2
<1>14. CASE JoinRecorder
    BY <1>14 DEF JoinRecorder, CompleteInv
<1>15. CASE Settle
    BY <1>0, <1>15, Untouched DEF Settle, recordVars
<1> QED
    BY <1>1, <1>2, <1>3, <1>4, <1>5, <1>6, <1>7, <1>8, <1>9, <1>10, <1>11,
       <1>12, <1>13, <1>14, <1>15
    DEF Next, WriterThread, Pump, CommandStart, CommandRest

(* A capture that was saved stays as it was until the next one begins. *)
LEMMA SavedStep ==
    ASSUME RecordInv, [Next]_vars
    PROVE  SavedInv'
<1> USE DEF SavedInv
<1>0. SavedInv /\ CompleteInv /\ FlagType
    BY TypeParts DEF RecordInv, IInv
<1>1. CASE Deliver \/ PlaybackThread \/ WriterTimeout \/ Idle \/ UNCHANGED vars
    <2>1. UNCHANGED <<engineVars, recordVars>>
        BY <1>1 DEF Deliver, PlaybackThread, PlayRead, PlayPush, PlayStop,
                    WriterTimeout, Idle, vars, engineVars, recordVars
    <2> QED BY <1>0, <2>1 DEF engineVars, recordVars
<1>2. CASE WriterThread \/ WriterFails
    <2>1. wpc # "end" /\ UNCHANGED <<engineVars, saved>>
        BY <1>2 DEF WriterThread, WriterTake, WriterWrite, WriterSeal,
                    WriterHeader, WriterFails
    <2> QED BY <1>0, <2>1 DEF engineVars
<1>3. CASE PumpStart \/ PumpPop \/ PumpDrained
    BY <1>0, <1>3 DEF PumpStart, PumpPop, PumpDrained, recordVars
<1>4. CASE PumpCheck
    BY <1>0, <1>4 DEF PumpCheck
<1>5. CASE PushChunk
    BY <1>0, <1>5 DEF PushChunk
<1>6. CASE PushPanics
    BY <1>0, <1>6 DEF PushPanics, recordVars
<1>7. CASE StartRecord
    BY <1>0, <1>7 DEF StartRecord
<1>8. CASE \/ StopRecord \/ StopPlay
           \/ \E g \in {"connect", "play", "off", "quit"} : TearDown(g)
    BY <1>0, <1>8 DEF StopRecord, StopPlay, TearDown, recordVars
<1>9. CASE DropPlay \/ JoinPlay \/ Settle
    BY <1>0, <1>9 DEF DropPlay, JoinPlay, Settle, recordVars
<1>10. CASE SendFinish
    BY <1>0, <1>10 DEF SendFinish
<1>11. CASE JoinRecorder
    <2>1. /\ epc = "joinRec" /\ rec /\ wpc = "end" /\ ~rec' /\ epc' = "settle"
          /\ saved' = ~werror /\ UNCHANGED <<wpc, file, taken>>
        BY <1>0, <1>11 DEF JoinRecorder
    <2>2. ASSUME ~werror
          PROVE  file.data = taken /\ file.header = Len(taken)
        <3>1. PICK cut : Queued(cut)
            BY <1>0, <2>1, <2>2 DEF CompleteInv
        <3>2. chan = <<>> /\ Part(file.data, 0) /\ file.header = Len(file.data)
            BY <1>0, <2>1, <2>2 DEF CompleteInv
        <3>3. Len(file.data) + 0 = Len(taken)
            BY <2>1, <3>1, <3>2 DEF Queued, Written, Waiting
        <3>4. file.data \in Seq(Sample) /\ taken \in Seq(Sample)
            BY RecordTypes DEF RecordInv
        <3>5. Len(file.data) = Len(taken)
              /\ \A i \in 1..Len(file.data) : file.data[i] = taken[i]
            BY <3>2, <3>3, <3>4 DEF Part
        <3>6. file.data = taken
            BY <3>4, <3>5, SeqEqual
        <3> QED BY <3>2, <3>6
    <2> QED BY <2>1, <2>2
<1> QED
    BY <1>1, <1>2, <1>3, <1>4, <1>5, <1>6, <1>7, <1>8, <1>9, <1>10, <1>11
    DEF Next, Pump, CommandStart, CommandRest

(* "IQ capture saved" is only said of a file that holds every sample       *)
(* drained while recording, in order, and counts them.                     *)
THEOREM CaptureComplete == Spec => []SavedIsComplete
<1>1. RecordInv /\ [Next]_vars => RecordInv'
    <2> SUFFICES ASSUME RecordInv, [Next]_vars
                 PROVE  RecordInv'
        OBVIOUS
    <2>1. IInv'
        BY TypeStep, HeaderStep, OwnerStep, StreamStep DEF RecordInv, IInv
    <2> QED BY <2>1, CompleteStep, SavedStep DEF RecordInv
<1>2. RecordInv => SavedIsComplete
    BY DEF RecordInv, SavedInv, SavedIsComplete
<1> QED BY InitRecord, <1>1, <1>2, PTL DEF Spec
-----------------------------------------------------------------------------
(* Between two samples of a recording nothing is missing that was there.   *)

(* All samples between a and b are in `over'. *)
Linked(a, b, over) == \A n \in (a + 1)..(b - 1) : n \in over
Chained(s, over) == \A i \in 1..(Len(s) - 1) : Linked(s[i], s[i + 1], over)
LastOf(s) == s[Len(s)]
NextOf(s, x) == IF s = <<>> THEN x ELSE s[1]

(* The next sample the engine will pop from the device's ring, and the     *)
(* next one it will record.                                                *)
Coming == NextOf(ring, produced + 1)
Pumping == epc \in {"pop", "check"}
Upcoming == IF Pumping THEN NextOf(drain, Coming) ELSE Coming

(* The samples come from a device or from a file, and a recording never    *)
(* sees the one replace the other.                                         *)
OneSource ==
    /\ ~(conn /\ playing)
    /\ ~conn => ring = <<>>
    /\ Pumping => conn \/ playing
    /\ epc \notin {"pop", "check", "push", "dead"} => drain = <<>>
    /\ goal \in {"connect", "play", "off", "quit"} =>
          /\ ~conn
          /\ epc \in {"joinPlay", "stopRec", "joinRec", "settle"} => ~playing
    /\ epc \in {"dropPlay", "joinPlay", "stopRec", "joinRec", "settle", "exit"}
          \/ goal = "none"
    /\ epc = "settle" /\ goal # "stopPlay" => ~rec

DeviceInv ==
    conn =>
        /\ Chained(ring, overflow)
        /\ ring # <<>> => Linked(LastOf(ring), produced + 1, overflow)
        /\ Pumping /\ drain # <<>> =>
              /\ Chained(drain, overflow)
              /\ Linked(LastOf(drain), Coming, overflow)
        /\ rec /\ taken # <<>> => Linked(LastOf(taken), Upcoming, overflow)

FileInv ==
    playing =>
        /\ Pumping => /\ Len(drain) <= heard
                      /\ \A i \in 1..Len(drain) : drain[i] = heard - Len(drain) + i
        /\ rec /\ taken # <<>> =>
              LastOf(taken) = IF Pumping THEN heard - Len(drain) ELSE heard

TakenInv == Chained(taken, overflow)

GapInv == IInv /\ OneSource /\ DeviceInv /\ FileInv /\ TakenInv

LEMMA InitGap == Init => GapInv
<1>1. Init => OneSource /\ DeviceInv /\ FileInv
    BY DEF Init, OneSource, Pumping, DeviceInv, FileInv
<1>2. Init => TakenInv
    BY DEF Init, TakenInv, Chained
<1> QED BY <1>1, <1>2, InitIInv DEF GapInv

LEMMA GapTypes ==
    ASSUME IInv
    PROVE  /\ drain \in Seq(Sample) /\ ring \in Seq(Sample) /\ taken \in Seq(Sample)
           /\ pring \in Seq(Sample) /\ heard \in Nat /\ produced \in Nat
           /\ conn \in BOOLEAN /\ playing \in BOOLEAN /\ rec \in BOOLEAN
BY BoundAssumption, LenAssumption DEF IInv, TypeOK

LEMMA LinkedGrows ==
    ASSUME NEW a, NEW b, NEW small, NEW big, small \subseteq big, Linked(a, b, small)
    PROVE  Linked(a, b, big)
BY DEF Linked

LEMMA ChainedGrows ==
    ASSUME NEW s, NEW small, NEW big, small \subseteq big, Chained(s, small)
    PROVE  Chained(s, big)
BY DEF Chained, Linked

(* Two chains are joined where they are linked. *)
LEMMA ChainedJoin ==
    ASSUME NEW s \in Seq(Sample), NEW t \in Seq(Sample), NEW over,
           Chained(s, over), Chained(t, over),
           s # <<>> /\ t # <<>> => Linked(LastOf(s), t[1], over)
    PROVE  /\ Chained(s \o t, over)
           /\ t # <<>> => s \o t # <<>> /\ LastOf(s \o t) = LastOf(t)
<1>1. /\ Len(s) \in Nat /\ Len(t) \in Nat /\ Len(s \o t) = Len(s) + Len(t)
      /\ \A i \in 1..Len(s) : (s \o t)[i] = s[i]
      /\ \A i \in 1..Len(t) : (s \o t)[Len(s) + i] = t[i]
    OBVIOUS
<1>2. ASSUME NEW i \in 1..(Len(s \o t) - 1)
      PROVE  Linked((s \o t)[i], (s \o t)[i + 1], over)
    <2>1. CASE i + 1 \in 1..Len(s)
        <3>1. i \in 1..(Len(s) - 1) /\ i \in 1..Len(s)
            BY <1>1, <2>1
        <3>2. (s \o t)[i] = s[i] /\ (s \o t)[i + 1] = s[i + 1]
            BY <1>1, <2>1, <3>1
        <3> QED BY <3>1, <3>2 DEF Chained
    <2>2. CASE i = Len(s)
        <3>1. i \in 1..Len(s) /\ 1 \in 1..Len(t) /\ s # <<>> /\ t # <<>>
            BY <1>1, <2>2, EmptySeq
        <3>2. (s \o t)[i] = LastOf(s) /\ (s \o t)[i + 1] = t[1]
            BY <1>1, <2>2, <3>1 DEF LastOf
        <3> QED BY <3>1, <3>2
    <2>3. CASE i > Len(s)
        <3>1. i - Len(s) \in 1..(Len(t) - 1) /\ i - Len(s) \in 1..Len(t)
              /\ (i - Len(s)) + 1 \in 1..Len(t)
            BY <1>1, <1>2, <2>3
        <3>2. Len(s) + (i - Len(s)) = i /\ Len(s) + ((i - Len(s)) + 1) = i + 1
            BY <1>1, <2>3
        <3>3. (s \o t)[i] = t[i - Len(s)] /\ (s \o t)[i + 1] = t[(i - Len(s)) + 1]
            BY <1>1, <3>1, <3>2
        <3> QED BY <3>1, <3>3 DEF Chained
    <2> QED BY <1>1, <1>2, <2>1, <2>2, <2>3
<1>3. ASSUME t # <<>>
      PROVE  s \o t # <<>> /\ LastOf(s \o t) = LastOf(t)
    <2>1. Len(t) \in 1..Len(t)
        BY <1>1, <1>3, EmptySeq
    <2>2. Len(s \o t) # 0 /\ (s \o t)[Len(s \o t)] = t[Len(t)]
        BY <1>1, <2>1
    <2> QED BY <2>2 DEF LastOf
<1> QED BY <1>2, <1>3 DEF Chained

(* So is one more element. *)
LEMMA ChainedAppend ==
    ASSUME NEW s \in Seq(Sample), NEW x \in Sample, NEW over, Chained(s, over),
           s # <<>> => Linked(LastOf(s), x, over)
    PROVE  /\ Chained(Append(s, x), over)
           /\ Append(s, x) # <<>> /\ LastOf(Append(s, x)) = x
           /\ NextOf(Append(s, x), x) = NextOf(s, x)
<1>1. /\ Len(s) \in Nat /\ Len(Append(s, x)) = Len(s) + 1
      /\ \A i \in 1..Len(s) : Append(s, x)[i] = s[i]
      /\ Append(s, x)[Len(s) + 1] = x
    OBVIOUS
<1>2. ASSUME NEW i \in 1..(Len(Append(s, x)) - 1)
      PROVE  Linked(Append(s, x)[i], Append(s, x)[i + 1], over)
    <2>1. CASE i + 1 \in 1..Len(s)
        <3>1. i \in 1..(Len(s) - 1) /\ i \in 1..Len(s)
            BY <1>1, <2>1
        <3>2. Append(s, x)[i] = s[i] /\ Append(s, x)[i + 1] = s[i + 1]
            BY <1>1, <2>1, <3>1
        <3> QED BY <3>1, <3>2 DEF Chained
    <2>2. CASE i = Len(s)
        <3>1. i \in 1..Len(s) /\ s # <<>>
            BY <1>1, <2>2, EmptySeq
        <3>2. Append(s, x)[i] = LastOf(s) /\ Append(s, x)[i + 1] = x
            BY <1>1, <2>2, <3>1 DEF LastOf
        <3> QED BY <3>1, <3>2
    <2> QED BY <1>1, <1>2, <2>1, <2>2
<1>3. Append(s, x) # <<>> /\ LastOf(Append(s, x)) = x
    BY <1>1, EmptySeq DEF LastOf
<1>4. NextOf(Append(s, x), x) = NextOf(s, x)
    <2>1. CASE s = <<>>
        BY <1>1, <1>3, <2>1 DEF NextOf
    <2>2. CASE s # <<>>
        <3>1. 1 \in 1..Len(s)
            BY <2>2, EmptySeq
        <3> QED BY <1>1, <1>3, <2>2, <3>1 DEF NextOf
    <2> QED BY <2>1, <2>2
<1> QED BY <1>2, <1>3, <1>4 DEF Chained

(* A chain without its first element is a chain. *)
LEMMA ChainedTail ==
    ASSUME NEW s \in Seq(Sample), NEW over, NEW x, s # <<>>, Chained(s, over),
           Linked(LastOf(s), x, over)
    PROVE  /\ Chained(Tail(s), over)
           /\ Tail(s) # <<>> => LastOf(Tail(s)) = LastOf(s)
           /\ Linked(s[1], NextOf(Tail(s), x), over)
<1>1. /\ Len(s) \in Nat \ {0} /\ Tail(s) \in Seq(Sample) /\ Len(Tail(s)) = Len(s) - 1
      /\ \A i \in 1..Len(Tail(s)) : Tail(s)[i] = s[i + 1]
    BY EmptySeq
<1>2. ASSUME NEW i \in 1..(Len(Tail(s)) - 1)
      PROVE  Linked(Tail(s)[i], Tail(s)[i + 1], over)
    <2>1. i + 1 \in 1..(Len(s) - 1) /\ i \in 1..Len(Tail(s)) /\ i + 1 \in 1..Len(Tail(s))
        BY <1>1, <1>2
    <2>2. Tail(s)[i] = s[i + 1] /\ Tail(s)[i + 1] = s[(i + 1) + 1]
        BY <1>1, <2>1
    <2> QED BY <2>1, <2>2 DEF Chained
<1>3. ASSUME Tail(s) # <<>>
      PROVE  LastOf(Tail(s)) = LastOf(s)
    <2>1. Len(Tail(s)) \in 1..Len(Tail(s)) /\ Len(Tail(s)) + 1 = Len(s)
        BY <1>1, <1>3, EmptySeq
    <2> QED BY <1>1, <2>1 DEF LastOf
<1>4. Linked(s[1], NextOf(Tail(s), x), over)
    <2>1. CASE Tail(s) = <<>>
        <3>1. Len(s) = 1
            <4>1. Len(Tail(s)) = 0
                BY <2>1, EmptySeq
            <4>2. Len(Tail(s)) = Len(s) - 1 /\ Len(s) \in Nat
                BY <1>1
            <4> QED BY <4>1, <4>2
        <3> QED BY <2>1, <3>1 DEF NextOf, LastOf
    <2>2. CASE Tail(s) # <<>>
        <3>1. 1 \in 1..(Len(s) - 1) /\ 1 \in 1..Len(Tail(s))
            BY <1>1, <2>2, EmptySeq
        <3>2. Tail(s)[1] = s[1 + 1]
            BY <1>1, <3>1
        <3> QED BY <2>2, <3>1, <3>2 DEF NextOf, Chained
    <2> QED BY <2>1, <2>2
<1> QED BY <1>2, <1>3, <1>4 DEF Chained

(* The end of a chain is a chain. *)
LEMMA ChainedEnd ==
    ASSUME NEW s \in Seq(Sample), NEW over, NEW n \in 0..Len(s), Chained(s, over)
    PROVE  LET t == SubSeq(s, Len(s) - n + 1, Len(s))
           IN  Chained(t, over) /\ (t # <<>> => s # <<>> /\ LastOf(t) = LastOf(s))
<1> DEFINE t == SubSeq(s, Len(s) - n + 1, Len(s))
<1>1. /\ Len(s) \in Nat /\ n \in Nat /\ n <= Len(s)
      /\ t = [i \in 1..n |-> s[(Len(s) - n) + i]]
    <2>1. Len(s) - n + 1 \in 1..(Len(s) + 1) /\ Len(s) \in (Len(s) - n)..Len(s)
        OBVIOUS
    <2>2. Len(s) - (Len(s) - n + 1) + 1 = n
        OBVIOUS
    <2> QED BY <2>1, <2>2 DEF t
<1>2. Len(t) = n /\ \A i \in 1..n : t[i] = s[(Len(s) - n) + i]
    BY <1>1
<1> HIDE DEF t
<1>3. ASSUME NEW i \in 1..(Len(t) - 1)
      PROVE  Linked(t[i], t[i + 1], over)
    <2>1. /\ i \in 1..n /\ i + 1 \in 1..n
          /\ (Len(s) - n) + i \in 1..(Len(s) - 1)
          /\ (Len(s) - n) + (i + 1) = ((Len(s) - n) + i) + 1
        BY <1>1, <1>2, <1>3
    <2>2. t[i] = s[(Len(s) - n) + i] /\ t[i + 1] = s[((Len(s) - n) + i) + 1]
        BY <1>2, <2>1
    <2> QED BY <2>1, <2>2 DEF Chained
<1>4. ASSUME t # <<>>
      PROVE  s # <<>> /\ LastOf(t) = LastOf(s)
    <2>1. n # 0
        BY <1>1, <1>2, <1>4
    <2>2. n \in 1..n /\ (Len(s) - n) + n = Len(s) /\ Len(s) # 0
        BY <1>1, <2>1
    <2> QED BY <1>2, <2>2 DEF LastOf
<1> QED BY <1>3, <1>4 DEF Chained, t

(* A step that only hides or reveals an empty `drain'. *)
LEMMA DeviceUntouched ==
    ASSUME DeviceInv, conn' => conn, rec' => rec,
           UNCHANGED <<ring, produced, overflow, taken, drain>>,
           drain = <<>> \/ Pumping' = Pumping
    PROVE  DeviceInv'
<1>1. Coming' = Coming /\ Upcoming' = Upcoming
    BY DEF Coming, Upcoming, NextOf
<1> QED BY <1>1 DEF DeviceInv, LastOf

LEMMA SourceStep ==
    ASSUME GapInv, [Next]_vars
    PROVE  OneSource'
<1> USE DEF OneSource, Pumping
<1>0. OneSource /\ FlagType /\ EngineType
    BY TypeParts DEF GapInv, IInv
<1>1. CASE Deliver
    BY <1>0, <1>1 DEF Deliver, engineVars
<1>2. CASE PlaybackThread \/ WriterThread \/ WriterFails \/ WriterTimeout \/ Idle
           \/ UNCHANGED vars
    <2>1. UNCHANGED <<engineVars, deviceVars>>
        BY <1>2 DEF PlaybackThread, PlayRead, PlayPush, PlayStop, WriterThread,
                    WriterTake, WriterWrite, WriterSeal, WriterHeader,
                    WriterFails, WriterTimeout, Idle, vars
    <2> QED BY <1>0, <2>1 DEF engineVars, deviceVars
<1>3. CASE PumpStart
    <2>1. ~conn => ring' = ring
        BY <1>0, <1>3 DEF PumpStart
    <2> QED BY <1>0, <1>3, <2>1 DEF PumpStart
<1>4. CASE PumpPop
    <2>1. ~conn => ring' = ring
        BY <1>0, <1>4 DEF PumpPop
    <2> QED BY <1>0, <1>4, <2>1 DEF PumpPop
<1>5. CASE PumpDrained
    BY <1>0, <1>5 DEF PumpDrained, deviceVars
<1>6. CASE PumpCheck
    BY <1>0, <1>6 DEF PumpCheck, deviceVars
<1>7. CASE PushChunk
    BY <1>0, <1>7 DEF PushChunk, deviceVars
<1>8. CASE PushPanics
    BY <1>0, <1>8 DEF PushPanics
<1>9. CASE StartRecord
    BY <1>0, <1>9 DEF StartRecord, Command
<1>10. CASE StopRecord \/ StopPlay
    BY <1>0, <1>10 DEF StopRecord, StopPlay, Command
<1>11. CASE \E g \in {"connect", "play", "off", "quit"} : TearDown(g)
    BY <1>0, <1>11 DEF TearDown, Command
<1>12. CASE DropPlay \/ JoinPlay
    BY <1>0, <1>12 DEF DropPlay, JoinPlay, deviceVars
<1>13. CASE SendFinish \/ JoinRecorder
    BY <1>0, <1>13 DEF SendFinish, JoinRecorder, deviceVars
<1>14. CASE Settle
    BY <1>0, <1>14 DEF Settle, deviceVars, playVars
<1> QED
    BY <1>1, <1>2, <1>3, <1>4, <1>5, <1>6, <1>7, <1>8, <1>9, <1>10, <1>11,
       <1>12, <1>13, <1>14
    DEF Next, Pump, CommandStart, CommandRest

(* A sample that the device delivers is the next in its ring, or lost. *)
LEMMA DeliverStep ==
    ASSUME GapInv, Deliver
    PROVE  DeviceInv'
<1>0. /\ conn /\ produced' = produced + 1
      /\ UNCHANGED <<conn, rec, epc, drain, taken>>
    BY DEF Deliver, engineVars, recordVars
<1>1. ring \in Seq(Sample) /\ produced \in Nat /\ produced' \in Sample
      /\ overflow \subseteq overflow'
    BY <1>0, GapTypes DEF GapInv, Deliver, Sample
<1>2. Pumping' = Pumping
    BY <1>0 DEF Pumping
<1>3. /\ Chained(ring, overflow')
      /\ ring # <<>> => Linked(LastOf(ring), produced + 1, overflow')
      /\ Pumping /\ drain # <<>> =>
            Chained(drain, overflow') /\ Linked(LastOf(drain), Coming, overflow')
      /\ rec /\ taken # <<>> => Linked(LastOf(taken), Upcoming, overflow')
    BY <1>0, <1>1, LinkedGrows, ChainedGrows DEF GapInv, DeviceInv
<1>4. /\ Chained(ring', overflow') /\ Coming' = Coming
      /\ ring' # <<>> => Linked(LastOf(ring'), produced' + 1, overflow')
    <2>1. CASE Len(ring) < RingCap
        <3>1. ring' = Append(ring, produced') /\ overflow' = overflow
            BY <2>1 DEF Deliver
        <3>2. /\ Chained(ring', overflow') /\ ring' # <<>> /\ LastOf(ring') = produced'
              /\ NextOf(ring', produced') = NextOf(ring, produced')
            BY <1>0, <1>1, <1>3, <3>1, ChainedAppend
        <3>3. Linked(produced', produced' + 1, overflow')
            BY <1>0, <1>1 DEF Linked
        <3>4. Coming' = Coming
            BY <1>0, <3>2 DEF Coming, NextOf
        <3> QED BY <3>2, <3>3, <3>4
    <2>2. CASE ~(Len(ring) < RingCap)
        <3>1. ring' = ring /\ overflow' = overflow \cup {produced'}
            BY <2>2 DEF Deliver
        <3>2. ring # <<>>
            BY <2>2, EmptySeq, CapAssumption
        <3>3. LastOf(ring) \in Nat
            BY <1>1, <3>2, EmptySeq DEF LastOf, Sample
        <3>4. Linked(LastOf(ring), produced' + 1, overflow')
            BY <1>0, <1>1, <1>3, <3>1, <3>2, <3>3 DEF Linked
        <3>5. Coming' = Coming
            BY <3>1, <3>2 DEF Coming, NextOf
        <3> QED BY <1>3, <3>1, <3>4, <3>5
    <2> QED BY <2>1, <2>2
<1>5. Upcoming' = Upcoming
    BY <1>0, <1>2, <1>4 DEF Upcoming
<1> QED BY <1>0, <1>2, <1>3, <1>4, <1>5 DEF DeviceInv, LastOf

(* The engine pops what is next in the ring. *)
LEMMA PopStep ==
    ASSUME GapInv, PumpPop, conn
    PROVE  DeviceInv'
<1>0. /\ UNCHANGED <<epc, conn, rec, produced, overflow, taken>>
      /\ ring # <<>> /\ drain' = Append(drain, Head(ring)) /\ ring' = Tail(ring)
      /\ Pumping /\ Pumping'
    BY DEF PumpPop, recordVars, GapInv, OneSource, Pumping
<1>1. /\ ring \in Seq(Sample) /\ drain \in Seq(Sample)
      /\ Head(ring) = ring[1] /\ Head(ring) \in Sample
    BY <1>0, GapTypes, HeadTailProperties DEF GapInv
<1>2. /\ Chained(ring, overflow) /\ Linked(LastOf(ring), produced + 1, overflow)
      /\ Coming = ring[1]
    BY <1>0 DEF GapInv, DeviceInv, Coming, NextOf
<1>3. /\ Chained(ring', overflow)
      /\ ring' # <<>> => LastOf(ring') = LastOf(ring)
      /\ Linked(ring[1], NextOf(ring', produced + 1), overflow)
    BY <1>0, <1>1, <1>2, ChainedTail
<1>4. Coming' = NextOf(ring', produced + 1)
    BY <1>0 DEF Coming, NextOf
<1>5. Chained(drain, overflow) /\ (drain # <<>> => Linked(LastOf(drain), ring[1], overflow))
    <2>1. CASE drain = <<>>
        BY <2>1, EmptySeq DEF Chained
    <2>2. CASE drain # <<>>
        BY <1>0, <1>2, <2>2 DEF GapInv, DeviceInv
    <2> QED BY <2>1, <2>2
<1>6. /\ Chained(drain', overflow) /\ drain' # <<>> /\ LastOf(drain') = ring[1]
      /\ NextOf(drain', ring[1]) = NextOf(drain, ring[1])
    BY <1>0, <1>1, <1>5, ChainedAppend
<1>7. Upcoming' = Upcoming
    <2>1. Upcoming' = NextOf(drain', Coming')
        BY <1>0 DEF Upcoming, NextOf
    <2>2. Upcoming = NextOf(drain, ring[1])
        BY <1>0, <1>2 DEF Upcoming
    <2> QED BY <1>6, <2>1, <2>2 DEF NextOf
<1>8. rec /\ taken # <<>> => Linked(LastOf(taken), Upcoming, overflow)
    BY DEF GapInv, DeviceInv
<1>9. ring' # <<>> => Linked(LastOf(ring'), produced' + 1, overflow')
    BY <1>0, <1>2, <1>3
<1>10. Chained(drain', overflow') /\ Linked(LastOf(drain'), Coming', overflow')
    BY <1>0, <1>3, <1>4, <1>6
<1>11. rec' /\ taken' # <<>> => Linked(LastOf(taken'), Upcoming', overflow')
    BY <1>0, <1>7, <1>8
<1> QED BY <1>0, <1>3, <1>9, <1>10, <1>11 DEF DeviceInv, LastOf

(* What a pump has drained follows what was recorded before it. *)
LEMMA Follows ==
    ASSUME GapInv, epc = "check", rec
    PROVE  /\ Chained(drain, overflow)
           /\ taken # <<>> /\ drain # <<>> => Linked(LastOf(taken), drain[1], overflow)
<1>1. CASE drain = <<>>
    BY <1>1, EmptySeq DEF Chained
<1>2. CASE drain # <<>> /\ conn
    <2>1. Pumping /\ Upcoming = drain[1]
        BY <1>2 DEF Pumping, Upcoming, NextOf
    <2> QED BY <1>2, <2>1 DEF GapInv, DeviceInv
<1>3. CASE drain # <<>> /\ ~conn
    <2>1. playing /\ Pumping
        BY <1>3 DEF GapInv, OneSource, Pumping
    <2>2. drain \in Seq(Sample) /\ Len(drain) \in Nat \ {0} /\ heard \in Nat
        BY <1>3, GapTypes, EmptySeq DEF GapInv
    <2>3. \A i \in 1..Len(drain) : drain[i] = heard - Len(drain) + i
        BY <2>1 DEF GapInv, FileInv
    <2>4. ASSUME NEW i \in 1..(Len(drain) - 1)
          PROVE  Linked(drain[i], drain[i + 1], overflow)
        <3>1. i \in 1..Len(drain) /\ i + 1 \in 1..Len(drain)
            BY <2>2
        <3>2. drain[i + 1] = drain[i] + 1 /\ drain[i] \in Int
            BY <2>2, <2>3, <3>1
        <3> QED BY <3>2 DEF Linked
    <2>5. ASSUME taken # <<>>
          PROVE  Linked(LastOf(taken), drain[1], overflow)
        <3>1. LastOf(taken) = heard - Len(drain)
            BY <2>1, <2>5 DEF GapInv, FileInv
        <3>2. drain[1] = heard - Len(drain) + 1
            BY <2>2, <2>3
        <3> QED BY <2>2, <3>1, <3>2 DEF Linked
    <2> QED BY <2>4, <2>5 DEF Chained
<1> QED BY <1>1, <1>2, <1>3

LEMMA DeviceStep ==
    ASSUME GapInv, [Next]_vars
    PROVE  DeviceInv'
<1>0. DeviceInv /\ OneSource
    BY DEF GapInv
<1>1. CASE Deliver
    BY <1>1, DeliverStep
<1>2. CASE PlaybackThread \/ WriterThread \/ WriterFails \/ WriterTimeout \/ Idle
           \/ UNCHANGED vars
    <2>1. UNCHANGED <<engineVars, deviceVars, taken>>
        BY <1>2 DEF PlaybackThread, PlayRead, PlayPush, PlayStop, WriterThread,
                    WriterTake, WriterWrite, WriterSeal, WriterHeader,
                    WriterFails, WriterTimeout, Idle, vars, recordVars
    <2> QED BY <1>0, <2>1, DeviceUntouched DEF engineVars, deviceVars, Pumping
<1>3. CASE PumpStart
    <2> SUFFICES ASSUME conn PROVE DeviceInv'
        BY <1>3 DEF PumpStart, DeviceInv
    <2>1. /\ UNCHANGED <<conn, rec, produced, overflow, taken>> /\ epc = "loop"
          /\ drain = <<>> /\ drain' = <<>>
        BY <1>0, <1>3 DEF PumpStart, OneSource, recordVars
    <2>2. CASE ring' = ring
        <3>1. DeviceInv' /\ UNCHANGED ring
            BY <1>0, <2>1, <2>2, DeviceUntouched
        <3> QED BY <3>1
    <2>3. CASE ring' # ring
        <3>1. ~rec /\ OverFilled /\ ring' = SubSeq(ring, Len(ring) - CatchupTarget + 1, Len(ring))
            BY <1>3, <2>3 DEF PumpStart
        <3>2. ring \in Seq(Sample) /\ CatchupTarget \in 0..Len(ring)
            BY <3>1, CapAssumption, GapTypes DEF GapInv, OverFilled, CatchupTarget
        <3>3. Chained(ring', overflow)
              /\ (ring' # <<>> => ring # <<>> /\ LastOf(ring') = LastOf(ring))
            BY <1>0, <3>1, <3>2, ChainedEnd DEF DeviceInv
        <3>4. ring' # <<>> => Linked(LastOf(ring'), produced' + 1, overflow')
            BY <1>0, <2>1, <3>3 DEF DeviceInv
        <3> QED BY <2>1, <3>1, <3>3, <3>4 DEF DeviceInv, LastOf
    <2> QED BY <2>2, <2>3
<1>4. CASE PumpPop
    BY <1>4, PopStep DEF PumpPop, DeviceInv
<1>5. CASE PumpDrained
    BY <1>0, <1>5, DeviceUntouched DEF PumpDrained, deviceVars, recordVars, Pumping
<1>6. CASE PumpCheck
    <2> SUFFICES ASSUME conn PROVE DeviceInv'
        BY <1>6 DEF PumpCheck, DeviceInv
    <2>1. /\ UNCHANGED <<conn, rec, ring, produced, overflow>> /\ epc = "check"
          /\ ~Pumping' /\ Pumping
        BY <1>6 DEF PumpCheck, deviceVars, Pumping
    <2>2. Coming' = Coming /\ Upcoming' = Coming
        BY <2>1 DEF Coming, Upcoming, NextOf
    <2>3. ASSUME rec, taken' # <<>>
          PROVE  Linked(LastOf(taken'), Coming, overflow)
        <3>1. taken' = taken \o drain
            BY <1>6, <2>3 DEF PumpCheck
        <3>2. taken \in Seq(Sample) /\ drain \in Seq(Sample)
            BY GapTypes DEF GapInv
        <3>3. CASE drain = <<>>
            <4>1. taken' = taken /\ Upcoming = Coming
                BY <2>1, <3>1, <3>2, <3>3 DEF Upcoming, NextOf
            <4> QED BY <1>0, <2>3, <4>1 DEF DeviceInv, LastOf
        <3>4. CASE drain # <<>>
            <4>1. LastOf(taken \o drain) = LastOf(drain)
                BY <2>1, <2>3, <3>2, <3>4, Follows, ChainedJoin DEF GapInv, TakenInv
            <4>2. Linked(LastOf(drain), Coming, overflow)
                BY <1>0, <2>1, <3>4 DEF DeviceInv
            <4> QED BY <3>1, <4>1, <4>2
        <3> QED BY <3>3, <3>4
    <2> QED BY <1>0, <2>1, <2>2, <2>3 DEF DeviceInv, LastOf
<1>7. CASE PushChunk
    <2>1. /\ UNCHANGED <<conn, rec, ring, produced, overflow, taken>>
          /\ ~Pumping /\ ~Pumping'
        BY <1>7 DEF PushChunk, deviceVars, Pumping
    <2>2. Coming' = Coming /\ Upcoming' = Upcoming
        BY <2>1 DEF Coming, Upcoming, NextOf
    <2> QED BY <1>0, <2>1, <2>2 DEF DeviceInv, LastOf
<1>8. CASE PushPanics
    BY <1>8 DEF PushPanics, DeviceInv
<1>9. CASE StartRecord
    <2>1. /\ UNCHANGED <<conn, ring, produced, overflow, drain, epc>>
          /\ taken' = <<>>
        BY <1>9 DEF StartRecord, Command
    <2>2. Coming' = Coming /\ Pumping' = Pumping
        BY <2>1 DEF Coming, NextOf, Pumping
    <2> QED BY <1>0, <2>1, <2>2 DEF DeviceInv, LastOf
<1>10. CASE StopRecord \/ StopPlay
    <2>1. /\ UNCHANGED <<conn, rec, ring, produced, overflow, drain, taken>>
          /\ drain = <<>>
        BY <1>0, <1>10 DEF StopRecord, StopPlay, Command, OneSource, recordVars
    <2> QED BY <1>0, <2>1, DeviceUntouched
<1>11. CASE \E g \in {"connect", "play", "off", "quit"} : TearDown(g)
    BY <1>11 DEF TearDown, DeviceInv
<1>12. CASE DropPlay \/ JoinPlay
    BY <1>0, <1>12, DeviceUntouched DEF DropPlay, JoinPlay, deviceVars, recordVars, Pumping
<1>13. CASE SendFinish
    BY <1>0, <1>13, DeviceUntouched DEF SendFinish, deviceVars, Pumping
<1>14. CASE JoinRecorder
    BY <1>0, <1>14, DeviceUntouched DEF JoinRecorder, deviceVars, Pumping
<1>15. CASE Settle
    <2>1. /\ UNCHANGED <<rec, ring, produced, overflow, drain, taken>>
          /\ ~Pumping' /\ epc = "settle" /\ drain = <<>>
        BY <1>0, <1>15 DEF Settle, deviceVars, recordVars, Pumping, OneSource
    <2>2. CASE conn' => conn
        BY <1>0, <2>1, <2>2, DeviceUntouched
    <2>3. CASE conn' /\ ~conn
        <3>1. goal = "connect"
            BY <1>15, <2>3 DEF Settle
        <3>2. ring' = <<>> /\ ~rec'
            BY <1>0, <2>1, <2>3, <3>1 DEF OneSource
        <3>3. Chained(ring', overflow')
            BY <3>2, EmptySeq DEF Chained
        <3> QED BY <2>1, <3>2, <3>3 DEF DeviceInv
    <2> QED BY <2>2, <2>3
<1> QED
    BY <1>1, <1>2, <1>3, <1>4, <1>5, <1>6, <1>7, <1>8, <1>9, <1>10, <1>11,
       <1>12, <1>13, <1>14, <1>15
    DEF Next, Pump, CommandStart, CommandRest

(* A step that starts no playback and drains nothing. *)
LEMMA FileUntouched ==
    ASSUME FileInv, heard \in Nat, playing' => playing, rec' => rec,
           UNCHANGED <<heard, taken, drain>>,
           drain = <<>> \/ Pumping' = Pumping
    PROVE  FileInv'
<1>1. CASE Pumping' = Pumping
    BY <1>1 DEF FileInv, LastOf
<1>2. CASE drain = <<>>
    <2>1. Len(drain) = 0 /\ heard - Len(drain) = heard /\ Len(drain) <= heard
          /\ \A i \in 1..Len(drain) : FALSE
        BY <1>2, EmptySeq
    <2>2. playing /\ rec /\ taken # <<>> => LastOf(taken) = heard
        BY <2>1 DEF FileInv
    <2> QED BY <2>1, <2>2 DEF FileInv, LastOf
<1> QED BY <1>1, <1>2

LEMMA FileStep ==
    ASSUME GapInv, [Next]_vars
    PROVE  FileInv'
<1>0. /\ FileInv /\ OneSource /\ heard \in Nat
      /\ drain \in Seq(Sample) /\ taken \in Seq(Sample) /\ pring \in Seq(Sample)
    BY GapTypes DEF GapInv
<1>1. CASE Deliver
    BY <1>0, <1>1, FileUntouched
    DEF Deliver, engineVars, playVars, recordVars, Pumping
<1>2. CASE PlaybackThread \/ WriterThread \/ WriterFails \/ WriterTimeout \/ Idle
           \/ UNCHANGED vars
    <2>1. UNCHANGED <<engineVars, heard, taken>>
        BY <1>2 DEF PlaybackThread, PlayRead, PlayPush, PlayStop, WriterThread,
                    WriterTake, WriterWrite, WriterSeal, WriterHeader,
                    WriterFails, WriterTimeout, Idle, vars, playVars, recordVars
    <2> QED BY <1>0, <2>1, FileUntouched DEF engineVars, Pumping
<1>3. CASE PumpStart
    <2>1. UNCHANGED <<playing, rec, heard, taken, drain>> /\ drain = <<>>
        BY <1>0, <1>3 DEF PumpStart, OneSource, playVars, recordVars
    <2> QED BY <1>0, <2>1, FileUntouched
<1>4. CASE PumpPop
    <2> SUFFICES ASSUME playing PROVE FileInv'
        BY <1>4 DEF PumpPop, FileInv
    <2>1. /\ UNCHANGED <<epc, rec, playing, taken>> /\ Pumping /\ Pumping'
          /\ pring # <<>> /\ drain' = Append(drain, Head(pring))
          /\ heard' = heard + 1
        BY <1>4 DEF PumpPop, Pumping, recordVars
    <2>2. Head(pring) = heard + 1
        <3>1. 1 \in 1..Len(pring) /\ Head(pring) = pring[1]
            BY <1>0, <2>1, EmptySeq
        <3> QED BY <3>1 DEF GapInv, IInv, StreamInv
    <2>3. /\ Len(drain) \in Nat /\ Len(drain') = Len(drain) + 1
          /\ \A i \in 1..Len(drain) : drain'[i] = drain[i]
          /\ drain'[Len(drain) + 1] = heard + 1
        BY <1>0, <2>1, <2>2
    <2>4. /\ Len(drain) <= heard
          /\ \A i \in 1..Len(drain) : drain[i] = heard - Len(drain) + i
        BY <1>0, <2>1 DEF FileInv
    <2>5. heard' - Len(drain') = heard - Len(drain) /\ Len(drain') <= heard'
        BY <1>0, <2>1, <2>3, <2>4
    <2>6. ASSUME NEW i \in 1..Len(drain')
          PROVE  drain'[i] = heard' - Len(drain') + i
        <3>1. CASE i \in 1..Len(drain)
            BY <2>3, <2>4, <2>5, <3>1
        <3>2. CASE i = Len(drain) + 1
            BY <1>0, <2>3, <2>5, <3>2
        <3> QED BY <2>3, <3>1, <3>2
    <2>7. rec /\ taken # <<>> => LastOf(taken) = heard - Len(drain)
        BY <1>0, <2>1 DEF FileInv
    <2> QED BY <2>1, <2>5, <2>6, <2>7 DEF FileInv, LastOf
<1>5. CASE PumpDrained
    BY <1>0, <1>5, FileUntouched DEF PumpDrained, playVars, recordVars, Pumping
<1>6. CASE PumpCheck
    <2> SUFFICES ASSUME playing', rec', taken' # <<>>
                 PROVE  LastOf(taken') = heard'
        BY <1>6 DEF PumpCheck, FileInv, Pumping, LastOf
    <2>1. /\ playing /\ rec /\ Pumping /\ heard' = heard /\ epc = "check"
          /\ taken' = taken \o drain
        BY <1>6 DEF PumpCheck, playVars, Pumping
    <2>2. /\ \A i \in 1..Len(drain) : drain[i] = heard - Len(drain) + i
          /\ taken # <<>> => LastOf(taken) = heard - Len(drain)
        BY <1>0, <2>1 DEF FileInv
    <2>3. CASE drain = <<>>
        <3>1. taken' = taken /\ heard - Len(drain) = heard
            BY <1>0, <2>1, <2>3, EmptySeq
        <3>2. LastOf(taken) = heard
            BY <2>2, <3>1
        <3> QED BY <2>1, <3>1, <3>2 DEF LastOf
    <2>4. CASE drain # <<>>
        <3>1. Len(drain) \in 1..Len(drain) /\ Len(drain) \in Nat
            BY <1>0, <2>4, EmptySeq
        <3>2. LastOf(drain) = heard
            BY <1>0, <2>2, <3>1 DEF LastOf
        <3>3. LastOf(taken \o drain) = LastOf(drain)
            BY <1>0, <2>1, <2>4, Follows, ChainedJoin DEF GapInv, TakenInv
        <3> QED BY <2>1, <3>2, <3>3 DEF LastOf
    <2> QED BY <2>3, <2>4
<1>7. CASE PushChunk
    <2>1. /\ UNCHANGED <<playing, rec, heard, taken>> /\ ~Pumping /\ ~Pumping'
        BY <1>7 DEF PushChunk, playVars, Pumping
    <2> QED BY <1>0, <2>1 DEF FileInv, LastOf
<1>8. CASE PushPanics
    BY <1>8 DEF PushPanics, FileInv
<1>9. CASE StartRecord
    <2>1. UNCHANGED <<playing, heard, drain>> /\ drain = <<>> /\ taken' = <<>>
        BY <1>0, <1>9 DEF StartRecord, Command, OneSource, playVars
    <2>2. Len(drain') <= heard' /\ \A i \in 1..Len(drain') : FALSE
        BY <1>0, <2>1, EmptySeq
    <2> QED BY <2>1, <2>2 DEF FileInv
<1>10. CASE StopRecord \/ StopPlay
    <2>1. UNCHANGED <<playing, rec, heard, taken, drain>> /\ drain = <<>>
        BY <1>0, <1>10
        DEF StopRecord, StopPlay, Command, OneSource, playVars, recordVars
    <2> QED BY <1>0, <2>1, FileUntouched
<1>11. CASE \E g \in {"connect", "play", "off", "quit"} : TearDown(g)
    <2>1. UNCHANGED <<playing, rec, heard, taken, drain>> /\ drain = <<>>
        BY <1>0, <1>11 DEF TearDown, Command, OneSource, playVars, recordVars
    <2> QED BY <1>0, <2>1, FileUntouched
<1>12. CASE DropPlay
    BY <1>12 DEF DropPlay, FileInv
<1>13. CASE JoinPlay \/ SendFinish
    <2>1. UNCHANGED <<playing, rec, heard, taken, drain>> /\ drain = <<>>
        BY <1>0, <1>13
        DEF JoinPlay, SendFinish, OneSource, playVars, recordVars
    <2> QED BY <1>0, <2>1, FileUntouched
<1>14. CASE JoinRecorder
    BY <1>14 DEF JoinRecorder, FileInv, Pumping
<1>15. CASE Settle
    <2>1. UNCHANGED <<rec, taken, drain>> /\ drain = <<>> /\ ~Pumping'
        BY <1>0, <1>15 DEF Settle, OneSource, recordVars, Pumping
    <2>2. CASE goal = "play"
        <3>1. ~rec'
            BY <1>0, <1>15, <2>1, <2>2 DEF Settle, OneSource
        <3> QED BY <2>1, <3>1 DEF FileInv
    <2>3. CASE goal # "play"
        <3>1. UNCHANGED <<playing, heard>>
            BY <1>15, <2>3 DEF Settle, playVars
        <3> QED BY <1>0, <2>1, <3>1, FileUntouched
    <2> QED BY <2>2, <2>3
<1> QED
    BY <1>1, <1>2, <1>3, <1>4, <1>5, <1>6, <1>7, <1>8, <1>9, <1>10, <1>11,
       <1>12, <1>13, <1>14, <1>15
    DEF Next, Pump, CommandStart, CommandRest

(* What is recorded grows by chunks that follow one another. *)
LEMMA TakenStep ==
    ASSUME GapInv, [Next]_vars
    PROVE  TakenInv'
<1>0. TakenInv /\ drain \in Seq(Sample) /\ taken \in Seq(Sample)
    BY GapTypes DEF GapInv
<1>1. CASE Deliver
    <2>1. overflow \subseteq overflow' /\ taken' = taken
        BY <1>1 DEF Deliver, recordVars
    <2> QED BY <1>0, <2>1, ChainedGrows DEF TakenInv
<1>2. CASE PumpCheck
    <2>1. overflow' = overflow /\ epc = "check"
          /\ taken' = IF rec THEN taken \o drain ELSE taken
        BY <1>2 DEF PumpCheck, deviceVars
    <2>2. CASE rec
        BY <1>0, <2>1, <2>2, Follows, ChainedJoin DEF TakenInv
    <2>3. CASE ~rec
        BY <1>0, <2>1, <2>3 DEF TakenInv
    <2> QED BY <2>2, <2>3
<1>3. CASE StartRecord
    BY <1>3, EmptySeq DEF StartRecord, TakenInv, Chained
<1>4. CASE UNCHANGED <<overflow, taken>>
    BY <1>0, <1>4 DEF TakenInv
<1> QED
    BY <1>1, <1>2, <1>3, <1>4
    DEF Next, Pump, CommandStart, CommandRest, PlaybackThread, PlayRead,
        PlayPush, PlayStop, WriterThread, WriterTake, WriterWrite, WriterSeal,
        WriterHeader, WriterFails, WriterTimeout, Idle, vars, PumpStart,
        PumpPop, PumpDrained, PushChunk, PushPanics, Command, StopRecord,
        StopPlay, TearDown, DropPlay, JoinPlay, SendFinish, JoinRecorder,
        Settle, deviceVars, recordVars

(* Between two samples of a recording no other was dropped by the engine:  *)
(* what is missing there never fitted into the device's ring.              *)
THEOREM RecordedGapless == Spec => []RecordingGapless
<1>1. GapInv /\ [Next]_vars => GapInv'
    <2> SUFFICES ASSUME GapInv, [Next]_vars
                 PROVE  GapInv'
        OBVIOUS
    <2>1. IInv'
        BY TypeStep, HeaderStep, OwnerStep, StreamStep DEF GapInv, IInv
    <2> QED BY <2>1, SourceStep, DeviceStep, FileStep, TakenStep DEF GapInv
<1>2. GapInv => RecordingGapless
    BY DEF GapInv, TakenInv, Chained, Linked, RecordingGapless
<1> QED BY InitGap, <1>1, <1>2, PTL DEF Spec
=============================================================================
