------------------------------- MODULE IqPump -------------------------------
(***************************************************************************)
(* The path of the IQ samples through the engine (engine/inner/pump.rs)    *)
(* and the two file threads at its ends (src/iq_record.rs): samples come   *)
(* from the ring of a device or from the ring a playback thread fills, and *)
(* go, while recording, through a bounded channel to a writer thread.  The *)
(* engine may block in the channel, and joins both threads when it tears   *)
(* down.  What is done with the samples otherwise (demodulation, spectrum, *)
(* audio) changes nothing here and is left out, and the connection is only *)
(* there or not: EngineConnection has its lifecycle.                       *)
(***************************************************************************)
EXTENDS Integers, Sequences

CONSTANTS
    RingCap,       \* slots of the device's ring (iq_ring_capacity)
    DrainCap,      \* samples a pump takes at most (max_drain)
    ChanCap,       \* chunks the recorder's channel holds
    PlayRingCap,   \* slots of the playback ring (PLAYBACK_RING_CAPACITY)
    FileLen,       \* samples the played file yields before its end
    MaxSample,     \* bound: samples the device delivers
    MaxOps         \* bound: commands the engine handles

ASSUME CapAssumption ==
    /\ RingCap \in Nat \ {0}
    /\ DrainCap \in Nat \ {0}
    /\ ChanCap \in Nat \ {0}
    /\ PlayRingCap \in Nat \ {0}
ASSUME LenAssumption == FileLen \in Nat
ASSUME BoundAssumption == MaxSample \in Nat /\ MaxOps \in Nat

(* A sample is its number: in the order of delivery, or in the file. *)
Sample == Nat \ {0}

RecMsg == [chunk : Seq(Sample), finish : BOOLEAN]
Finish == [chunk |-> <<>>, finish |-> TRUE]
Chunk(s) == [chunk |-> s, finish |-> FALSE]

VARIABLES
    (* The engine thread. *)
    epc,       \* what it does next
    goal,      \* the command whose teardown is under way
    conn,      \* Engine::conn is Some
    playing,   \* Engine::playback is Some
    rec,       \* Engine::recorder is Some
    drain,     \* Engine::drain, the samples of this pump
    ops,       \* commands handled so far
    (* The device, or the bridge thread in front of it. *)
    ring,      \* Connection::iq
    produced,  \* samples delivered so far
    overflow,  \* samples that found the ring full
    (* The playback thread. *)
    ppc,       \* "none", "read", "push" or "end"
    pring,     \* IqPlayback::consumer
    pnext,     \* the file's next sample
    pleft,     \* samples of the current chunk not pushed yet
    pdone,     \* IqPlayback::done, shared by the two threads
    heard,     \* how many of the file's samples the engine has drained
    (* The writer thread. *)
    wpc,       \* "none", "recv", "write", "seal", "header" or "end"
    chan,      \* the channel of RecMsg
    wchunk,    \* the chunk being written
    werror,    \* the thread has returned an error
    file,      \* the capture on disk
    taken,     \* samples drained since the recording started
    saved      \* "IQ capture saved" was logged for this recording

engineVars == <<epc, goal, conn, playing, rec, drain, ops>>
deviceVars == <<ring, produced, overflow>>
playVars == <<ppc, pring, pnext, pleft, pdone, heard>>
recordVars == <<wpc, chan, wchunk, werror, file, taken, saved>>
vars == <<engineVars, deviceVars, playVars, recordVars>>

Goal == {"none", "connect", "play", "off", "quit", "stopPlay", "stopRecord"}

TypeOK ==
    /\ epc \in {"loop", "pop", "check", "push", "dropPlay", "joinPlay",
                "stopRec", "joinRec", "settle", "exit", "dead"}
    /\ goal \in Goal
    /\ conn \in BOOLEAN
    /\ playing \in BOOLEAN
    /\ rec \in BOOLEAN
    /\ drain \in Seq(Sample) /\ Len(drain) <= DrainCap
    /\ ops \in 0..MaxOps
    /\ ring \in Seq(Sample) /\ Len(ring) <= RingCap
    /\ produced \in 0..MaxSample
    /\ overflow \subseteq 1..MaxSample
    /\ ppc \in {"none", "read", "push", "end"}
    /\ pring \in Seq(Sample) /\ Len(pring) <= PlayRingCap
    /\ pnext \in 1..(FileLen + 1)
    /\ pleft \in 0..FileLen
    /\ pdone \in BOOLEAN
    /\ heard \in 0..FileLen
    /\ wpc \in {"none", "recv", "write", "seal", "header", "end"}
    /\ chan \in Seq(RecMsg) /\ Len(chan) <= ChanCap
    /\ wchunk \in Seq(Sample)
    /\ werror \in BOOLEAN
    /\ file \in [header : Nat, data : Seq(Sample), sealed : BOOLEAN]
    /\ taken \in Seq(Sample)
    /\ saved \in BOOLEAN

NoFile == [header |-> 0, data |-> <<>>, sealed |-> FALSE]

Init ==
    /\ epc = "loop" /\ goal = "none"
    /\ conn = FALSE /\ playing = FALSE /\ rec = FALSE
    /\ drain = <<>>
    /\ ops = 0
    /\ ring = <<>> /\ produced = 0 /\ overflow = {}
    /\ ppc = "none" /\ pring = <<>> /\ pnext = 1 /\ pleft = 0
    /\ pdone = FALSE /\ heard = 0
    /\ wpc = "none" /\ chan = <<>> /\ wchunk = <<>> /\ werror = FALSE
    /\ file = NoFile /\ taken = <<>> /\ saved = FALSE
-----------------------------------------------------------------------------
(* The device, or the bridge thread (iq_bridge.rs), fills the ring. *)
Deliver ==
    /\ conn
    /\ produced < MaxSample
    /\ produced' = produced + 1
    /\ IF Len(ring) < RingCap
       THEN ring' = Append(ring, produced') /\ UNCHANGED overflow
       ELSE overflow' = overflow \cup {produced'} /\ UNCHANGED ring
    /\ UNCHANGED <<engineVars, playVars, recordVars>>
-----------------------------------------------------------------------------
(* playback_thread *)

(* A plausible slip: the end of the file is not announced. *)
PlayRead_Silent ==
    /\ ppc = "read"
    /\ IF pdone \/ pnext > FileLen
       THEN ppc' = "end" /\ UNCHANGED <<pdone, pleft>>
       ELSE \E n \in 1..(FileLen - pnext + 1) :
                ppc' = "push" /\ pleft' = n /\ UNCHANGED pdone
    /\ UNCHANGED <<engineVars, deviceVars, pring, pnext, heard, recordVars>>

PlayRead ==
    /\ ppc = "read"
    /\ IF pdone \/ pnext > FileLen
       THEN ppc' = "end" /\ pdone' = TRUE /\ UNCHANGED pleft
       ELSE \E n \in 1..(FileLen - pnext + 1) :
                ppc' = "push" /\ pleft' = n /\ UNCHANGED pdone
    /\ UNCHANGED <<engineVars, deviceVars, pring, pnext, heard, recordVars>>

(* A plausible slip: a full ring is not waited for. *)
PlayPush_NoWait ==
    /\ ppc = "push"
    /\ ~pdone
    /\ pring' = IF Len(pring) < PlayRingCap THEN Append(pring, pnext) ELSE pring
    /\ pnext' = pnext + 1
    /\ pleft' = pleft - 1
    /\ ppc' = IF pleft = 1 THEN "read" ELSE "push"
    /\ UNCHANGED <<engineVars, deviceVars, pdone, heard, recordVars>>

PlayPush ==
    /\ ppc = "push"
    /\ ~pdone
    /\ Len(pring) < PlayRingCap
    /\ pring' = Append(pring, pnext)
    /\ pnext' = pnext + 1
    /\ pleft' = pleft - 1
    /\ ppc' = IF pleft = 1 THEN "read" ELSE "push"
    /\ UNCHANGED <<engineVars, deviceVars, pdone, heard, recordVars>>

(* `done' is looked at while waiting and before each sample. *)
PlayStop ==
    /\ ppc = "push"
    /\ pdone
    /\ ppc' = "end"
    /\ UNCHANGED <<engineVars, deviceVars, pring, pnext, pleft, pdone, heard,
                   recordVars>>
-----------------------------------------------------------------------------
(* writer_thread *)

(* A plausible slip: Finish is taken for one more chunk. *)
WriterTake_NoFinish ==
    /\ wpc = "recv"
    /\ chan # <<>>
    /\ chan' = Tail(chan)
    /\ wchunk' = Head(chan).chunk
    /\ wpc' = "write"
    /\ UNCHANGED <<engineVars, deviceVars, playVars, werror, file, taken, saved>>

WriterTake ==
    /\ wpc = "recv"
    /\ chan # <<>>
    /\ chan' = Tail(chan)
    /\ wchunk' = Head(chan).chunk
    /\ wpc' = IF Head(chan).finish THEN "seal" ELSE "write"
    /\ UNCHANGED <<engineVars, deviceVars, playVars, werror, file, taken, saved>>

(* A plausible slip: two seconds without a chunk end the recording. *)
WriterTimeout_Ends ==
    /\ wpc = "recv"
    /\ chan = <<>>
    /\ wpc' = "seal"
    /\ UNCHANGED <<engineVars, deviceVars, playVars, chan, wchunk, werror,
                   file, taken, saved>>

(* recv_timeout passed: another turn of the loop. *)
WriterTimeout ==
    /\ wpc = "recv"
    /\ chan = <<>>
    /\ UNCHANGED vars

WriterWrite ==
    /\ wpc = "write"
    /\ file' = [file EXCEPT !.data = @ \o wchunk]
    /\ wpc' = "recv"
    /\ UNCHANGED <<engineVars, deviceVars, playVars, chan, wchunk, werror,
                   taken, saved>>

(* A plausible slip: the header is written before the stream is closed. *)
WriterSeal_AfterHeader ==
    /\ wpc = "seal"
    /\ file' = [file EXCEPT !.header = Len(file.data)]
    /\ wpc' = "header"
    /\ UNCHANGED <<engineVars, deviceVars, playVars, chan, wchunk, werror,
                   taken, saved>>

(* GzEncoder::finish *)
WriterSeal ==
    /\ wpc = "seal"
    /\ file' = [file EXCEPT !.sealed = TRUE]
    /\ wpc' = "header"
    /\ UNCHANGED <<engineVars, deviceVars, playVars, chan, wchunk, werror,
                   taken, saved>>

WriterHeader ==
    /\ wpc = "header"
    /\ file' = [file EXCEPT !.header = Len(file.data)]
    /\ wpc' = "end"
    /\ UNCHANGED <<engineVars, deviceVars, playVars, chan, wchunk, werror,
                   taken, saved>>

(* The disk fails, perhaps in the middle: the thread returns the error, the *)
(* receiver goes and with it what is queued; GzEncoder's drop may still     *)
(* close the stream.                                                        *)
WriterFails ==
    /\ wpc \in {"write", "seal", "header"}
    /\ wpc' = "end"
    /\ werror' = TRUE
    /\ chan' = <<>>
    /\ \/ /\ wpc = "write"
          /\ \E n \in 0..Len(wchunk), closed \in BOOLEAN :
                file' = [file EXCEPT !.data = @ \o SubSeq(wchunk, 1, n),
                                     !.sealed = closed]
       \/ /\ wpc = "seal"
          /\ UNCHANGED file
       \/ /\ wpc = "header"
          /\ file' \in {file, [file EXCEPT !.header = Len(file.data)]}
    /\ UNCHANGED <<engineVars, deviceVars, playVars, wchunk, taken, saved>>
-----------------------------------------------------------------------------
(* pump_stream *)

(* The ring is over-filled at 55 %, and is then emptied down to 25 %. *)
OverFilled == 100 * Len(ring) >= 55 * RingCap
CatchupTarget == (25 * RingCap) \div 100

(* A plausible slip: the ring is caught up while recording, too. *)
PumpStart_AlwaysCatchUp ==
    /\ epc = "loop"
    /\ conn \/ playing
    /\ epc' = "pop"
    /\ drain' = <<>>
    /\ ring' = IF ~playing /\ OverFilled
               THEN SubSeq(ring, Len(ring) - CatchupTarget + 1, Len(ring))
               ELSE ring
    /\ UNCHANGED <<goal, conn, playing, rec, ops, produced, overflow, playVars,
                   recordVars>>

(* Unless it is recording, the engine drops what it is late with. *)
PumpStart ==
    /\ epc = "loop"
    /\ conn \/ playing
    /\ epc' = "pop"
    /\ drain' = <<>>
    /\ ring' = IF ~playing /\ ~rec /\ OverFilled
               THEN SubSeq(ring, Len(ring) - CatchupTarget + 1, Len(ring))
               ELSE ring
    /\ UNCHANGED <<goal, conn, playing, rec, ops, produced, overflow, playVars,
                   recordVars>>

PumpPop ==
    /\ epc = "pop"
    /\ Len(drain) < DrainCap
    /\ IF playing
       THEN /\ pring # <<>>
            /\ drain' = Append(drain, Head(pring))
            /\ pring' = Tail(pring)
            /\ heard' = heard + 1
            /\ UNCHANGED ring
       ELSE /\ ring # <<>>
            /\ drain' = Append(drain, Head(ring))
            /\ ring' = Tail(ring)
            /\ UNCHANGED <<pring, heard>>
    /\ UNCHANGED <<epc, goal, conn, playing, rec, ops, produced, overflow, ppc,
                   pnext, pleft, pdone, recordVars>>

(* The ring is empty, or the pump has its fill. *)
PumpDrained ==
    /\ epc = "pop"
    /\ Len(drain) = DrainCap \/ (IF playing THEN pring ELSE ring) = <<>>
    /\ epc' = "check"
    /\ UNCHANGED <<goal, conn, playing, rec, drain, ops, deviceVars, playVars,
                   recordVars>>

(* finished() is asked after the drain; the samples go to the recorder. *)
PumpCheck ==
    /\ epc = "check"
    /\ playing' = (playing /\ ~(pdone /\ drain = <<>>))
    /\ epc' = IF rec /\ drain # <<>> THEN "push" ELSE "loop"
    /\ taken' = IF rec THEN taken \o drain ELSE taken
    /\ drain' = IF rec THEN drain ELSE <<>>
    /\ UNCHANGED <<goal, conn, rec, ops, deviceVars, playVars, wpc,
                   chan, wchunk, werror, file, saved>>

(* IqRecorder::push: the send blocks while the channel is full ... *)
PushChunk ==
    /\ epc = "push"
    /\ wpc # "end"
    /\ Len(chan) < ChanCap
    /\ chan' = Append(chan, Chunk(drain))
    /\ epc' = "loop"
    /\ drain' = <<>>
    /\ UNCHANGED <<goal, conn, playing, rec, ops, deviceVars, playVars,
                   wpc, wchunk, werror, file, taken, saved>>

(* ... and the engine thread panics when the writer thread has returned. *)
PushPanics ==
    /\ epc = "push"
    /\ wpc = "end"
    /\ epc' = "dead"
    /\ conn' = FALSE
    /\ playing' = FALSE
    /\ rec' = FALSE
    /\ ring' = <<>>
    /\ pdone' = TRUE
    /\ UNCHANGED <<goal, drain, ops, produced, overflow, ppc, pring, pnext,
                   pleft, heard, recordVars>>
-----------------------------------------------------------------------------
(* handle_command, of the commands that reach these threads. *)

Command(g) ==
    /\ epc = "loop"
    /\ ops < MaxOps
    /\ ops' = ops + 1
    /\ goal' = g
    /\ UNCHANGED <<drain, produced, overflow>>

(* IqRecorder::start; one that fails leaves no recorder.  A new recording  *)
(* writes a new file.                                                      *)
StartRecord ==
    /\ Command("none")
    /\ ~rec
    /\ rec' = TRUE
    /\ wpc' = "recv"
    /\ chan' = <<>>
    /\ werror' = FALSE
    /\ file' = NoFile
    /\ taken' = <<>>
    /\ saved' = FALSE
    /\ UNCHANGED <<epc, conn, playing, ring, playVars, wchunk>>

StopRecord ==
    /\ Command("stopRecord")
    /\ epc' = "stopRec"
    /\ UNCHANGED <<conn, playing, rec, ring, playVars, recordVars>>

StopPlay ==
    /\ Command("stopPlay")
    /\ epc' = "dropPlay"
    /\ UNCHANGED <<conn, playing, rec, ring, playVars, recordVars>>

(* teardown begins: the device goes; the rest of it follows. *)
TearDown(g) ==
    /\ Command(g)
    /\ conn' = FALSE
    /\ ring' = <<>>
    /\ epc' = "dropPlay"
    /\ UNCHANGED <<playing, rec, playVars, recordVars>>

(* IqPlayback::drop raises `done' ... *)
DropPlay ==
    /\ epc = "dropPlay"
    /\ epc' = "joinPlay"
    /\ playing' = FALSE
    /\ pdone' = (pdone \/ playing)
    /\ UNCHANGED <<goal, conn, rec, drain, ops, deviceVars, ppc, pring, pnext,
                   pleft, heard, recordVars>>

(* ... and waits for the thread. *)
JoinPlay ==
    /\ epc = "joinPlay"
    /\ ppc \in {"none", "end"}
    /\ epc' = IF goal = "stopPlay" THEN "settle" ELSE "stopRec"
    /\ UNCHANGED <<goal, conn, playing, rec, drain, ops, deviceVars, playVars,
                   recordVars>>

(* stop_recorder sends Finish, which blocks while the channel is full and  *)
(* is ignored when the thread has returned ...                             *)
SendFinish ==
    /\ epc = "stopRec"
    /\ IF rec
       THEN /\ wpc = "end" \/ Len(chan) < ChanCap
            /\ chan' = IF wpc = "end" THEN chan ELSE Append(chan, Finish)
            /\ epc' = "joinRec"
       ELSE /\ epc' = "settle"
            /\ UNCHANGED chan
    /\ UNCHANGED <<goal, conn, playing, rec, drain, ops, deviceVars, playVars,
                   wpc, wchunk, werror, file, taken, saved>>

(* ... and waits for it. *)
JoinRecorder ==
    /\ epc = "joinRec"
    /\ wpc = "end"
    /\ rec' = FALSE
    /\ saved' = ~werror
    /\ epc' = "settle"
    /\ UNCHANGED <<goal, conn, playing, drain, ops, deviceVars, playVars, wpc,
                   chan, wchunk, werror, file, taken>>

(* The command goes on after the teardown. *)
Settle ==
    /\ epc = "settle"
    /\ epc' = IF goal = "quit" THEN "exit" ELSE "loop"
    /\ goal' = "none"
    /\ IF goal = "connect" THEN conn' = TRUE ELSE UNCHANGED conn
    /\ IF goal = "play"
       THEN /\ playing' = TRUE
            /\ ppc' = "read" /\ pring' = <<>> /\ pnext' = 1 /\ pleft' = 0
            /\ pdone' = FALSE /\ heard' = 0
       ELSE UNCHANGED <<playing, playVars>>
    /\ UNCHANGED <<rec, drain, ops, deviceVars, recordVars>>
-----------------------------------------------------------------------------
PlaybackThread == PlayRead \/ PlayPush \/ PlayStop

WriterThread == WriterTake \/ WriterWrite \/ WriterSeal \/ WriterHeader

Pump ==
    \/ PumpStart
    \/ PumpPop
    \/ PumpDrained
    \/ PumpCheck
    \/ PushChunk
    \/ PushPanics

CommandStart ==
    \/ StartRecord
    \/ StopRecord
    \/ StopPlay
    \/ \E g \in {"connect", "play", "off", "quit"} : TearDown(g)

CommandRest ==
    \/ DropPlay
    \/ JoinPlay
    \/ SendFinish
    \/ JoinRecorder
    \/ Settle

(* The engine thread has ended, by itself or in a panic, or waits for a    *)
(* command with no source to pump.                                         *)
Idle == epc \in {"exit", "dead", "loop"} /\ UNCHANGED vars

Next ==
    \/ Deliver
    \/ PlaybackThread
    \/ WriterThread
    \/ WriterTimeout
    \/ WriterFails
    \/ Pump
    \/ CommandStart
    \/ CommandRest
    \/ Idle

Spec == Init /\ [][Next]_vars

(* The three threads run, and the disk answers. *)
Fairness ==
    /\ WF_vars(PlaybackThread)
    /\ WF_vars(WriterThread)
    /\ WF_vars(Pump \/ CommandRest)

FairSpec == Spec /\ Fairness
-----------------------------------------------------------------------------
(* A header that counts samples is written last: whoever finds one, after  *)
(* a crash too, finds the stream closed and that many samples in it.       *)
HeaderHonest ==
    file.header # 0 => file.sealed /\ file.header = Len(file.data)

(* "IQ capture saved" is the truth: every sample the engine drained while  *)
(* recording is in the file, in order, whatever was queued when it stopped *)
(* ("Blocks until the chunk is accepted - never drops", iq_record.rs:151). *)
SavedIsComplete ==
    saved => file.data = taken /\ file.header = Len(taken)

(* "Never discard ring samples while recording - every sample must reach   *)
(* the file" (pump.rs:52): between two samples of a recording there is no  *)
(* other, except those the device could not even put into the ring.        *)
RecordingGapless ==
    \A i \in 1..(Len(taken) - 1) :
        \A n \in (taken[i] + 1)..(taken[i + 1] - 1) : n \in overflow

(* A playback drops nothing on its way: what the engine drains is the      *)
(* file, from its first sample on, without a gap.                          *)
PlaybackGapless ==
    playing /\ pring # <<>> => Head(pring) = heard + 1

(* No thread outlives its owner: a playback or a recording that is gone    *)
(* leaves nobody behind who goes on reading, pushing or writing the file   *)
(* that the next one may be using.                                         *)
NoStrayThread ==
    epc # "dead" =>
        /\ ppc \in {"read", "push"} => playing \/ epc = "joinPlay"
        /\ wpc \notin {"none", "end"} => rec

(* The engine thread never hangs in the channel or in one of its joins.    *)
EngineComesBack ==
    (epc \notin {"loop", "exit", "dead"}) ~> (epc \in {"loop", "exit", "dead"})

(* A playback ends by itself, when its file does. *)
PlaybackEnds == playing ~> ~playing
=============================================================================
