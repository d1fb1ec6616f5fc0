-------------------------- MODULE EngineConnection --------------------------
(***************************************************************************)
(* src/bin/waterfall/engine: the connection lifecycle.  The engine thread  *)
(* takes commands from an unbounded channel, connects, pumps, detects dead *)
(* links and retries; the UI thread sends the commands and may raise the   *)
(* shared flag connect_cancel at any moment.  The two threads meet only in *)
(* the channel, in that flag and in the published snapshot, so an action   *)
(* is what the engine does between two accesses of them.                   *)
(*                                                                         *)
(* start_connect drains the channel BEFORE it connects, so commands are    *)
(* handled re-entrantly: a Connect handled there runs a start_connect of   *)
(* its own inside the first.  `frames' is that call stack.                 *)
(***************************************************************************)
EXTENDS Integers, Sequences

CONSTANTS
    Dest,         \* receivers the user may ask for
    KiwiDest,     \* those of them that are network receivers (is_kiwi)
    Center,       \* centre frequencies
    None,         \* Option::None
    Ops,          \* the user's operations in this instance
    MaxSent,      \* bound: how many operations the user performs
    MaxAttempt    \* bound: where the count of attempts saturates

UserOps == {"connect", "cancel", "tune", "control", "record", "stop_record",
            "play", "stop_play", "quit"}

ASSUME KiwiAssumption == KiwiDest \subseteq Dest
ASSUME OpsAssumption == Ops \subseteq UserOps
ASSUME SentAssumption == MaxSent \in Nat
ASSUME AttemptAssumption == MaxAttempt \in Nat \ {0}
ASSUME NoneAssumption == None \notin [dest : Dest, center : Center]

(* ConnectRequest, and of a Connection: whose it is and where it is tuned. *)
Request == [dest : Dest, center : Center]

Command ==
    [op : {"Connect"}, req : Request]
      \cup [op : {"Tune"}, center : Center]
      \cup [op : {"Disconnect", "Control", "StartIqRecord", "StopIqRecord",
                  "PlayIqFile", "StopIqPlayback", "Shutdown"}]

ErrorKind == {"busy", "other"}   \* what schedule_reconnect tells apart

VARIABLES
    (* The engine's fields. *)
    conn,       \* Engine::conn
    request,    \* Engine::request
    state,      \* Engine::state, the published ConnState (its kind)
    lastError,  \* Engine::last_error
    attempt,    \* Engine::reconnect_attempt
    retry,      \* Engine::retry_at: never, later or now, and the delay chosen
    firstIq,    \* Engine::first_iq_received
    playback,   \* Engine::playback is Some
    recorder,   \* Engine::recorder: "off", or what its header describes
    running,    \* Engine::running
    (* The engine thread's control. *)
    pc,         \* what the engine thread does next
    base,       \* where the outermost start_connect returns to
    frames,     \* the start_connect calls in progress, innermost last
    got,        \* did the last pump drain any samples
    (* Shared with the UI thread. *)
    cmdq,       \* the command channel
    cancel,     \* connect_cancel
    (* The UI thread. *)
    ui,         \* "idle", between the halves of a cancel or quit, or "closed"
    uiPlaying,  \* stats.iq_playback of the last snapshot the UI took
    intent,     \* what the user asked for last: "off", "on" or "file"
    sent,       \* operations performed so far
    (* The receiver behind conn, and time. *)
    link,       \* KiwiSource::link_error and link_alive
    age         \* time since data arrived, or since connecting if none has

engineVars == <<conn, request, state, lastError, attempt, retry, firstIq,
                playback, recorder, running>>
controlVars == <<pc, base, frames, got>>
uiVars == <<ui, uiPlaying, intent, sent>>
vars == <<engineVars, controlVars, cmdq, cancel, uiVars, link, age>>

Pc == {"top", "drain", "handshake", "pump", "drain2", "stall", "idle", "recv",
       "begun", "nested", "connecting", "exit"}

(* Buckets of `age': up to 12 s, 12 to 20 s, 20 to 45 s, more than 45 s. *)
Age == 0..3

Link == [err : ErrorKind \cup {"none"}, alive : BOOLEAN]
Healthy == [err |-> "none", alive |-> TRUE]
-----------------------------------------------------------------------------
(* Pure policy (engine/policy.rs). *)
BusyDelaySecs == 15
Least(m, n) == IF m <= n THEN m ELSE n

ReconnectRetrySecs(kiwi, n) ==
    LET pow == 2 ^ Least(IF n = 0 THEN 0 ELSE n - 1, 6)
    IN  IF kiwi THEN Least(3 * pow, 60) ELSE Least(2 * pow, 30)

(* elapsed() > handshake_timeout: 45 s for a Kiwi, otherwise 12 s *)
HandshakeOver(kiwi) == age >= (IF kiwi THEN 3 ELSE 1)
(* elapsed() > stall_timeout: 20 s for a Kiwi, otherwise 12 s *)
StallOver(kiwi) == age >= (IF kiwi THEN 2 ELSE 1)

IsKiwi(r) == r # None /\ r.dest \in KiwiDest
-----------------------------------------------------------------------------
Delay == {BusyDelaySecs}
           \cup {ReconnectRetrySecs(k, n) : k \in BOOLEAN, n \in 0..MaxAttempt}

Retry == [when : {"never", "later", "now"}, secs : Delay]
NoRetry == [when |-> "never", secs |-> BusyDelaySecs]

TypeOK ==
    /\ conn \in Request \cup {None}
    /\ request \in Request \cup {None}
    /\ state \in {"Disconnected", "Connecting", "Streaming", "Reconnecting"}
    /\ lastError \in ErrorKind \cup {"none"}
    /\ attempt \in 0..MaxAttempt
    /\ retry \in Retry
    /\ firstIq \in BOOLEAN
    /\ playback \in BOOLEAN
    /\ recorder \in {"off", "source", "default"}
    /\ running \in BOOLEAN
    /\ pc \in Pc
    /\ base \in Pc
    /\ frames \in Seq(Request)
    /\ got \in BOOLEAN
    /\ cmdq \in Seq(Command)
    /\ cancel \in BOOLEAN
    /\ ui \in {"idle", "aborted", "quitting", "closed"}
    /\ uiPlaying \in BOOLEAN
    /\ intent \in {"off", "on", "file"}
    /\ sent \in 0..MaxSent
    /\ link \in Link
    /\ age \in Age

(* Engine::new and engine_link *)
Init ==
    /\ conn = None
    /\ request = None
    /\ state = "Disconnected"
    /\ lastError = "none"
    /\ attempt = 0
    /\ retry = NoRetry
    /\ firstIq = FALSE
    /\ playback = FALSE
    /\ recorder = "off"
    /\ running = TRUE
    /\ pc = "top"
    /\ base = "top"
    /\ frames = <<>>
    /\ got = FALSE
    /\ cmdq = <<>>
    /\ cancel = FALSE
    /\ ui = "idle"
    /\ uiPlaying = FALSE
    /\ intent = "off"
    /\ sent = 0
    /\ link = Healthy
    /\ age = 0
-----------------------------------------------------------------------------
(* Parts shared by the engine's handlers. *)

(* teardown: the device, the playback and the recorder all go. *)
Teardown ==
    /\ conn' = None
    /\ link' = Healthy
    /\ playback' = FALSE
    /\ recorder' = "off"

(* schedule_reconnect, after set_error(err); the count saturates *)
Schedule(err) ==
    LET n == Least(attempt + 1, MaxAttempt)
    IN  /\ attempt' = n
        /\ retry' = [when |-> "later",
                     secs |-> IF err = "busy"
                              THEN BusyDelaySecs
                              ELSE ReconnectRetrySecs(IsKiwi(request), n)]

(* A plausible slip: the delay is chosen before the error is stored. *)
Failed_ScheduleFirst(err) ==
    /\ Schedule(lastError)
    /\ lastError' = err
    /\ state' = "Reconnecting"

Failed(err) ==
    /\ lastError' = err
    /\ Schedule(err)
    /\ state' = "Reconnecting"

(* A plausible slip: only the flag is looked at. *)
Unwanted_FlagOnly == cancel

Unwanted == cancel \/ request = None

(* A plausible slip: an unwanted connection ends without a new state. *)
FailConnection_KeepState(err) ==
    /\ Teardown
    /\ IF Unwanted
       THEN /\ lastError' = "none"
            /\ UNCHANGED <<state, attempt, retry>>
       ELSE Failed(err)

(* fail_connection *)
FailConnection(err) ==
    /\ Teardown
    /\ IF Unwanted
       THEN /\ lastError' = "none"
            /\ state' = "Disconnected"
            /\ UNCHANGED <<attempt, retry>>
       ELSE Failed(err)

(* Where a command handler returns to: a drain goes on, step() is over. *)
AfterCommand == IF pc = "recv" THEN "top" ELSE pc

(* The next command of the channel, in any of the places that take one. *)
Take(op) ==
    /\ pc \in {"drain", "drain2", "nested", "recv"}
    /\ cmdq # <<>>
    /\ Head(cmdq).op = op
    /\ cmdq' = Tail(cmdq)

Taken(op) ==
    /\ Take(op)
    /\ pc' = AfterCommand
    /\ UNCHANGED <<base, frames, got, uiVars>>

(* A start_connect returns, to the drain of the call around it if any. *)
Return ==
    /\ frames' = SubSeq(frames, 1, Len(frames) - 1)
    /\ pc' = IF Len(frames) = 1 THEN base ELSE "nested"
    /\ base' = IF Len(frames) = 1 THEN "top" ELSE base
-----------------------------------------------------------------------------
(* handle_command *)

(* The first half of start_connect: the flag is cleared, then teardown. *)
EnterConnect(r, ret) ==
    /\ cancel' = FALSE
    /\ Teardown
    /\ frames' = Append(frames, r)
    /\ base' = IF frames = <<>> THEN ret ELSE base
    /\ pc' = "begun"
    /\ UNCHANGED <<state, lastError, firstIq, running, got, uiVars, age>>

CmdConnect ==
    /\ Take("Connect")
    /\ request' = Head(cmdq).req
    /\ attempt' = 0
    /\ retry' = NoRetry
    /\ EnterConnect(Head(cmdq).req, AfterCommand)

(* A plausible slip: Disconnect stops the device and forgets the request. *)
CmdDisconnect_KeepRequest ==
    /\ Taken("Disconnect")
    /\ cancel' = TRUE
    /\ Teardown
    /\ retry' = NoRetry
    /\ attempt' = 0
    /\ lastError' = "none"
    /\ state' = "Disconnected"
    /\ UNCHANGED <<request, firstIq, running, age>>

CmdDisconnect ==
    /\ Taken("Disconnect")
    /\ cancel' = TRUE
    /\ Teardown
    /\ request' = None
    /\ retry' = NoRetry
    /\ attempt' = 0
    /\ lastError' = "none"
    /\ state' = "Disconnected"
    /\ UNCHANGED <<firstIq, running, age>>

CmdTune ==
    /\ Taken("Tune")
    /\ LET hz == Head(cmdq).center
       IN  /\ conn' = IF conn = None THEN None ELSE [conn EXCEPT !.center = hz]
           /\ request' = IF request = None THEN None
                         ELSE [request EXCEPT !.center = hz]
    /\ UNCHANGED <<state, lastError, attempt, retry, firstIq, playback,
                   recorder, running, cancel, age, link>>

(* SetRfAgc, ..., SetSoapyAntenna, SetAudioDevice: a device setting or the *)
(* audio output, nothing of the lifecycle.                                 *)
CmdControl ==
    /\ Taken("Control")
    /\ UNCHANGED <<engineVars, cancel, age, link>>

(* The recorder's header describes the source; without one, a default. *)
CmdStartIqRecord ==
    /\ Taken("StartIqRecord")
    /\ \/ /\ recorder # "off"
          /\ UNCHANGED <<recorder, lastError>>
       \/ /\ recorder = "off"
          /\ recorder' = IF conn # None \/ playback
                         THEN "source" ELSE "default"
          /\ UNCHANGED lastError
       \/ /\ recorder = "off"
          /\ lastError' = "other"
          /\ UNCHANGED recorder
    /\ UNCHANGED <<conn, request, state, attempt, retry, firstIq, playback,
                   running, cancel, age, link>>

CmdStopIqRecord ==
    /\ Taken("StopIqRecord")
    /\ recorder' = "off"
    /\ UNCHANGED <<conn, request, state, lastError, attempt, retry, firstIq,
                   playback, running, cancel, age, link>>

(* A plausible slip: a file is played while the request is kept. *)
CmdPlayIqFile_KeepRequest ==
    /\ Taken("PlayIqFile")
    /\ conn' = None
    /\ link' = Healthy
    /\ recorder' = "off"
    /\ playback' = TRUE
    /\ firstIq' = TRUE
    /\ age' = 0
    /\ state' = "Streaming"
    /\ lastError' = "none"
    /\ UNCHANGED <<request, attempt, retry, running, cancel>>

CmdPlayIqFile ==
    /\ Taken("PlayIqFile")
    /\ conn' = None
    /\ link' = Healthy
    /\ recorder' = "off"
    /\ request' = None
    /\ \/ /\ playback' = TRUE
          /\ firstIq' = TRUE
          /\ age' = 0
          /\ state' = "Streaming"
          /\ lastError' = "none"
       \/ /\ playback' = FALSE
          /\ state' = "Disconnected"
          /\ lastError' = "other"
          /\ UNCHANGED <<firstIq, age>>
    /\ UNCHANGED <<attempt, retry, running, cancel>>

CmdStopIqPlayback ==
    /\ Taken("StopIqPlayback")
    /\ playback' = FALSE
    /\ state' = "Disconnected"
    /\ UNCHANGED <<conn, request, lastError, attempt, retry, firstIq, recorder,
                   running, cancel, age, link>>

CmdShutdown ==
    /\ Taken("Shutdown")
    /\ cancel' = TRUE
    /\ Teardown
    /\ running' = FALSE
    /\ UNCHANGED <<request, state, lastError, attempt, retry, firstIq, age>>
-----------------------------------------------------------------------------
(* step() and run() *)

(* Engine steps that handle no command leave all this alone. *)
Undisturbed == UNCHANGED <<cmdq, uiVars>>

(* A plausible slip: the loop of run() does not look at `running'. *)
Top_Forever ==
    /\ pc = "top"
    /\ pc' = "drain"
    /\ Undisturbed
    /\ UNCHANGED <<engineVars, base, frames, got, cancel, link, age>>

(* run(): another step, or the end of the thread, which drops the rest. *)
Top ==
    /\ pc = "top"
    /\ IF running
       THEN /\ pc' = "drain"
            /\ UNCHANGED <<conn, playback, recorder, link>>
       ELSE /\ pc' = "exit"
            /\ Teardown
    /\ Undisturbed
    /\ UNCHANGED <<request, state, lastError, attempt, retry, firstIq, running,
                   base, frames, got, cancel, age>>

(* try_recv finds the channel empty or, once the UI half is gone, closed. *)
DrainEmpty ==
    /\ cmdq = <<>>
    /\ running' = (running /\ ui # "closed")

(* drain_commands at the head of step() *)
Drained ==
    /\ pc = "drain"
    /\ DrainEmpty
    /\ pc' = IF ~running' THEN "top"
             ELSE IF conn # None \/ playback THEN "handshake" ELSE "idle"
    /\ Undisturbed
    /\ UNCHANGED <<conn, request, state, lastError, attempt, retry, firstIq,
                   playback, recorder, base, frames, got, cancel, age, link>>

(* poll_handshake *)
PollHandshake ==
    /\ pc = "handshake"
    /\ pc' = "pump"
    /\ IF ~firstIq /\ (link.err # "none" \/ ~link.alive
                         \/ HandshakeOver(IsKiwi(conn)))
       THEN FailConnection(IF link.err # "none" THEN link.err ELSE "other")
       ELSE UNCHANGED <<conn, playback, recorder, lastError, state, attempt,
                        retry, link>>
    /\ Undisturbed
    /\ UNCHANGED <<request, firstIq, running, base, frames, got, cancel, age>>

(* pump_stream found samples, in the ring or in the file. *)
PumpData ==
    /\ pc = "pump"
    /\ conn # None \/ playback
    /\ pc' = "drain2"
    /\ got' = TRUE
    /\ firstIq' = TRUE
    /\ state' = IF firstIq THEN state ELSE "Streaming"
    /\ age' = 0
    /\ Undisturbed
    /\ UNCHANGED <<conn, request, lastError, attempt, retry, playback,
                   recorder, running, base, frames, cancel, link>>

(* pump_stream found none; the file may be at its end. *)
PumpNothing ==
    /\ pc = "pump"
    /\ pc' = "drain2"
    /\ got' = FALSE
    /\ \/ UNCHANGED <<playback, state>>
       \/ /\ playback
          /\ playback' = FALSE
          /\ state' = "Disconnected"
    /\ Undisturbed
    /\ UNCHANGED <<conn, request, lastError, attempt, retry, firstIq, recorder,
                   running, base, frames, cancel, age, link>>

(* drain_commands after a pump: on to the stall check, or another pump. *)
Drained2 ==
    /\ pc = "drain2"
    /\ DrainEmpty
    /\ \/ pc' = "stall"
       \/ /\ running'
          /\ got
          /\ pc' = "pump"
    /\ got' = FALSE
    /\ Undisturbed
    /\ UNCHANGED <<conn, request, state, lastError, attempt, retry, firstIq,
                   playback, recorder, base, frames, cancel, age, link>>

(* maybe_reconnect_on_stall.  Without a connection there is no link error, *)
(* no dead reader, and the timeouts are those of a local device.           *)
CheckStall ==
    /\ pc = "stall"
    /\ pc' = "top"
    /\ LET linkError  == conn # None /\ link.err # "none"
           readerDead == conn # None /\ IsKiwi(conn) /\ ~link.alive
           stalled    == IF firstIq THEN StallOver(IsKiwi(conn))
                                    ELSE HandshakeOver(IsKiwi(conn))
       IN  IF linkError \/ readerDead \/ stalled
           THEN FailConnection(IF linkError THEN link.err ELSE "other")
           ELSE UNCHANGED <<conn, playback, recorder, lastError, state,
                            attempt, retry, link>>
    /\ Undisturbed
    /\ UNCHANGED <<request, firstIq, running, base, frames, got, cancel, age>>

(* A plausible slip: the retry is dropped when its time has come. *)
MaybeRetry_Forget ==
    /\ pc = "idle"
    /\ pc' = "recv"
    /\ retry' = NoRetry
    /\ state' = IF request = None \/ retry.when = "never" THEN state
                ELSE "Reconnecting"
    /\ Undisturbed
    /\ UNCHANGED <<conn, request, lastError, attempt, firstIq, playback,
                   recorder, running, base, frames, got, cancel, age, link>>

(* maybe_retry_reconnect: nothing to retry, or not yet *)
MaybeRetry ==
    /\ pc = "idle"
    /\ request = None \/ retry.when # "now"
    /\ pc' = "recv"
    /\ state' = IF request = None \/ retry.when = "never" THEN state
                ELSE "Reconnecting"
    /\ Undisturbed
    /\ UNCHANGED <<conn, request, lastError, attempt, retry, firstIq, playback,
                   recorder, running, base, frames, got, cancel, age, link>>

(* maybe_retry_reconnect: the time has come *)
RetryNow ==
    /\ pc = "idle"
    /\ request # None
    /\ retry.when = "now"
    /\ EnterConnect(request, "recv")
    /\ UNCHANGED <<request, attempt, retry, cmdq>>

(* await_command: no command within 20 ms, or the UI half is gone *)
AwaitNothing ==
    /\ pc = "recv"
    /\ DrainEmpty
    /\ pc' = "top"
    /\ Undisturbed
    /\ UNCHANGED <<conn, request, state, lastError, attempt, retry, firstIq,
                   playback, recorder, base, frames, got, cancel, age, link>>
-----------------------------------------------------------------------------
(* The rest of start_connect, for the innermost call in progress. *)
Target == frames[Len(frames)]

ConnectBegun ==
    /\ pc = "begun"
    /\ IF Unwanted
       THEN /\ state' = "Disconnected"
            /\ Return
       ELSE /\ state' = "Connecting"
            /\ pc' = "nested"
            /\ UNCHANGED <<frames, base>>
    /\ Undisturbed
    /\ UNCHANGED <<conn, request, lastError, attempt, retry, firstIq, playback,
                   recorder, running, got, cancel, age, link>>

(* Its drain_commands is through; connect() is called unless unwanted. *)
ConnectDrained ==
    /\ pc = "nested"
    /\ DrainEmpty
    /\ IF Unwanted
       THEN /\ state' = "Disconnected"
            /\ Return
       ELSE /\ pc' = "connecting"
            /\ UNCHANGED <<state, frames, base>>
    /\ Undisturbed
    /\ UNCHANGED <<conn, request, lastError, attempt, retry, firstIq, playback,
                   recorder, got, cancel, age, link>>

(* connect() returned a device.  It is stopped again if unwanted by now. *)
ConnectOk ==
    /\ pc = "connecting"
    /\ IF Unwanted
       THEN /\ state' = "Disconnected"
            /\ UNCHANGED <<conn, firstIq, age, attempt, retry, lastError,
                           link>>
       ELSE /\ conn' = Target
            /\ firstIq' = (~IsKiwi(Target))
            /\ age' = 0
            /\ attempt' = 0
            /\ retry' = NoRetry
            /\ lastError' = "none"
            /\ state' = IF IsKiwi(Target) THEN "Connecting" ELSE "Streaming"
            /\ link' = Healthy
    /\ Return
    /\ UNCHANGED <<request, playback, recorder, running, got, cmdq,
                   cancel, uiVars>>

(* A plausible slip: the failure is reported but no retry is scheduled. *)
ConnectErr_NoSchedule(err) ==
    /\ pc = "connecting"
    /\ IF Unwanted
       THEN /\ state' = "Disconnected"
            /\ UNCHANGED <<attempt, retry, lastError>>
       ELSE /\ lastError' = err
            /\ state' = "Reconnecting"
            /\ UNCHANGED <<attempt, retry>>
    /\ Return
    /\ Undisturbed
    /\ UNCHANGED <<conn, request, firstIq, playback, recorder, running,
                   got, cancel, age, link>>

(* connect() failed, or noticed the flag and gave up. *)
ConnectErr(err) ==
    /\ pc = "connecting"
    /\ IF Unwanted
       THEN /\ state' = "Disconnected"
            /\ UNCHANGED <<attempt, retry, lastError>>
       ELSE Failed(err)
    /\ Return
    /\ Undisturbed
    /\ UNCHANGED <<conn, request, firstIq, playback, recorder, running,
                   got, cancel, age, link>>
-----------------------------------------------------------------------------
(* The UI thread. *)

CanSend(op) ==
    /\ op \in Ops
    /\ ui = "idle"
    /\ sent < MaxSent
    /\ sent' = sent + 1

Quiet == UNCHANGED <<engineVars, controlVars, link, age>>

UiSend(op, cmd) ==
    /\ CanSend(op)
    /\ cmdq' = Append(cmdq, cmd)
    /\ Quiet
    /\ UNCHANGED <<cancel, ui, uiPlaying>>

(* connect_now *)
UiConnect(r) ==
    /\ UiSend("connect", [op |-> "Connect", req |-> r])
    /\ intent' = "on"

UiTune(hz) ==
    /\ UiSend("tune", [op |-> "Tune", center |-> hz])
    /\ UNCHANGED intent

UiControl ==
    /\ UiSend("control", [op |-> "Control"])
    /\ UNCHANGED intent

UiRecord ==
    /\ UiSend("record", [op |-> "StartIqRecord"])
    /\ UNCHANGED intent

UiStopRecord ==
    /\ UiSend("stop_record", [op |-> "StopIqRecord"])
    /\ UNCHANGED intent

UiPlay ==
    /\ UiSend("play", [op |-> "PlayIqFile"])
    /\ intent' = "file"

(* Offered only while the last snapshot shows a playback. *)
UiStopPlay ==
    /\ uiPlaying
    /\ UiSend("stop_play", [op |-> "StopIqPlayback"])
    /\ UNCHANGED intent

(* try_poll: what the UI knows of the engine is the last snapshot. *)
UiPoll ==
    /\ ui = "idle"
    /\ uiPlaying' = playback
    /\ Quiet
    /\ UNCHANGED <<cmdq, cancel, ui, intent, sent>>

(* cancel_connection: abort_connect() ... *)
UiAbort ==
    /\ CanSend("cancel")
    /\ cancel' = TRUE
    /\ ui' = "aborted"
    /\ Quiet
    /\ UNCHANGED <<cmdq, uiPlaying, intent>>

(* ... then send(Disconnect) *)
UiDisconnect ==
    /\ ui = "aborted"
    /\ ui' = "idle"
    /\ cmdq' = Append(cmdq, [op |-> "Disconnect"])
    /\ intent' = "off"
    /\ Quiet
    /\ UNCHANGED <<cancel, uiPlaying, sent>>

(* shutdown_now: abort_connect() ... *)
UiQuit ==
    /\ CanSend("quit")
    /\ cancel' = TRUE
    /\ ui' = "quitting"
    /\ Quiet
    /\ UNCHANGED <<cmdq, uiPlaying, intent>>

(* ... then send(Shutdown), and the UI half of the channel is dropped *)
UiClose ==
    /\ ui = "quitting"
    /\ ui' = "closed"
    /\ cmdq' = Append(cmdq, [op |-> "Shutdown"])
    /\ intent' = "off"
    /\ Quiet
    /\ UNCHANGED <<cancel, uiPlaying, sent>>
-----------------------------------------------------------------------------
(* The receiver behind conn, and time. *)

(* A Kiwi refuses (all its slots are busy), fails, or its reader ends;     *)
(* other sources report neither errors nor a dead link.                    *)
LinkFails ==
    /\ IsKiwi(conn)
    /\ link = Healthy
    /\ link' \in [err : ErrorKind, alive : BOOLEAN]
                   \cup {[err |-> "none", alive |-> FALSE]}
    /\ UNCHANGED <<engineVars, controlVars, cmdq, cancel, uiVars, age>>

TimePasses ==
    /\ age < 3
    /\ age' = age + 1
    /\ UNCHANGED <<engineVars, controlVars, cmdq, cancel, uiVars, link>>

RetryDue ==
    /\ retry.when = "later"
    /\ retry' = [retry EXCEPT !.when = "now"]
    /\ UNCHANGED <<conn, request, state, lastError, attempt, firstIq, playback,
                   recorder, running, controlVars, cmdq, cancel, uiVars, link,
                   age>>
-----------------------------------------------------------------------------
HandleCommand ==
    \/ CmdConnect
    \/ CmdDisconnect
    \/ CmdTune
    \/ CmdControl
    \/ CmdStartIqRecord
    \/ CmdStopIqRecord
    \/ CmdPlayIqFile
    \/ CmdStopIqPlayback
    \/ CmdShutdown

EngineStep ==
    \/ Top
    \/ Drained
    \/ PollHandshake
    \/ PumpData
    \/ PumpNothing
    \/ Drained2
    \/ CheckStall
    \/ MaybeRetry
    \/ RetryNow
    \/ AwaitNothing
    \/ ConnectBegun
    \/ ConnectDrained
    \/ ConnectOk
    \/ \E err \in ErrorKind : ConnectErr(err)

UserStep ==
    \/ \E r \in Request : UiConnect(r)
    \/ \E hz \in Center : UiTune(hz)
    \/ UiControl
    \/ UiRecord
    \/ UiStopRecord
    \/ UiPlay
    \/ UiStopPlay
    \/ UiAbort
    \/ UiQuit

(* The second half of what the UI thread has begun. *)
UiFinish == UiDisconnect \/ UiClose

Environment == LinkFails \/ TimePasses \/ RetryDue

(* The engine thread has ended: the only state without further steps. *)
Ended == pc = "exit" /\ UNCHANGED vars

Next ==
    \/ HandleCommand
    \/ EngineStep
    \/ UserStep
    \/ UiFinish
    \/ UiPoll
    \/ Environment
    \/ Ended

Spec == Init /\ [][Next]_vars

(* The engine thread runs, connect() returns in bounded time, the UI       *)
(* thread finishes what it has begun, and the clock goes on.  The user     *)
(* need not do anything.                                                   *)
Fairness ==
    /\ WF_vars(HandleCommand \/ EngineStep)
    /\ WF_vars(UiFinish)
    /\ WF_vars(RetryDue)

FairSpec == Spec /\ Fairness
-----------------------------------------------------------------------------
(* Properties. *)

(* No start_connect is in progress. *)
Settled == frames = <<>>

(* A cancel or quit of the user has begun and is not handled yet. *)
CancelPending ==
    \/ ui \in {"aborted", "quitting"}
    \/ \E i \in DOMAIN cmdq : cmdq[i].op \in {"Disconnect", "Shutdown"}

(* The engine never has two sources: a file is played only while there is  *)
(* neither a device nor a request for one.  pump_stream relies on it: it   *)
(* takes samples from the file but the centre, the rate and the decimation *)
(* from whichever is there.                                                *)
ExclusiveSource == playback => conn = None /\ request = None

(* No device outlives the request it was opened for: whatever commands     *)
(* overtake a connect(), Disconnect and playback leave no receiver running. *)
DeviceIsWanted == conn # None => request # None

(* What the user asked for is live, or being connected, or will be tried   *)
(* again: a request is never left without a device and without a retry,    *)
(* except for the moment a cancel takes to be handled.                     *)
WantedIsPursued ==
    Settled /\ running /\ request # None /\ conn = None /\ ~CancelPending
        => retry.when # "never"

(* The published state is "streaming" only while there is something to     *)
(* stream, and "reconnecting" only while a retry is scheduled.             *)
StateIsBacked ==
    Settled /\ running =>
        /\ state = "Streaming" => conn # None \/ playback
        /\ state = "Reconnecting" => request # None /\ retry.when # "never"

(* A receiver that said it is busy is left alone for the fixed delay:      *)
(* while that is the error shown, the next attempt is not the shorter one  *)
(* of the backoff (policy.rs:174).                                         *)
BusyDelayHonoured ==
    Settled /\ lastError = "busy" /\ retry.when # "never"
        => retry.secs = BusyDelaySecs

(* After the user's cancel or quit nothing stays connected or connecting,  *)
(* until the user asks for something else.                                 *)
CancelWins ==
    (intent = "off") ~> \/ intent # "off"
                        \/ Settled /\ conn = None /\ request = None
                        \/ pc = "exit"

(* The engine does not give up on a request: it is connected, or tried     *)
(* again, until the user withdraws it.                                     *)
NeverGivesUp ==
    (request # None /\ conn = None)
        ~> (conn # None \/ request = None \/ pc = "connecting" \/ pc = "exit")

(* shutdown_now never waits, so the thread must end by itself. *)
QuitEndsThread == (ui = "closed") ~> (pc = "exit")
-----------------------------------------------------------------------------
(* The lifecycle that a user of the engine sees.  After Shutdown the thread *)
(* only ends, whatever it still remembers.                                  *)
Receiver(r) == IF r = None THEN {} ELSE {r.dest}
Wanted == IF running THEN Receiver(request) ELSE {}
Device == Receiver(conn)
Trying == {frames[i].dest : i \in DOMAIN frames}
Again == running /\ request # None /\ retry.when # "never"
Shown == IF running THEN state ELSE "Disconnected"

Lifecycle == INSTANCE EngineLifecycle WITH
    wanted <- Wanted, device <- Device, playing <- playback, trying <- Trying,
    again <- Again, shown <- Shown, cancelling <- CancelPending

(* Whatever the threads interleave and however deep connects nest, the     *)
(* engine keeps the promise of EngineLifecycle: a receiver is opened only  *)
(* while something is wanted, an attempt is given up only when nothing is  *)
(* wanted or a cancel is on its way, and every change of the published     *)
(* state is one that tells the truth (engine/inner).                       *)
RefinesLifecycle == Lifecycle!Spec
=============================================================================
