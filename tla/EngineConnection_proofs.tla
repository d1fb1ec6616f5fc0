----------------------- MODULE EngineConnection_proofs -----------------------
(***************************************************************************)
(* Proofs about EngineConnection for every set of receivers, every subset  *)
(* of them that is network receivers, every set of centres, every choice   *)
(* of user operations and every bound: types, and the safety invariants    *)
(* that MCEngineConnection checks on a small instance.                     *)
(***************************************************************************)
EXTENDS EngineConnection, SequenceTheorems, TLAPS

(* A start_connect in progress has its request on the stack, and the       *)
(* outermost one returns to a place that is not inside start_connect.      *)
StackInv ==
    /\ pc \in {"begun", "nested", "connecting"} => frames # <<>>
    /\ base \in {"top", "drain", "drain2", "recv"}

(* The flag is up without a cancel or quit on its way only when there is   *)
(* nothing left to cancel.  start_connect relies on it: it gives up on a   *)
(* request because of the flag, without scheduling a retry.                *)
FlagIsExplained == running /\ request # None /\ cancel => CancelPending

(* BusyDelayHonoured does not depend on being settled. *)
BusyInv == lastError = "busy" /\ retry.when # "never" => retry.secs = BusyDelaySecs

IInv ==
    /\ TypeOK
    /\ StackInv
    /\ ExclusiveSource
    /\ DeviceIsWanted
    /\ FlagIsExplained
    /\ WantedIsPursued
    /\ StateIsBacked
    /\ BusyInv
-----------------------------------------------------------------------------
(* The delays schedule_reconnect chooses from. *)
LEMMA DelayChosen ==
    ASSUME NEW n \in 0..MaxAttempt, NEW k \in BOOLEAN
    PROVE  ReconnectRetrySecs(k, n) \in Delay /\ BusyDelaySecs \in Delay
  BY DEF Delay

(* schedule_reconnect's saturating count stays in range: bounding a count  *)
(* by MaxAttempt gives a count the bound allows.                           *)
LEMMA LeastBound ==
    ASSUME NEW n \in 0..MaxAttempt
    PROVE  Least(n + 1, MaxAttempt) \in 0..MaxAttempt
  BY AttemptAssumption DEF Least

(* The values the handlers reset a field to are in that field's range. *)
LEMMA ResetTypes ==
    /\ NoRetry \in Retry
    /\ NoRetry.when = "never"
    /\ Healthy \in Link
    /\ 0 \in 0..MaxAttempt
  BY AttemptAssumption DEF NoRetry, Retry, Delay, Link, Healthy

(* schedule_reconnect: a retry is planned, a busy receiver's at the fixed  *)
(* delay.                                                                  *)
LEMMA ScheduleEffect ==
    ASSUME TypeOK, NEW err \in ErrorKind, Schedule(err)
    PROVE  /\ attempt' \in 0..MaxAttempt
           /\ retry' \in Retry
           /\ retry'.when # "never"
           /\ err = "busy" => retry'.secs = BusyDelaySecs
  <1> DEFINE n == Least(attempt + 1, MaxAttempt)
  <1>1. n \in 0..MaxAttempt
    BY LeastBound DEF TypeOK
  <1>2. IsKiwi(request) \in BOOLEAN
    BY DEF IsKiwi
  <1>3. ReconnectRetrySecs(IsKiwi(request), n) \in Delay /\ BusyDelaySecs \in Delay
    BY <1>1, <1>2, DelayChosen
  <1>4. /\ attempt' = n
        /\ retry' = [when |-> "later",
                     secs |-> IF err = "busy" THEN BusyDelaySecs
                              ELSE ReconnectRetrySecs(IsKiwi(request), n)]
    BY DEF Schedule
  <1> HIDE DEF n
  <1> QED
    BY <1>1, <1>3, <1>4 DEF Retry

(* fail_connection: nothing is left running; the request is retried unless *)
(* it is unwanted by now.                                                  *)
LEMMA FailEffect ==
    ASSUME TypeOK, NEW err \in ErrorKind, FailConnection(err)
    PROVE  /\ conn' = None /\ link' = Healthy /\ playback' = FALSE /\ recorder' = "off"
           /\ lastError' \in ErrorKind \cup {"none"}
           /\ attempt' \in 0..MaxAttempt
           /\ retry' \in Retry
           /\ \/ /\ Unwanted
                 /\ state' = "Disconnected"
                 /\ lastError' = "none"
                 /\ retry' = retry
              \/ /\ ~Unwanted
                 /\ state' = "Reconnecting"
                 /\ retry'.when # "never"
                 /\ lastError' = "busy" => retry'.secs = BusyDelaySecs
  <1>1. CASE Unwanted
    BY <1>1 DEF FailConnection, Teardown, TypeOK
  <1>2. CASE ~Unwanted
    BY <1>2, ScheduleEffect DEF FailConnection, Teardown, Failed
  <1> QED
    BY <1>1, <1>2
-----------------------------------------------------------------------------
(* The parts of an action, and what each does to the types. *)

(* Taking a command: it is one of Command, and what is left of the channel *)
(* is a sequence of commands.                                              *)
LEMMA TakeType ==
    ASSUME TypeOK, NEW op, Take(op)
    PROVE  /\ Head(cmdq) \in Command
           /\ Head(cmdq).op = op
           /\ cmdq' \in Seq(Command)
           /\ AfterCommand \in Pc
           /\ AfterCommand \in {"top", "drain", "drain2", "nested"}
           /\ AfterCommand = "nested" => pc = "nested"
  <1>1. cmdq \in Seq(Command) /\ cmdq # <<>>
    BY DEF TypeOK, Take
  <1>2. Head(cmdq) \in Command /\ Tail(cmdq) \in Seq(Command)
    BY <1>1, HeadTailProperties
  <1> QED
    BY <1>2 DEF Take, AfterCommand, Pc

(* Every command but Connect leaves the stack and the UI thread alone. *)
LEMMA TakenType ==
    ASSUME TypeOK, StackInv, NEW op, Taken(op)
    PROVE  /\ cmdq' \in Seq(Command)
           /\ pc' \in Pc /\ base' \in Pc /\ frames' \in Seq(Request)
           /\ got' \in BOOLEAN
           /\ ui' \in {"idle", "aborted", "quitting", "closed"}
           /\ uiPlaying' \in BOOLEAN
           /\ intent' \in {"off", "on", "file"}
           /\ sent' \in 0..MaxSent
           /\ UNCHANGED <<frames, ui>>
           /\ StackInv'
  <1>1. Take(op) /\ pc' = AfterCommand /\ UNCHANGED <<base, frames, got, uiVars>>
    BY DEF Taken
  <1>2. /\ cmdq' \in Seq(Command)
        /\ AfterCommand \in Pc
        /\ AfterCommand \in {"top", "drain", "drain2", "nested"}
        /\ AfterCommand = "nested" => pc = "nested"
    BY <1>1, TakeType
  <1> QED
    BY <1>1, <1>2 DEF TypeOK, StackInv, uiVars

(* An engine step leaves the channel and the UI thread alone. *)
LEMMA UndisturbedType ==
    ASSUME TypeOK, Undisturbed
    PROVE  /\ cmdq' \in Seq(Command)
           /\ ui' \in {"idle", "aborted", "quitting", "closed"}
           /\ uiPlaying' \in BOOLEAN
           /\ intent' \in {"off", "on", "file"}
           /\ sent' \in 0..MaxSent
  BY DEF TypeOK, Undisturbed, uiVars

(* A start_connect returns to the one around it, or to the drain outside. *)
LEMMA ReturnEffect ==
    ASSUME TypeOK, StackInv, Return,
           pc \in {"begun", "nested", "connecting"}
    PROVE  /\ frames' \in Seq(Request)
           /\ pc' \in Pc
           /\ base' \in Pc
           /\ StackInv'
  <1>1. frames \in Seq(Request) /\ frames # <<>> /\ Len(frames) \in Nat \ {0}
    BY EmptySeq DEF TypeOK, StackInv
  <1>2. frames' = SubSeq(frames, 1, Len(frames) - 1)
    BY DEF Return
  <1>3. frames' \in Seq(Request) /\ Len(frames') = Len(frames) - 1
    <2>1. \A i \in 1..Len(frames) - 1 : frames[i] \in Request
      BY <1>1
    <2>2. Len(frames) - 1 \in Nat
      BY <1>1
    <2>3. frames' = [i \in 1..Len(frames) - 1 |-> frames[i]]
      BY <1>1, <1>2
    <2> QED
      BY <2>1, <2>2, <2>3
  <1>4. CASE Len(frames) = 1
    BY <1>3, <1>4 DEF Return, StackInv, TypeOK, Pc
  <1>5. CASE Len(frames) # 1
    <2>1. frames' # <<>>
      BY <1>1, <1>3, <1>5
    <2> QED
      BY <1>3, <1>5, <2>1 DEF Return, StackInv, TypeOK, Pc
  <1> QED
    BY <1>4, <1>5

(* Entering start_connect: the flag is cleared, everything is torn down,   *)
(* and the new call is innermost on the stack.                             *)
LEMMA EnterEffect ==
    ASSUME TypeOK, StackInv, NEW r \in Request,
           NEW ret \in {"top", "drain", "drain2", "nested", "recv"},
           ret = "nested" => pc = "nested",
           EnterConnect(r, ret)
    PROVE  /\ conn' = None /\ link' = Healthy /\ playback' = FALSE /\ recorder' = "off"
           /\ cancel' = FALSE
           /\ frames' \in Seq(Request) /\ frames' # <<>>
           /\ pc' = "begun"
           /\ base' \in Pc
           /\ StackInv'
  <1>1. frames \in Seq(Request)
    BY DEF TypeOK
  <1>2. frames' \in Seq(Request) /\ frames' # <<>>
    BY <1>1 DEF EnterConnect
  <1>3. base' \in {"top", "drain", "drain2", "recv"}
    BY DEF EnterConnect, StackInv
  <1> QED
    BY <1>2, <1>3 DEF EnterConnect, Teardown, StackInv, Pc

(* Handling a command other than Disconnect and Shutdown leaves a cancel   *)
(* or quit that is on its way where it is; so does queueing a command.     *)
LEMMA TakeKeepsPending ==
    ASSUME TypeOK, NEW op, Take(op), UNCHANGED ui,
           op \notin {"Disconnect", "Shutdown"}
    PROVE  CancelPending => CancelPending'
  <1>1. cmdq \in Seq(Command) /\ cmdq # <<>> /\ cmdq' = Tail(cmdq)
    BY DEF TypeOK, Take
  <1>2. ASSUME NEW i \in DOMAIN cmdq, cmdq[i].op \in {"Disconnect", "Shutdown"}
        PROVE  CancelPending'
    <2>1. i # 1
      BY <1>1, <1>2 DEF Take
    <2>2. i - 1 \in DOMAIN cmdq' /\ cmdq'[i - 1] = cmdq[i]
      BY <1>1, <1>2, <2>1
    <2> QED
      BY <1>2, <2>2 DEF CancelPending
  <1> QED
    BY <1>2 DEF CancelPending

(* Queueing a command behind a cancel or quit on its way leaves it on its  *)
(* way.                                                                    *)
LEMMA SendKeepsPending ==
    ASSUME TypeOK, NEW cmd \in Command, cmdq' = Append(cmdq, cmd)
    PROVE  /\ cmdq' \in Seq(Command)
           /\ CancelPending /\ UNCHANGED ui => CancelPending'
           /\ cmd.op \in {"Disconnect", "Shutdown"} => CancelPending'
  <1>1. cmdq \in Seq(Command) /\ Len(cmdq) \in Nat
    BY DEF TypeOK
  <1>2. cmdq' \in Seq(Command)
    BY <1>1
  <1>3. \A i \in DOMAIN cmdq : i \in DOMAIN cmdq' /\ cmdq'[i] = cmdq[i]
    BY <1>1
  <1>4. Len(cmdq) + 1 \in DOMAIN cmdq' /\ cmdq'[Len(cmdq) + 1] = cmd
    BY <1>1
  <1> QED
    BY <1>2, <1>3, <1>4 DEF CancelPending
-----------------------------------------------------------------------------
(* Engine::new and engine_link establish the invariant. *)
LEMMA InitIInv == Init => IInv
  <1> SUFFICES ASSUME Init PROVE IInv
    OBVIOUS
  <1>1. TypeOK
    <2>1. <<>> \in Seq(Request) /\ <<>> \in Seq(Command)
      OBVIOUS
    <2>2. frames \in Seq(Request) /\ cmdq \in Seq(Command)
      BY <2>1 DEF Init
    <2>3. retry \in Retry /\ link \in Link /\ attempt \in 0..MaxAttempt
      BY ResetTypes DEF Init
    <2>4. sent \in 0..MaxSent /\ age \in Age
      BY SentAssumption DEF Init, Age
    <2> QED
      BY <2>2, <2>3, <2>4 DEF Init, TypeOK, Pc
  <1>2. StackInv
    BY DEF Init, StackInv
  <1> QED
    BY <1>1, <1>2
       DEF Init, IInv, ExclusiveSource, DeviceIsWanted, FlagIsExplained,
           WantedIsPursued, StateIsBacked, BusyInv

(* Every command of handle_command preserves the invariant, in whichever   *)
(* drain it is handled.                                                    *)
LEMMA CommandIInv == IInv /\ HandleCommand => IInv'
  <1> SUFFICES ASSUME IInv, HandleCommand PROVE IInv'
    OBVIOUS
  <1>a. TypeOK /\ StackInv
    BY DEF IInv
  <1>1. CASE CmdConnect
    <2>1. Head(cmdq).req \in Request
      BY <1>a, <1>1, TakeType DEF CmdConnect, Command
    <2>2. cmdq' \in Seq(Command)
      BY <1>a, <1>1, TakeType DEF CmdConnect
    <2>3. AfterCommand \in {"top", "drain", "drain2", "nested", "recv"}
          /\ (AfterCommand = "nested" => pc = "nested")
      BY <1>a, <1>1, TakeType DEF CmdConnect
    <2>4. EnterConnect(Head(cmdq).req, AfterCommand)
      BY <1>1 DEF CmdConnect
    <2>5. /\ conn' = None /\ link' = Healthy /\ playback' = FALSE /\ recorder' = "off"
          /\ cancel' = FALSE
          /\ frames' \in Seq(Request) /\ frames' # <<>>
          /\ pc' = "begun"
          /\ base' \in Pc
          /\ StackInv'
      BY <1>a, <2>1, <2>3, <2>4, EnterEffect
    <2>6. TypeOK'
      BY <1>a, <1>1, <2>1, <2>2, <2>4, <2>5, ResetTypes
         DEF TypeOK, CmdConnect, EnterConnect, Pc, uiVars
    <2> QED
      BY <1>1, <2>5, <2>6, ResetTypes
         DEF IInv, CmdConnect, ExclusiveSource, DeviceIsWanted,
             FlagIsExplained, WantedIsPursued, StateIsBacked, BusyInv, Settled
  <1>2. CASE CmdDisconnect
    <2>1. TypeOK' /\ StackInv'
      BY <1>a, <1>2, TakenType, ResetTypes DEF TypeOK, CmdDisconnect, Teardown
    <2> QED
      BY <1>2, <2>1, ResetTypes
         DEF IInv, CmdDisconnect, Teardown, ExclusiveSource, DeviceIsWanted,
             FlagIsExplained, WantedIsPursued, StateIsBacked, BusyInv
  <1>3. CASE CmdTune
    <2>1. conn' \in Request \cup {None} /\ request' \in Request \cup {None}
          /\ (conn' = None <=> conn = None)
          /\ (request' = None <=> request = None)
      <3>1. Head(cmdq).center \in Center
        BY <1>a, <1>3, TakeType DEF CmdTune, Taken, Command
      <3>2. None \notin Request
        BY NoneAssumption DEF Request
      <3> QED
        BY <1>a, <1>3, <3>1, <3>2 DEF CmdTune, TypeOK, Request
    <2>2. TypeOK' /\ StackInv'
      BY <1>a, <1>3, <2>1, TakenType DEF TypeOK, CmdTune
    <2>3. UNCHANGED frames /\ (CancelPending => CancelPending')
      BY <1>a, <1>3, TakenType, TakeKeepsPending DEF CmdTune, Taken, uiVars
    <2> QED
      BY <1>3, <2>1, <2>2, <2>3
         DEF IInv, CmdTune, ExclusiveSource, DeviceIsWanted,
             FlagIsExplained, WantedIsPursued, StateIsBacked, BusyInv, Settled
  <1>4. CASE CmdControl
    <2>1. TypeOK' /\ StackInv'
      BY <1>a, <1>4, TakenType DEF TypeOK, CmdControl, engineVars
    <2>2. UNCHANGED frames /\ (CancelPending => CancelPending')
      BY <1>a, <1>4, TakenType, TakeKeepsPending DEF CmdControl, Taken, uiVars
    <2> QED
      BY <1>4, <2>1, <2>2
         DEF IInv, CmdControl, engineVars, ExclusiveSource, DeviceIsWanted, FlagIsExplained,
             WantedIsPursued, StateIsBacked, BusyInv, Settled
  <1>5. CASE CmdStartIqRecord
    <2>1. TypeOK' /\ StackInv'
      BY <1>a, <1>5, TakenType DEF TypeOK, CmdStartIqRecord, ErrorKind
    <2>2. UNCHANGED frames /\ (CancelPending => CancelPending')
      BY <1>a, <1>5, TakenType, TakeKeepsPending DEF CmdStartIqRecord, Taken, uiVars
    <2> QED
      BY <1>5, <2>1, <2>2
         DEF IInv, CmdStartIqRecord, ExclusiveSource, DeviceIsWanted, FlagIsExplained,
             WantedIsPursued, StateIsBacked, BusyInv, Settled
  <1>6. CASE CmdStopIqRecord
    <2>1. TypeOK' /\ StackInv'
      BY <1>a, <1>6, TakenType DEF TypeOK, CmdStopIqRecord
    <2>2. UNCHANGED frames /\ (CancelPending => CancelPending')
      BY <1>a, <1>6, TakenType, TakeKeepsPending DEF CmdStopIqRecord, Taken, uiVars
    <2> QED
      BY <1>6, <2>1, <2>2
         DEF IInv, CmdStopIqRecord, ExclusiveSource, DeviceIsWanted, FlagIsExplained,
             WantedIsPursued, StateIsBacked, BusyInv, Settled
  <1>7. CASE CmdPlayIqFile
    <2>a. /\ playback' \in BOOLEAN /\ firstIq' \in BOOLEAN /\ age' \in Age
          /\ state' \in {"Disconnected", "Streaming"}
          /\ lastError' \in ErrorKind \cup {"none"}
      <3>1. CASE playback' = TRUE
        BY <1>a, <1>7, <3>1 DEF TypeOK, CmdPlayIqFile, Age
      <3>2. CASE playback' = FALSE
        BY <1>a, <1>7, <3>2 DEF TypeOK, CmdPlayIqFile, ErrorKind
      <3> QED
        BY <1>7, <3>1, <3>2 DEF CmdPlayIqFile
    <2>b. /\ conn' = None /\ request' = None /\ link' = Healthy
          /\ recorder' = "off"
          /\ UNCHANGED <<attempt, retry, running, cancel>>
          /\ Taken("PlayIqFile")
      BY <1>7 DEF CmdPlayIqFile
    <2>1. TypeOK' /\ StackInv'
      BY <1>a, <2>a, <2>b, TakenType, ResetTypes DEF TypeOK
    <2> QED
      BY <1>7, <2>1
         DEF IInv, CmdPlayIqFile, ExclusiveSource, DeviceIsWanted, FlagIsExplained,
             WantedIsPursued, StateIsBacked, BusyInv
  <1>8. CASE CmdStopIqPlayback
    <2>1. TypeOK' /\ StackInv'
      BY <1>a, <1>8, TakenType DEF TypeOK, CmdStopIqPlayback
    <2>2. UNCHANGED frames /\ (CancelPending => CancelPending')
      BY <1>a, <1>8, TakenType, TakeKeepsPending DEF CmdStopIqPlayback, Taken, uiVars
    <2> QED
      BY <1>8, <2>1, <2>2
         DEF IInv, CmdStopIqPlayback, ExclusiveSource, DeviceIsWanted, FlagIsExplained,
             WantedIsPursued, StateIsBacked, BusyInv, Settled
  <1>9. CASE CmdShutdown
    <2>1. TypeOK' /\ StackInv'
      BY <1>a, <1>9, TakenType, ResetTypes DEF TypeOK, CmdShutdown, Teardown
    <2> QED
      BY <1>9, <2>1
         DEF IInv, CmdShutdown, Teardown, ExclusiveSource, DeviceIsWanted, FlagIsExplained,
             WantedIsPursued, StateIsBacked, BusyInv
  <1> QED
    BY <1>1, <1>2, <1>3, <1>4, <1>5, <1>6, <1>7, <1>8, <1>9 DEF HandleCommand

(* The engine's own steps, outside start_connect. *)
LEMMA LoopIInv ==
    ASSUME IInv,
           Top \/ Drained \/ PollHandshake \/ PumpData \/ PumpNothing
             \/ Drained2 \/ CheckStall \/ MaybeRetry \/ AwaitNothing
    PROVE  IInv'
  <1>a. TypeOK /\ StackInv
    BY DEF IInv
  <1>b. ASSUME Undisturbed PROVE CancelPending' <=> CancelPending
    BY <1>b DEF Undisturbed, uiVars, CancelPending
  <1>1. CASE Top
    <2>a. /\ pc' \in {"drain", "exit"}
          /\ conn' \in Request \cup {None} /\ playback' \in BOOLEAN
          /\ recorder' \in {"off", "source", "default"} /\ link' \in Link
      BY <1>a, <1>1, ResetTypes DEF TypeOK, Top, Teardown
    <2>1. TypeOK' /\ StackInv'
      BY <1>a, <1>1, <2>a
         DEF TypeOK, StackInv, Top, Undisturbed, uiVars, Pc
    <2> QED
      BY <1>1, <1>b, <2>1
         DEF IInv, Top, ExclusiveSource, DeviceIsWanted, FlagIsExplained,
             WantedIsPursued, StateIsBacked, BusyInv, Settled, Teardown
  <1>2. CASE Drained
    <2>1. TypeOK' /\ StackInv'
      BY <1>a, <1>2
         DEF TypeOK, StackInv, Drained, Undisturbed, uiVars, Pc, DrainEmpty
    <2> QED
      BY <1>2, <1>b, <2>1
         DEF IInv, Drained, ExclusiveSource, DeviceIsWanted, FlagIsExplained,
             WantedIsPursued, StateIsBacked, BusyInv, Settled, DrainEmpty
  <1>3. CASE PollHandshake
    <2>1. CASE \E err \in ErrorKind : FailConnection(err)
      <3>1. PICK err \in ErrorKind : FailConnection(err)
        BY <2>1
      <3>2. /\ conn' = None /\ link' = Healthy /\ playback' = FALSE /\ recorder' = "off"
            /\ lastError' \in ErrorKind \cup {"none"}
            /\ attempt' \in 0..MaxAttempt
            /\ retry' \in Retry
            /\ \/ /\ Unwanted
                  /\ state' = "Disconnected"
                  /\ lastError' = "none"
                  /\ retry' = retry
               \/ /\ ~Unwanted
                  /\ state' = "Reconnecting"
                  /\ retry'.when # "never"
                  /\ lastError' = "busy" => retry'.secs = BusyDelaySecs
        BY <1>a, <3>1, FailEffect
      <3>3. TypeOK' /\ StackInv'
        <4>1. /\ pc' = "pump" /\ Undisturbed
              /\ UNCHANGED <<request, firstIq, running, base, frames, got,
                             cancel, age>>
          BY <1>3 DEF PollHandshake
        <4>2. /\ conn' = None /\ link' \in Link /\ playback' = FALSE
              /\ state' \in {"Disconnected", "Reconnecting"}
              /\ recorder' = "off" /\ lastError' \in ErrorKind \cup {"none"}
              /\ attempt' \in 0..MaxAttempt /\ retry' \in Retry
          BY <3>2, ResetTypes
        <4>3. StackInv' /\ pc' \in Pc
          BY <1>a, <4>1 DEF StackInv, Pc
        <4> QED
          BY <1>a, <4>1, <4>2, <4>3, UndisturbedType DEF TypeOK
      <3>4. UNCHANGED <<request, running, cancel, frames>> /\ Undisturbed
        BY <1>3 DEF PollHandshake
      <3> QED
        BY <1>b, <3>2, <3>3, <3>4
           DEF IInv, Unwanted, ExclusiveSource, DeviceIsWanted,
               FlagIsExplained, WantedIsPursued, StateIsBacked, BusyInv,
               Settled
    <2>2. CASE UNCHANGED <<conn, playback, recorder, lastError, state, attempt,
                           retry, link>>
      <3>1. TypeOK' /\ StackInv'
        BY <1>a, <1>3, <2>2
           DEF TypeOK, StackInv, PollHandshake, Undisturbed, uiVars, Pc
      <3>2. UNCHANGED <<request, running, cancel, frames>> /\ Undisturbed
        BY <1>3 DEF PollHandshake
      <3> QED
        BY <1>b, <2>2, <3>1, <3>2
           DEF IInv, ExclusiveSource, DeviceIsWanted, FlagIsExplained,
               WantedIsPursued, StateIsBacked, BusyInv, Settled
    <2>3. link.err \in ErrorKind \cup {"none"} /\ "other" \in ErrorKind
      BY <1>a DEF TypeOK, Link, ErrorKind
    <2> QED
      BY <1>3, <2>1, <2>2, <2>3 DEF PollHandshake
  <1>4. CASE PumpData
    <2>1. TypeOK' /\ StackInv'
      BY <1>a, <1>4
         DEF TypeOK, StackInv, PumpData, Undisturbed, uiVars, Pc, Age
    <2> QED
      BY <1>4, <1>b, <2>1
         DEF IInv, PumpData, ExclusiveSource, DeviceIsWanted, FlagIsExplained,
             WantedIsPursued, StateIsBacked, BusyInv, Settled
  <1>5. CASE PumpNothing
    <2>a. /\ playback' \in BOOLEAN
          /\ state' \in {"Disconnected", "Connecting", "Streaming",
                         "Reconnecting"}
      BY <1>a, <1>5 DEF TypeOK, PumpNothing
    <2>b. /\ pc' = "drain2" /\ got' = FALSE /\ Undisturbed
          /\ UNCHANGED <<conn, request, lastError, attempt, retry, firstIq,
                         recorder, running, base, frames, cancel, age, link>>
      BY <1>5 DEF PumpNothing
    <2>c. StackInv' /\ pc' \in Pc
      BY <1>a, <2>a, <2>b DEF StackInv, Pc
    <2>1. TypeOK' /\ StackInv'
      BY <1>a, <2>a, <2>b, <2>c, UndisturbedType DEF TypeOK
    <2> QED
      BY <1>5, <1>b, <2>1
         DEF IInv, PumpNothing, ExclusiveSource, DeviceIsWanted, FlagIsExplained,
             WantedIsPursued, StateIsBacked, BusyInv, Settled
  <1>6. CASE Drained2
    <2>a. running' \in BOOLEAN /\ pc' \in {"stall", "pump"}
      BY <1>a, <1>6 DEF TypeOK, Drained2, DrainEmpty
    <2>b. /\ got' = FALSE /\ Undisturbed
          /\ UNCHANGED <<conn, request, state, lastError, attempt, retry,
                         firstIq, playback, recorder, base, frames, cancel,
                         age, link>>
      BY <1>6 DEF Drained2
    <2>c. StackInv' /\ pc' \in Pc
      BY <1>a, <2>a, <2>b DEF StackInv, Pc
    <2>1. TypeOK' /\ StackInv'
      BY <1>a, <2>a, <2>b, <2>c, UndisturbedType DEF TypeOK
    <2> QED
      BY <1>6, <1>b, <2>1
         DEF IInv, Drained2, ExclusiveSource, DeviceIsWanted, FlagIsExplained,
             WantedIsPursued, StateIsBacked, BusyInv, Settled, DrainEmpty
  <1>7. CASE CheckStall
    <2>1. CASE \E err \in ErrorKind : FailConnection(err)
      <3>1. PICK err \in ErrorKind : FailConnection(err)
        BY <2>1
      <3>2. /\ conn' = None /\ link' = Healthy /\ playback' = FALSE /\ recorder' = "off"
            /\ lastError' \in ErrorKind \cup {"none"}
            /\ attempt' \in 0..MaxAttempt
            /\ retry' \in Retry
            /\ \/ /\ Unwanted
                  /\ state' = "Disconnected"
                  /\ lastError' = "none"
                  /\ retry' = retry
               \/ /\ ~Unwanted
                  /\ state' = "Reconnecting"
                  /\ retry'.when # "never"
                  /\ lastError' = "busy" => retry'.secs = BusyDelaySecs
        BY <1>a, <3>1, FailEffect
      <3>3. TypeOK' /\ StackInv'
        <4>1. /\ pc' = "top" /\ Undisturbed
              /\ UNCHANGED <<request, firstIq, running, base, frames, got,
                             cancel, age>>
          BY <1>7 DEF CheckStall
        <4>2. /\ conn' = None /\ link' \in Link /\ playback' = FALSE
              /\ state' \in {"Disconnected", "Reconnecting"}
              /\ recorder' = "off" /\ lastError' \in ErrorKind \cup {"none"}
              /\ attempt' \in 0..MaxAttempt /\ retry' \in Retry
          BY <3>2, ResetTypes
        <4>3. StackInv' /\ pc' \in Pc
          BY <1>a, <4>1 DEF StackInv, Pc
        <4> QED
          BY <1>a, <4>1, <4>2, <4>3, UndisturbedType DEF TypeOK
      <3>4. UNCHANGED <<request, running, cancel, frames>> /\ Undisturbed
        BY <1>7 DEF CheckStall
      <3> QED
        BY <1>b, <3>2, <3>3, <3>4
           DEF IInv, Unwanted, ExclusiveSource, DeviceIsWanted,
               FlagIsExplained, WantedIsPursued, StateIsBacked, BusyInv,
               Settled
    <2>2. CASE UNCHANGED <<conn, playback, recorder, lastError, state, attempt,
                           retry, link>>
      <3>1. TypeOK' /\ StackInv'
        BY <1>a, <1>7, <2>2
           DEF TypeOK, StackInv, CheckStall, Undisturbed, uiVars, Pc
      <3>2. UNCHANGED <<request, running, cancel, frames>> /\ Undisturbed
        BY <1>7 DEF CheckStall
      <3> QED
        BY <1>b, <2>2, <3>1, <3>2
           DEF IInv, ExclusiveSource, DeviceIsWanted, FlagIsExplained,
               WantedIsPursued, StateIsBacked, BusyInv, Settled
    <2>3. link.err \in ErrorKind \cup {"none"} /\ "other" \in ErrorKind
      BY <1>a DEF TypeOK, Link, ErrorKind
    <2> QED
      BY <1>7, <2>1, <2>2, <2>3 DEF CheckStall
  <1>8. CASE MaybeRetry
    <2>1. TypeOK' /\ StackInv'
      BY <1>a, <1>8
         DEF TypeOK, StackInv, MaybeRetry, Undisturbed, uiVars, Pc
    <2> QED
      BY <1>8, <1>b, <2>1
         DEF IInv, MaybeRetry, ExclusiveSource, DeviceIsWanted, FlagIsExplained,
             WantedIsPursued, StateIsBacked, BusyInv, Settled
  <1>9. CASE AwaitNothing
    <2>1. TypeOK' /\ StackInv'
      BY <1>a, <1>9
         DEF TypeOK, StackInv, AwaitNothing, Undisturbed, uiVars, Pc, DrainEmpty
    <2> QED
      BY <1>9, <1>b, <2>1
         DEF IInv, AwaitNothing, ExclusiveSource, DeviceIsWanted, FlagIsExplained,
             WantedIsPursued, StateIsBacked, BusyInv, Settled, DrainEmpty
  <1> QED
    BY <1>1, <1>2, <1>3, <1>4, <1>5, <1>6, <1>7, <1>8, <1>9

(* start_connect, from the retry or from a command on. *)
LEMMA ConnectIInv ==
    ASSUME IInv,
           RetryNow \/ ConnectBegun \/ ConnectDrained \/ ConnectOk
             \/ \E err \in ErrorKind : ConnectErr(err)
    PROVE  IInv'
  <1>a. TypeOK /\ StackInv
    BY DEF IInv
  <1>b. ASSUME Undisturbed PROVE CancelPending' <=> CancelPending
    BY <1>b DEF Undisturbed, uiVars, CancelPending
  <1>1. CASE RetryNow
    <2>1. request \in Request /\ EnterConnect(request, "recv")
      BY <1>a, <1>1 DEF RetryNow, TypeOK
    <2>2. /\ conn' = None /\ link' = Healthy /\ playback' = FALSE /\ recorder' = "off"
          /\ cancel' = FALSE
          /\ frames' \in Seq(Request) /\ frames' # <<>>
          /\ pc' = "begun"
          /\ base' \in Pc
          /\ StackInv'
      BY <1>a, <2>1, EnterEffect
    <2>3. /\ UNCHANGED <<request, attempt, retry, cmdq>>
          /\ UNCHANGED <<state, lastError, firstIq, running, got, uiVars, age>>
      BY <1>1 DEF RetryNow, EnterConnect
    <2>4. Undisturbed /\ pc' \in Pc
      BY <2>2, <2>3 DEF Undisturbed, Pc
    <2>5. TypeOK'
      BY <1>a, <2>2, <2>3, <2>4, ResetTypes, UndisturbedType DEF TypeOK
    <2> QED
      BY <2>2, <2>3, <2>5
         DEF IInv, ExclusiveSource, DeviceIsWanted, FlagIsExplained,
             WantedIsPursued, StateIsBacked, BusyInv, Settled
  <1>2. CASE ConnectBegun
    <2>1. /\ state' \in {"Disconnected", "Connecting"}
          /\ Undisturbed
          /\ UNCHANGED <<conn, request, lastError, attempt, retry, firstIq,
                         playback, recorder, running, got, cancel, age, link>>
      BY <1>2 DEF ConnectBegun
    <2>2. StackInv' /\ pc' \in Pc /\ base' \in Pc /\ frames' \in Seq(Request)
      <3>1. CASE Unwanted
        BY <1>a, <1>2, <3>1, ReturnEffect DEF ConnectBegun
      <3>2. CASE ~Unwanted
        BY <1>a, <1>2, <3>2 DEF ConnectBegun, TypeOK, StackInv, Pc
      <3> QED
        BY <3>1, <3>2
    <2>3. Settled' => Unwanted /\ state' = "Disconnected"
      BY <1>a, <1>2 DEF ConnectBegun, Settled, StackInv
    <2>4. TypeOK'
      BY <1>a, <2>1, <2>2, UndisturbedType DEF TypeOK
    <2> QED
      BY <1>b, <2>1, <2>2, <2>3, <2>4
         DEF IInv, Unwanted, ExclusiveSource, DeviceIsWanted, FlagIsExplained,
             WantedIsPursued, StateIsBacked, BusyInv
  <1>3. CASE ConnectDrained
    <2>1. /\ state' \in {"Disconnected", "Connecting", "Streaming", "Reconnecting"}
          /\ running' \in BOOLEAN /\ (running' => running)
          /\ Undisturbed
          /\ UNCHANGED <<conn, request, lastError, attempt, retry, firstIq,
                         playback, recorder, got, cancel, age, link>>
      BY <1>a, <1>3 DEF ConnectDrained, DrainEmpty, TypeOK
    <2>2. StackInv' /\ pc' \in Pc /\ base' \in Pc /\ frames' \in Seq(Request)
      <3>1. CASE Unwanted
        BY <1>a, <1>3, <3>1, ReturnEffect DEF ConnectDrained
      <3>2. CASE ~Unwanted
        BY <1>a, <1>3, <3>2 DEF ConnectDrained, TypeOK, StackInv, Pc
      <3> QED
        BY <3>1, <3>2
    <2>3. Settled' => Unwanted /\ state' = "Disconnected"
      BY <1>a, <1>3 DEF ConnectDrained, Settled, StackInv
    <2>4. TypeOK'
      BY <1>a, <2>1, <2>2, UndisturbedType DEF TypeOK
    <2> QED
      BY <1>b, <2>1, <2>2, <2>3, <2>4
         DEF IInv, Unwanted, ExclusiveSource, DeviceIsWanted, FlagIsExplained,
             WantedIsPursued, StateIsBacked, BusyInv
  <1>4. CASE ConnectOk
    <2>1. /\ UNCHANGED <<request, playback, recorder, running, got, cancel>>
          /\ Undisturbed
      BY <1>4 DEF ConnectOk, Undisturbed
    <2>2. StackInv' /\ pc' \in Pc /\ base' \in Pc /\ frames' \in Seq(Request)
      BY <1>a, <1>4, ReturnEffect DEF ConnectOk
    <2>3. CASE Unwanted
      <3>1. /\ state' = "Disconnected"
            /\ UNCHANGED <<conn, firstIq, age, attempt, retry, lastError, link>>
        BY <1>4, <2>3 DEF ConnectOk
      <3>2. TypeOK'
        BY <1>a, <2>1, <2>2, <3>1, UndisturbedType DEF TypeOK
      <3> QED
        BY <1>b, <2>1, <2>2, <2>3, <3>1, <3>2
           DEF IInv, Unwanted, ExclusiveSource, DeviceIsWanted,
               FlagIsExplained, WantedIsPursued, StateIsBacked, BusyInv
    <2>4. CASE ~Unwanted
      <3>1. Target \in Request
        BY <1>a, <1>4 DEF ConnectOk, Target, TypeOK, StackInv
      <3>2. Target # None
        BY <3>1, NoneAssumption DEF Request
      <3>3. /\ conn' = Target /\ age' = 0 /\ attempt' = 0 /\ retry' = NoRetry
            /\ lastError' = "none" /\ link' = Healthy
            /\ state' \in {"Connecting", "Streaming"}
            /\ firstIq' \in BOOLEAN
        BY <1>4, <2>4 DEF ConnectOk, IsKiwi
      <3>4. TypeOK'
        BY <1>a, <2>1, <2>2, <3>1, <3>3, ResetTypes, UndisturbedType
           DEF TypeOK, Age
      <3> QED
        BY <1>b, <2>1, <2>2, <2>4, <3>2, <3>3, <3>4
           DEF IInv, Unwanted, ExclusiveSource, DeviceIsWanted,
               FlagIsExplained, WantedIsPursued, StateIsBacked, BusyInv
    <2> QED
      BY <2>3, <2>4
  <1>5. CASE \E err \in ErrorKind : ConnectErr(err)
    <2>1. PICK err \in ErrorKind : ConnectErr(err)
      BY <1>5
    <2>2. /\ Undisturbed
          /\ UNCHANGED <<conn, request, firstIq, playback, recorder, running,
                         got, cancel, age, link>>
      BY <2>1 DEF ConnectErr
    <2>3. StackInv' /\ pc' \in Pc /\ base' \in Pc /\ frames' \in Seq(Request)
      BY <1>a, <2>1, ReturnEffect DEF ConnectErr
    <2>4. CASE Unwanted
      <3>1. state' = "Disconnected" /\ UNCHANGED <<attempt, retry, lastError>>
        BY <2>1, <2>4 DEF ConnectErr
      <3>2. TypeOK'
        BY <1>a, <2>2, <2>3, <3>1, UndisturbedType DEF TypeOK
      <3> QED
        BY <1>b, <2>2, <2>3, <2>4, <3>1, <3>2
           DEF IInv, Unwanted, ExclusiveSource, DeviceIsWanted,
               FlagIsExplained, WantedIsPursued, StateIsBacked, BusyInv
    <2>5. CASE ~Unwanted
      <3>1. Failed(err)
        BY <2>1, <2>5 DEF ConnectErr
      <3>2. lastError' = err /\ state' = "Reconnecting" /\ Schedule(err)
        BY <3>1 DEF Failed
      <3>3. /\ attempt' \in 0..MaxAttempt
            /\ retry' \in Retry
            /\ retry'.when # "never"
            /\ err = "busy" => retry'.secs = BusyDelaySecs
        BY <1>a, <3>2, ScheduleEffect
      <3>4. TypeOK'
        BY <1>a, <2>2, <2>3, <3>2, <3>3, UndisturbedType DEF TypeOK
      <3> QED
        BY <1>b, <2>2, <2>3, <2>5, <3>2, <3>3, <3>4
           DEF IInv, Unwanted, ExclusiveSource, DeviceIsWanted,
               FlagIsExplained, WantedIsPursued, StateIsBacked, BusyInv
    <2> QED
      BY <2>4, <2>5
  <1> QED
    BY <1>1, <1>2, <1>3, <1>4, <1>5

(* What the user does leaves the engine's own state alone. *)
LEMMA QuietKeeps ==
    ASSUME IInv, Quiet,
           cmdq' \in Seq(Command), cancel' \in BOOLEAN,
           ui' \in {"idle", "aborted", "quitting", "closed"},
           uiPlaying' \in BOOLEAN, intent' \in {"off", "on", "file"},
           sent' \in 0..MaxSent,
           CancelPending => CancelPending',
           cancel' => cancel \/ CancelPending'
    PROVE  IInv'
  <1>a. TypeOK /\ StackInv
    BY DEF IInv
  <1>1. /\ UNCHANGED <<conn, request, state, lastError, attempt, retry, firstIq,
                       playback, recorder, running>>
        /\ UNCHANGED <<pc, base, frames, got, link, age>>
    BY DEF Quiet, engineVars, controlVars
  <1>2. TypeOK' /\ StackInv'
    BY <1>a, <1>1 DEF TypeOK, StackInv
  <1> QED
    BY <1>1, <1>2
       DEF IInv, ExclusiveSource, DeviceIsWanted, FlagIsExplained,
           WantedIsPursued, StateIsBacked, BusyInv, Settled

(* One operation of the user is counted by CanSend. *)
LEMMA SentType ==
    ASSUME TypeOK, NEW op, CanSend(op)
    PROVE  sent' \in 0..MaxSent
  BY SentAssumption DEF TypeOK, CanSend

(* A command sent by the UI thread, whichever it is, preserves the         *)
(* invariant.                                                              *)
LEMMA UiSendIInv ==
    ASSUME IInv, NEW op, NEW cmd \in Command, UiSend(op, cmd),
           intent' \in {"off", "on", "file"}
    PROVE  IInv'
  <1>a. TypeOK
    BY DEF IInv
  <1>1. /\ CanSend(op) /\ Quiet /\ cmdq' = Append(cmdq, cmd)
        /\ UNCHANGED <<cancel, ui, uiPlaying>>
    BY DEF UiSend
  <1>2. /\ cmdq' \in Seq(Command) /\ (CancelPending => CancelPending')
        /\ sent' \in 0..MaxSent
    BY <1>a, <1>1, SendKeepsPending, SentType
  <1>3. /\ cancel' \in BOOLEAN /\ uiPlaying' \in BOOLEAN
        /\ ui' \in {"idle", "aborted", "quitting", "closed"}
    BY <1>a, <1>1 DEF TypeOK
  <1> QED
    BY <1>1, <1>2, <1>3, QuietKeeps

(* Every operation of the UI thread preserves the invariant: it meets the  *)
(* engine only in the channel and in the flag, and a flag raised goes with *)
(* a Disconnect or Shutdown on its way.                                    *)
LEMMA UserIInv ==
    ASSUME IInv, UserStep \/ UiFinish \/ UiPoll
    PROVE  IInv'
  <1>a. TypeOK
    BY DEF IInv
  <1>b. intent \in {"off", "on", "file"}
    BY <1>a DEF TypeOK
  <1>1. CASE \E r \in Request : UiConnect(r)
    <2>1. PICK r \in Request : UiConnect(r)
      BY <1>1
    <2>2. [op |-> "Connect", req |-> r] \in Command
      BY DEF Command
    <2> QED
      BY <2>1, <2>2, UiSendIInv DEF UiConnect
  <1>2. CASE \E hz \in Center : UiTune(hz)
    <2>1. PICK hz \in Center : UiTune(hz)
      BY <1>2
    <2>2. [op |-> "Tune", center |-> hz] \in Command
      BY DEF Command
    <2> QED
      BY <1>b, <2>1, <2>2, UiSendIInv DEF UiTune
  <1>3. CASE UiControl
    <2>1. [op |-> "Control"] \in Command
      BY DEF Command
    <2> QED
      BY <1>b, <1>3, <2>1, UiSendIInv DEF UiControl
  <1>4. CASE UiRecord
    <2>1. [op |-> "StartIqRecord"] \in Command
      BY DEF Command
    <2> QED
      BY <1>b, <1>4, <2>1, UiSendIInv DEF UiRecord
  <1>5. CASE UiStopRecord
    <2>1. [op |-> "StopIqRecord"] \in Command
      BY DEF Command
    <2> QED
      BY <1>b, <1>5, <2>1, UiSendIInv DEF UiStopRecord
  <1>6. CASE UiPlay
    <2>1. [op |-> "PlayIqFile"] \in Command
      BY DEF Command
    <2> QED
      BY <1>b, <1>6, <2>1, UiSendIInv DEF UiPlay
  <1>7. CASE UiStopPlay
    <2>1. [op |-> "StopIqPlayback"] \in Command
      BY DEF Command
    <2> QED
      BY <1>b, <1>7, <2>1, UiSendIInv DEF UiStopPlay
  <1>8. CASE UiAbort
    <2>1. /\ CanSend("cancel") /\ Quiet
          /\ cancel' = TRUE /\ ui' = "aborted"
          /\ UNCHANGED <<cmdq, uiPlaying, intent>>
      BY <1>8 DEF UiAbort
    <2>2. sent' \in 0..MaxSent
      BY <1>a, <2>1, SentType
    <2>3. CancelPending'
      BY <2>1 DEF CancelPending
    <2>4. cmdq' \in Seq(Command) /\ uiPlaying' \in BOOLEAN
      BY <1>a, <2>1 DEF TypeOK
    <2> QED
      BY <1>b, <2>1, <2>2, <2>3, <2>4, QuietKeeps
  <1>9. CASE UiQuit
    <2>1. /\ CanSend("quit") /\ Quiet
          /\ cancel' = TRUE /\ ui' = "quitting"
          /\ UNCHANGED <<cmdq, uiPlaying, intent>>
      BY <1>9 DEF UiQuit
    <2>2. sent' \in 0..MaxSent
      BY <1>a, <2>1, SentType
    <2>3. CancelPending'
      BY <2>1 DEF CancelPending
    <2>4. cmdq' \in Seq(Command) /\ uiPlaying' \in BOOLEAN
      BY <1>a, <2>1 DEF TypeOK
    <2> QED
      BY <1>b, <2>1, <2>2, <2>3, <2>4, QuietKeeps
  <1>10. CASE UiDisconnect
    <2>1. /\ Quiet /\ cmdq' = Append(cmdq, [op |-> "Disconnect"])
          /\ ui' = "idle" /\ intent' = "off"
          /\ UNCHANGED <<cancel, uiPlaying, sent>>
      BY <1>10 DEF UiDisconnect
    <2>2. [op |-> "Disconnect"] \in Command
      BY DEF Command
    <2>3. cmdq' \in Seq(Command) /\ CancelPending'
      BY <1>a, <2>1, <2>2, SendKeepsPending
    <2>4. cancel' \in BOOLEAN /\ uiPlaying' \in BOOLEAN /\ sent' \in 0..MaxSent
      BY <1>a, <2>1 DEF TypeOK
    <2> QED
      BY <2>1, <2>3, <2>4, QuietKeeps
  <1>11. CASE UiClose
    <2>1. /\ Quiet /\ cmdq' = Append(cmdq, [op |-> "Shutdown"])
          /\ ui' = "closed" /\ intent' = "off"
          /\ UNCHANGED <<cancel, uiPlaying, sent>>
      BY <1>11 DEF UiClose
    <2>2. [op |-> "Shutdown"] \in Command
      BY DEF Command
    <2>3. cmdq' \in Seq(Command) /\ CancelPending'
      BY <1>a, <2>1, <2>2, SendKeepsPending
    <2>4. cancel' \in BOOLEAN /\ uiPlaying' \in BOOLEAN /\ sent' \in 0..MaxSent
      BY <1>a, <2>1 DEF TypeOK
    <2> QED
      BY <2>1, <2>3, <2>4, QuietKeeps
  <1>12. CASE UiPoll
    <2>1. /\ Quiet /\ uiPlaying' = playback
          /\ UNCHANGED <<cmdq, cancel, ui, intent, sent>>
      BY <1>12 DEF UiPoll
    <2>2. CancelPending => CancelPending'
      BY <2>1 DEF CancelPending
    <2>3. /\ cmdq' \in Seq(Command) /\ cancel' \in BOOLEAN
          /\ uiPlaying' \in BOOLEAN /\ sent' \in 0..MaxSent
          /\ ui' \in {"idle", "aborted", "quitting", "closed"}
      BY <1>a, <2>1 DEF TypeOK
    <2> QED
      BY <1>b, <2>1, <2>2, <2>3, QuietKeeps
  <1> QED
    BY <1>1, <1>2, <1>3, <1>4, <1>5, <1>6, <1>7, <1>8, <1>9, <1>10, <1>11, <1>12
       DEF UserStep, UiFinish

(* The receiver and the clock. *)
LEMMA EnvironmentIInv ==
    ASSUME IInv, Environment
    PROVE  IInv'
  <1>a. TypeOK /\ StackInv
    BY DEF IInv
  <1>1. /\ UNCHANGED <<conn, request, state, lastError, attempt, firstIq,
                       playback, recorder, running>>
        /\ UNCHANGED <<controlVars, cmdq, cancel, uiVars>>
    BY DEF Environment, LinkFails, TimePasses, RetryDue, engineVars
  <1>2. retry' \in Retry /\ retry'.secs = retry.secs
        /\ (retry'.when = "never" <=> retry.when = "never")
    <2>1. CASE RetryDue
      BY <1>a, <2>1 DEF RetryDue, TypeOK, Retry
    <2>2. CASE LinkFails \/ TimePasses
      BY <1>a, <2>2 DEF LinkFails, TimePasses, engineVars, TypeOK
    <2> QED
      BY <2>1, <2>2 DEF Environment
  <1>3. link' \in Link
    <2>1. CASE LinkFails
      <3>1. CASE link' \in [err : ErrorKind, alive : BOOLEAN]
        BY <3>1 DEF Link
      <3>2. CASE link' = [err |-> "none", alive |-> FALSE]
        BY <3>2 DEF Link
      <3> QED
        BY <2>1, <3>1, <3>2 DEF LinkFails
    <2>2. CASE TimePasses \/ RetryDue
      BY <1>a, <2>2 DEF TimePasses, RetryDue, TypeOK
    <2> QED
      BY <2>1, <2>2 DEF Environment
  <1>4. age' \in Age
    BY <1>a DEF Environment, LinkFails, TimePasses, RetryDue, TypeOK, Age
  <1>5. /\ UNCHANGED <<pc, base, frames, got, ui, uiPlaying, intent, sent>>
        /\ CancelPending' = CancelPending
    BY <1>1 DEF controlVars, uiVars, CancelPending
  <1>6. TypeOK' /\ StackInv'
    BY <1>a, <1>1, <1>2, <1>3, <1>4, <1>5 DEF TypeOK, StackInv
  <1> QED
    BY <1>1, <1>2, <1>5, <1>6
       DEF IInv, ExclusiveSource, DeviceIsWanted, FlagIsExplained,
             WantedIsPursued, StateIsBacked, BusyInv, Settled
-----------------------------------------------------------------------------
(* Every step of the system preserves the invariant. *)
LEMMA NextIInv == IInv /\ [Next]_vars => IInv'
  <1> SUFFICES ASSUME IInv, [Next]_vars PROVE IInv'
    OBVIOUS
  <1>1. CASE HandleCommand
    BY <1>1, CommandIInv
  <1>2. CASE EngineStep
    BY <1>2, LoopIInv, ConnectIInv DEF EngineStep
  <1>3. CASE UserStep \/ UiFinish \/ UiPoll
    BY <1>3, UserIInv
  <1>4. CASE Environment
    BY <1>4, EnvironmentIInv
  <1>5. CASE UNCHANGED vars
    <2>1. /\ UNCHANGED <<conn, request, state, lastError, attempt, retry,
                         firstIq, playback, recorder, running>>
          /\ UNCHANGED <<pc, base, frames, got, cmdq, cancel, ui, uiPlaying,
                         intent, sent, link, age>>
      BY <1>5 DEF vars, engineVars, controlVars, uiVars
    <2>2. TypeOK' /\ StackInv'
      BY <2>1 DEF IInv, TypeOK, StackInv
    <2>3. CancelPending' = CancelPending
      BY <2>1 DEF CancelPending
    <2> QED
      BY <2>1, <2>2, <2>3
         DEF IInv, ExclusiveSource, DeviceIsWanted, FlagIsExplained,
             WantedIsPursued, StateIsBacked, BusyInv, Settled
  <1> QED
    BY <1>1, <1>2, <1>3, <1>4, <1>5 DEF Next, Ended
-----------------------------------------------------------------------------
(* The inductive invariant holds in every reachable state: besides the six *)
(* properties, that the stack is as pc says and that a raised flag with a  *)
(* request standing has its Disconnect or Shutdown still on the way.       *)
THEOREM AlwaysIInv == Spec => []IInv
  BY InitIInv, NextIInv, PTL DEF Spec

(* Types: every variable of the engine keeps its range, whatever commands  *)
(* are handled inside a start_connect, and however deep they nest.         *)
THEOREM TypeCorrect == Spec => []TypeOK
  <1>1. IInv => TypeOK
    BY DEF IInv
  <1> QED
    BY <1>1, AlwaysIInv, PTL

(* The engine never has two sources (commands.rs: playback tears the       *)
(* device down and forgets the request; connection.rs: connecting tears    *)
(* the playback down, and a request withdrawn meanwhile is not adopted).   *)
THEOREM NeverTwoSources == Spec => []ExclusiveSource
  <1>1. IInv => ExclusiveSource
    BY DEF IInv
  <1> QED
    BY <1>1, AlwaysIInv, PTL

(* No receiver stays open that nobody asks for any more. *)
THEOREM NoOrphanDevice == Spec => []DeviceIsWanted
  <1>1. IInv => DeviceIsWanted
    BY DEF IInv
  <1> QED
    BY <1>1, AlwaysIInv, PTL

(* A request is live, or being connected, or has a retry scheduled, unless *)
(* a cancel is on its way: the engine is never left idle by an error path. *)
THEOREM RequestNeverForgotten == Spec => []WantedIsPursued
  <1>1. IInv => WantedIsPursued
    BY DEF IInv
  <1> QED
    BY <1>1, AlwaysIInv, PTL

(* What the UI is shown as streaming or reconnecting is really so. *)
THEOREM StateTruthful == Spec => []StateIsBacked
  <1>1. IInv => StateIsBacked
    BY DEF IInv
  <1> QED
    BY <1>1, AlwaysIInv, PTL

(* A busy receiver is left alone for the fixed delay. *)
THEOREM BusyRespected == Spec => []BusyDelayHonoured
  <1>1. IInv => BusyDelayHonoured
    BY DEF IInv, BusyInv, BusyDelayHonoured
  <1> QED
    BY <1>1, AlwaysIInv, PTL
-----------------------------------------------------------------------------
(* The refinement of EngineLifecycle, and what it needs besides.            *)

(* Shutdown is the last command the UI sends, and what the engine waits for *)
(* once the UI half is gone.                                                *)
ShutdownIsLast ==
    /\ \A i \in DOMAIN cmdq :
        cmdq[i].op = "Shutdown" => ui = "closed" /\ i = Len(cmdq)
    /\ ui = "closed" /\ running =>
        cmdq # <<>> /\ cmdq[Len(cmdq)].op = "Shutdown"

(* After Shutdown nothing is open, nothing will be opened (the flag stays   *)
(* raised), and no command is left.                                         *)
QuitIsFinal ==
    ~running => /\ ui = "closed" /\ cmdq = <<>> /\ cancel
                /\ conn = None /\ ~playback

(* The stack is empty outside start_connect, and step() looks at the retry  *)
(* only without a source.                                                   *)
PlaceInv ==
    /\ frames # <<>> => pc \in {"begun", "nested", "connecting"}
    /\ pc = "idle" => running /\ conn = None /\ ~playback

LInv == IInv /\ ShutdownIsLast /\ QuitIsFinal /\ PlaceInv
-----------------------------------------------------------------------------
(* A command other than Shutdown is handled by a running engine, and leaves *)
(* the Shutdown behind it where it is.                                      *)
LEMMA TakeQuit ==
    ASSUME LInv, NEW op, Take(op), op # "Shutdown", UNCHANGED <<ui, running>>
    PROVE  running /\ ShutdownIsLast' /\ QuitIsFinal'
  <1>1. cmdq \in Seq(Command) /\ cmdq # <<>> /\ cmdq' = Tail(cmdq)
    BY DEF LInv, IInv, TypeOK, Take
  <1>2. running
    BY <1>1 DEF LInv, QuitIsFinal
  <1>3. /\ Len(cmdq') = Len(cmdq) - 1
        /\ \A i \in DOMAIN cmdq' : cmdq'[i] = cmdq[i + 1] /\ i + 1 \in DOMAIN cmdq
    BY <1>1
  <1>4. \A i \in DOMAIN cmdq' :
            cmdq'[i].op = "Shutdown" => ui' = "closed" /\ i = Len(cmdq')
    BY <1>1, <1>3 DEF LInv, ShutdownIsLast
  <1>5. ASSUME ui' = "closed"
        PROVE  cmdq' # <<>> /\ cmdq'[Len(cmdq')].op = "Shutdown"
    <2>1. cmdq[Len(cmdq)].op = "Shutdown"
      BY <1>2, <1>5 DEF LInv, ShutdownIsLast
    <2>2. Len(cmdq) # 1
      BY <1>1, <2>1 DEF Take
    <2>3. Len(cmdq) \in Nat /\ Len(cmdq) > 1 /\ Len(cmdq') \in DOMAIN cmdq'
      BY <1>1, <1>3, <2>2
    <2>4. cmdq'[Len(cmdq')] = cmdq[Len(cmdq)]
      BY <1>3, <2>3
    <2> QED
      BY <2>1, <2>3, <2>4
  <1> QED
    BY <1>2, <1>4, <1>5 DEF ShutdownIsLast, QuitIsFinal

(* An empty channel ends the engine only after its Shutdown. *)
LEMMA DrainKeepsRunning ==
    ASSUME LInv, DrainEmpty
    PROVE  running' = running
  BY DEF LInv, IInv, TypeOK, ShutdownIsLast, QuitIsFinal, DrainEmpty

(* Without a command and without the UI thread both stay as they are. *)
LEMMA UndisturbedQuit ==
    ASSUME LInv, Undisturbed, running' = running,
           ~running => cancel' /\ conn' = None /\ ~playback'
    PROVE  ShutdownIsLast' /\ QuitIsFinal'
  BY DEF LInv, ShutdownIsLast, QuitIsFinal, Undisturbed, uiVars

(* A start_connect that returns leaves the stack empty or is inside another *)
(* one.                                                                     *)
LEMMA ReturnPlace ==
    ASSUME LInv, Return, pc \in {"begun", "nested", "connecting"}
    PROVE  PlaceInv'
  <1>1. /\ frames \in Seq(Request) /\ frames # <<>>
        /\ base \in {"top", "drain", "drain2", "recv"}
    BY DEF LInv, IInv, TypeOK, StackInv
  <1>2. CASE Len(frames) = 1
    BY <1>1, <1>2 DEF Return, PlaceInv
  <1>3. CASE Len(frames) # 1
    BY <1>3 DEF Return, PlaceInv
  <1> QED
    BY <1>2, <1>3

(* Every command keeps it. *)
LEMMA CommandLInv ==
    ASSUME LInv, HandleCommand
    PROVE  ShutdownIsLast' /\ QuitIsFinal' /\ PlaceInv'
  <1>1. CASE CmdConnect
    <2>1. UNCHANGED <<ui, running>> /\ pc' = "begun"
      BY <1>1 DEF CmdConnect, EnterConnect, uiVars
    <2> QED
      BY <1>1, <2>1, TakeQuit DEF CmdConnect, PlaceInv
  <1>2. CASE CmdShutdown
    <2>1. cmdq \in Seq(Command) /\ cmdq # <<>> /\ cmdq' = Tail(cmdq) /\ Head(cmdq).op = "Shutdown"
      BY <1>2 DEF LInv, IInv, TypeOK, CmdShutdown, Taken, Take
    <2>a. 1 \in DOMAIN cmdq /\ cmdq[1].op = "Shutdown"
      BY <2>1
    <2>2. ui = "closed" /\ Len(cmdq) = 1
      BY <2>a DEF LInv, ShutdownIsLast
    <2>3. cmdq' = <<>>
      BY <2>1, <2>2
    <2>4. ui' = ui /\ frames' = frames /\ pc' = AfterCommand /\ pc # "idle"
      BY <1>2 DEF CmdShutdown, Taken, Take, uiVars
    <2> QED
      BY <1>2, <2>2, <2>3, <2>4
         DEF LInv, CmdShutdown, Teardown, ShutdownIsLast, QuitIsFinal, PlaceInv, AfterCommand
  <1>3. ASSUME NEW op, op # "Shutdown", Taken(op), running' = running
        PROVE  ShutdownIsLast' /\ QuitIsFinal' /\ PlaceInv'
    <2>1. /\ Take(op) /\ UNCHANGED <<ui, running>>
          /\ frames' = frames /\ pc' = AfterCommand /\ pc # "idle"
      BY <1>3 DEF Taken, Take, uiVars
    <2>2. PlaceInv'
      BY <2>1 DEF LInv, PlaceInv, AfterCommand
    <2> QED
      BY <1>3, <2>1, <2>2, TakeQuit
  <1> QED
    BY <1>1, <1>2, <1>3
       DEF HandleCommand, CmdDisconnect, CmdTune, CmdControl, CmdStartIqRecord, CmdStopIqRecord,
           CmdPlayIqFile, CmdStopIqPlayback, engineVars

(* So does every step of the engine itself. *)
LEMMA EngineLInv ==
    ASSUME LInv, EngineStep
    PROVE  ShutdownIsLast' /\ QuitIsFinal' /\ PlaceInv'
  <1>1. CASE RetryNow
    <2>1. running /\ pc' = "begun" /\ UNCHANGED <<cmdq, ui, running>>
      BY <1>1 DEF LInv, PlaceInv, RetryNow, EnterConnect, uiVars
    <2> QED
      BY <2>1 DEF LInv, ShutdownIsLast, QuitIsFinal, PlaceInv
  <1>2. CASE ConnectOk
    <2>1. Undisturbed /\ UNCHANGED <<running, cancel, playback>> /\ Return /\ pc = "connecting"
          /\ (cancel => conn' = conn)
      BY <1>2 DEF ConnectOk, Undisturbed, Unwanted
    <2>2. ~running => cancel' /\ conn' = None /\ ~playback'
      BY <2>1 DEF LInv, QuitIsFinal
    <2> QED
      BY <2>1, <2>2, UndisturbedQuit, ReturnPlace
  <1>3. CASE \E err \in ErrorKind : ConnectErr(err)
    <2>1. Undisturbed /\ UNCHANGED <<running, cancel, conn, playback>> /\ Return /\ pc = "connecting"
      BY <1>3 DEF ConnectErr
    <2>2. ~running => cancel' /\ conn' = None /\ ~playback'
      BY <2>1 DEF LInv, QuitIsFinal
    <2> QED
      BY <2>1, <2>2, UndisturbedQuit, ReturnPlace
  <1>4. CASE ConnectBegun \/ ConnectDrained
    <2>1. Undisturbed /\ UNCHANGED <<running, cancel, conn, playback>>
      BY <1>4, DrainKeepsRunning DEF ConnectBegun, ConnectDrained
    <2>2. ~running => cancel' /\ conn' = None /\ ~playback'
      BY <2>1 DEF LInv, QuitIsFinal
    <2>3. PlaceInv'
      <3>1. CASE Unwanted
        BY <1>4, <3>1, ReturnPlace DEF ConnectBegun, ConnectDrained
      <3>2. CASE ~Unwanted
        BY <1>4, <3>2 DEF ConnectBegun, ConnectDrained, PlaceInv
      <3> QED
        BY <3>1, <3>2
    <2> QED
      BY <2>1, <2>2, <2>3, UndisturbedQuit
  <1>5. CASE Top \/ PumpData \/ PumpNothing \/ MaybeRetry
    <2>1. Undisturbed /\ UNCHANGED <<running, cancel, frames>> /\ pc' # "idle" /\ pc \in {"top", "pump", "idle"}
      BY <1>5 DEF Top, PumpData, PumpNothing, MaybeRetry
    <2>2. ~running => cancel' /\ conn' = None /\ ~playback'
      BY <1>5, <2>1 DEF LInv, QuitIsFinal, Top, Teardown, PumpData, PumpNothing, MaybeRetry
    <2> QED
      BY <2>1, <2>2, UndisturbedQuit DEF LInv, PlaceInv
  <1>6. CASE Drained \/ Drained2 \/ AwaitNothing
    <2>1. Undisturbed /\ UNCHANGED <<running, cancel, conn, playback, frames>>
      BY <1>6, DrainKeepsRunning DEF Drained, Drained2, AwaitNothing
    <2>2. ~running => cancel' /\ conn' = None /\ ~playback'
      BY <2>1 DEF LInv, QuitIsFinal
    <2>3. PlaceInv'
      BY <1>6, <2>1 DEF LInv, PlaceInv, Drained, Drained2, AwaitNothing
    <2> QED
      BY <2>1, <2>2, <2>3, UndisturbedQuit
  <1>7. CASE PollHandshake \/ CheckStall
    <2>1. Undisturbed /\ UNCHANGED <<running, cancel, frames>> /\ pc' # "idle" /\ pc \in {"handshake", "stall"}
      BY <1>7 DEF PollHandshake, CheckStall
    <2>2. UNCHANGED <<conn, playback>> \/ (conn' = None /\ playback' = FALSE)
      BY <1>7 DEF PollHandshake, CheckStall, FailConnection, Teardown
    <2>3. ~running => cancel' /\ conn' = None /\ ~playback'
      BY <2>1, <2>2 DEF LInv, QuitIsFinal
    <2> QED
      BY <2>1, <2>3, UndisturbedQuit DEF LInv, PlaceInv
  <1> QED
    BY <1>1, <1>2, <1>3, <1>4, <1>5, <1>6, <1>7 DEF EngineStep

(* What the UI thread sends goes behind what it has sent; after Shutdown it *)
(* sends nothing.                                                           *)
LEMMA UserLInv ==
    ASSUME LInv, UserStep \/ UiFinish \/ UiPoll
    PROVE  ShutdownIsLast' /\ QuitIsFinal' /\ PlaceInv'
  <1>1. Quiet
    BY DEF UserStep, UiFinish, UiPoll, UiConnect, UiTune, UiControl, UiRecord, UiStopRecord,
           UiPlay, UiStopPlay, UiAbort, UiQuit, UiDisconnect, UiClose, UiSend
  <1>2. PlaceInv' /\ UNCHANGED <<running, conn, playback>>
    BY <1>1 DEF LInv, PlaceInv, Quiet, engineVars, controlVars
  <1>3. cmdq \in Seq(Command)
    BY DEF LInv, IInv, TypeOK
  <1>4. ASSUME NEW cmd, cmd.op # "Shutdown", cmdq' = Append(cmdq, cmd),
               ui # "closed", ui' # "closed"
        PROVE  ShutdownIsLast' /\ QuitIsFinal'
    <2>1. running /\ \A i \in DOMAIN cmdq : cmdq[i].op # "Shutdown"
      BY <1>4 DEF LInv, ShutdownIsLast, QuitIsFinal
    <2>2. \A i \in DOMAIN cmdq' : cmdq'[i].op # "Shutdown"
      BY <1>3, <1>4, <2>1
    <2> QED
      BY <1>2, <1>4, <2>1, <2>2 DEF ShutdownIsLast, QuitIsFinal
  <1>5. CASE UiClose
    <2>1. /\ cmdq' = Append(cmdq, [op |-> "Shutdown"])
          /\ ui # "closed" /\ ui' = "closed"
      BY <1>5 DEF UiClose
    <2>2. running /\ \A i \in DOMAIN cmdq : cmdq[i].op # "Shutdown"
      BY <2>1 DEF LInv, ShutdownIsLast, QuitIsFinal
    <2>3. /\ Len(cmdq') = Len(cmdq) + 1 /\ cmdq'[Len(cmdq')].op = "Shutdown"
          /\ \A i \in DOMAIN cmdq' : i # Len(cmdq') => i \in DOMAIN cmdq /\ cmdq'[i] = cmdq[i]
      BY <1>3, <2>1
    <2>4. cmdq' # <<>>
      BY <1>3, <2>1
    <2> QED
      BY <1>2, <2>1, <2>2, <2>3, <2>4 DEF ShutdownIsLast, QuitIsFinal
  <1>6. CASE UiAbort \/ UiQuit
    <2>1. /\ ui = "idle" /\ ui' # "closed" /\ cmdq' = cmdq
      BY <1>6 DEF UiAbort, UiQuit, CanSend
    <2> QED
      BY <1>2, <2>1 DEF LInv, ShutdownIsLast, QuitIsFinal
  <1>7. CASE UiPoll
    BY <1>2, <1>7 DEF LInv, ShutdownIsLast, QuitIsFinal, UiPoll
  <1>8. CASE UiDisconnect
    BY <1>2, <1>4, <1>8 DEF UiDisconnect
  <1>9. CASE UserStep /\ ~UiAbort /\ ~UiQuit
    BY <1>2, <1>4, <1>9
       DEF UserStep, UiConnect, UiTune, UiControl, UiRecord, UiStopRecord, UiPlay, UiStopPlay,
           UiSend, CanSend
  <1> QED
    BY <1>2, <1>5, <1>6, <1>7, <1>8, <1>9 DEF UserStep, UiFinish

(* Every step of the system keeps the strengthened invariant. *)
LEMMA NextLInv == LInv /\ [Next]_vars => LInv'
  <1> SUFFICES ASSUME LInv, [Next]_vars PROVE LInv'
    OBVIOUS
  <1>1. IInv'
    BY NextIInv DEF LInv
  <1>2. CASE Environment \/ UNCHANGED vars
    <2>1. UNCHANGED <<conn, playback, running, pc, frames, cmdq, cancel, ui>>
      BY <1>2 DEF Environment, LinkFails, TimePasses, RetryDue, vars, engineVars, controlVars,
                  uiVars
    <2> QED
      BY <1>1, <2>1 DEF LInv, ShutdownIsLast, QuitIsFinal, PlaceInv
  <1> QED
    BY <1>1, <1>2, CommandLInv, EngineLInv, UserLInv DEF LInv, Next, Ended
-----------------------------------------------------------------------------
(* The refinement.  What an action does to the call stack, as the set of    *)
(* receivers that are being opened.                                         *)
LEMMA TryingReturned ==
    ASSUME LInv, Return, pc \in {"begun", "nested", "connecting"}
    PROVE  /\ Trying # {} /\ Trying' \in SUBSET Trying
           /\ Target \in Request /\ Target.dest \in Trying
  <1>1. frames \in Seq(Request) /\ frames # <<>> /\ Len(frames) \in DOMAIN frames
    BY DEF LInv, IInv, TypeOK, StackInv
  <1>2. Target \in Request /\ Target.dest \in Trying
    BY <1>1 DEF Target, Trying
  <1>3. frames' = SubSeq(frames, 1, Len(frames) - 1)
    BY DEF Return
  <1>4. \A i \in DOMAIN frames' : i \in DOMAIN frames /\ frames'[i] = frames[i]
    BY <1>1, <1>3
  <1> QED
    BY <1>2, <1>4 DEF Trying

(* start_connect entered: one more. *)
LEMMA TryingEntered ==
    ASSUME LInv, NEW r \in Request, frames' = Append(frames, r)
    PROVE  Trying' = Trying \cup {r.dest}
  <1>1. frames \in Seq(Request)
    BY DEF LInv, IInv, TypeOK
  <1>2. /\ DOMAIN frames' = DOMAIN frames \cup {Len(frames) + 1}
        /\ frames'[Len(frames) + 1] = r
        /\ \A i \in DOMAIN frames : frames'[i] = frames[i]
    BY <1>1
  <1> QED
    BY <1>2 DEF Trying

(* None outside start_connect. *)
LEMMA TryingEmpty ==
    ASSUME LInv
    PROVE  /\ pc \notin {"begun", "nested", "connecting"} => Trying = {}
           /\ pc \in {"begun", "nested", "connecting"} => Trying # {}
  <1>1. frames \in Seq(Request) /\ (pc \in {"begun", "nested", "connecting"} <=> frames # <<>>)
    BY DEF LInv, IInv, TypeOK, StackInv, PlaceInv
  <1>2. frames = <<>> => Trying = {}
    BY DEF Trying
  <1>3. frames # <<>> => 1 \in DOMAIN frames
    BY <1>1
  <1> QED
    BY <1>1, <1>2, <1>3 DEF Trying

(* What belongs to a request is there just when the request is. *)
LEMMA ReceiverOf ==
    /\ Receiver(None) = {}
    /\ \A r \in Request : Receiver(r) = {r.dest} /\ r.dest \in Dest
  BY NoneAssumption DEF Receiver, Request

(* An engine that was just built is one that nobody wants anything of. *)
LEMMA InitRefines == Init => Lifecycle!Init
  <1> SUFFICES ASSUME Init PROVE Lifecycle!Init
    OBVIOUS
  <1>1. Wanted = {} /\ Device = {} /\ Trying = {} /\ Again = FALSE /\ Shown = "Disconnected"
        /\ CancelPending = FALSE
    BY DEF Init, Wanted, Device, Trying, Again, Shown, CancelPending, Receiver
  <1> QED
    BY <1>1 DEF Init, Lifecycle!Init

(* Where the engine gives up it may: nothing is wanted, or a cancel is on   *)
(* its way.                                                                 *)
LEMMA MayGiveUp ==
    ASSUME LInv, Unwanted
    PROVE  Wanted = {} \/ CancelPending
  BY DEF LInv, IInv, FlagIsExplained, Unwanted, Wanted, Receiver

(* Where it goes on, something is wanted. *)
LEMMA MayNotGiveUp ==
    ASSUME LInv, ~Unwanted
    PROVE  running /\ request \in Request /\ Wanted = {request.dest} /\ Wanted # {}
  BY ReceiverOf DEF LInv, IInv, TypeOK, QuitIsFinal, Unwanted, Wanted

(* Steps that leave alone what the lifecycle is made of. *)
LEMMA Unseen ==
    ASSUME UNCHANGED <<request, running, conn, playback, frames, state, CancelPending>>,
           retry'.when = "never" <=> retry.when = "never"
    PROVE  UNCHANGED Lifecycle!vars
  BY DEF Lifecycle!vars, Wanted, Device, Trying, Again, Shown, Receiver

(* Without a command and without the UI thread a cancel stays on its way.   *)
LEMMA UndisturbedPending ==
    ASSUME Undisturbed PROVE CancelPending' = CancelPending
  BY DEF Undisturbed, uiVars, CancelPending

(* Whichever command is handled, except for those two. *)
LEMMA TakenPending ==
    ASSUME LInv, NEW op, Take(op), UNCHANGED ui, op \notin {"Disconnect", "Shutdown"}
    PROVE  CancelPending' = CancelPending
  <1>1. cmdq \in Seq(Command) /\ cmdq # <<>> /\ cmdq' = Tail(cmdq)
    BY DEF LInv, IInv, TypeOK, Take
  <1>2. \A i \in DOMAIN cmdq' : i + 1 \in DOMAIN cmdq /\ cmdq'[i] = cmdq[i + 1]
    BY <1>1
  <1>3. CancelPending' => CancelPending
    BY <1>2 DEF CancelPending
  <1>4. CancelPending => CancelPending'
    BY TakeKeepsPending DEF LInv, IInv
  <1>5. CancelPending \in BOOLEAN
    BY DEF CancelPending
  <1> QED
    BY <1>3, <1>4, <1>5 DEF CancelPending

(* fail_connection loses the source, and plans another attempt if it must.  *)
LEMMA FailRefines ==
    ASSUME LInv, NEW err \in ErrorKind, FailConnection(err), Undisturbed, Trying = {},
           UNCHANGED <<request, running, frames>>
    PROVE  Lifecycle!Lose
  <1>1. /\ Wanted' = Wanted /\ Trying' = Trying /\ CancelPending' = CancelPending
        /\ Device' = {} /\ playback' = FALSE
    BY UndisturbedPending DEF Wanted, Trying, FailConnection, Teardown, Device, Receiver
  <1>2. CASE Unwanted
    <2>1. Shown' = "Disconnected" /\ Again' = Again
      BY <1>2 DEF FailConnection, Shown, Again
    <2> QED
      BY <1>1, <1>2, <2>1, MayGiveUp DEF Lifecycle!Lose
  <1>3. CASE ~Unwanted
    <2>1. state' = "Reconnecting" /\ retry'.when # "never"
      BY <1>3 DEF FailConnection, Failed, Schedule
    <2>2. Shown' = "Reconnecting" /\ Again' = TRUE
      BY <1>3, <2>1, MayNotGiveUp DEF Shown, Again, Unwanted
    <2> QED
      BY <1>1, <1>3, <2>2, MayNotGiveUp DEF Lifecycle!Lose
  <1> QED
    BY <1>2, <1>3

(* A start_connect that gives up. *)
LEMMA GiveUpRefines ==
    ASSUME LInv, Unwanted, Return, Undisturbed, pc \in {"begun", "nested", "connecting"},
           state' = "Disconnected", UNCHANGED <<conn, request, retry, playback, running>>
    PROVE  Lifecycle!GiveUp
  <1>1. Trying # {} /\ Trying' \in SUBSET Trying
    BY TryingReturned
  <1>2. /\ UNCHANGED <<Wanted, Device, Again, playback>> /\ CancelPending' = CancelPending
        /\ Shown' = "Disconnected"
    BY UndisturbedPending DEF Wanted, Device, Again, Shown, Receiver
  <1> QED
    BY <1>1, <1>2, MayGiveUp DEF Lifecycle!GiveUp, Lifecycle!Over
-----------------------------------------------------------------------------
(* Every command is one of the user's wishes, or leaves the lifecycle alone. *)
LEMMA CommandRefines ==
    ASSUME LInv, LInv', HandleCommand
    PROVE  [Lifecycle!Next]_Lifecycle!vars
  <1>1. CASE CmdConnect
    <2> DEFINE r == Head(cmdq).req
    <2>1. r \in Request /\ Take("Connect") /\ UNCHANGED <<ui, running, state>>
      BY <1>1, TakeType DEF LInv, IInv, CmdConnect, EnterConnect, Command, uiVars
    <2>2. running /\ CancelPending' = CancelPending
      BY <2>1, TakeQuit, TakenPending
    <2>3. /\ request' = r /\ conn' = None /\ playback' = FALSE /\ retry' = NoRetry
          /\ frames' = Append(frames, r)
      BY <1>1 DEF CmdConnect, EnterConnect, Teardown
    <2>4. Trying' = Trying \cup {r.dest}
      BY <2>1, <2>3, TryingEntered
    <2>5. /\ Wanted' = {r.dest} /\ Device' = {} /\ Again' = FALSE /\ Shown' = Shown
          /\ r.dest \in Dest
      BY <2>1, <2>2, <2>3, ReceiverOf DEF Wanted, Device, Again, Shown, NoRetry
    <2> HIDE DEF r
    <2>6. Lifecycle!Ask(r.dest)
      BY <2>2, <2>3, <2>4, <2>5 DEF Lifecycle!Ask
    <2> QED
      BY <2>5, <2>6 DEF Lifecycle!Next
  <1>2. CASE CmdDisconnect \/ CmdShutdown
    <2>1. /\ conn' = None /\ playback' = FALSE /\ frames' = frames /\ ui' = ui
          /\ running' => request' = None /\ state' = "Disconnected"
      BY <1>2 DEF CmdDisconnect, CmdShutdown, Teardown, Taken, uiVars
    <2>2. /\ Wanted' = {} /\ Device' = {} /\ Again' = FALSE /\ Trying' = Trying
          /\ Shown' = "Disconnected"
      BY <2>1 DEF Wanted, Device, Again, Trying, Shown, Receiver
    <2>3. cmdq \in Seq(Command) /\ cmdq # <<>> /\ Head(cmdq).op \in {"Disconnect", "Shutdown"}
      BY <1>2 DEF LInv, IInv, TypeOK, CmdDisconnect, CmdShutdown, Taken, Take
    <2>4. 1 \in DOMAIN cmdq /\ cmdq[1].op \in {"Disconnect", "Shutdown"}
      BY <2>3
    <2>5. CancelPending = TRUE /\ CancelPending' \in BOOLEAN
      BY <2>4 DEF CancelPending
    <2>6. Lifecycle!Withdraw
      BY <2>1, <2>2, <2>5 DEF Lifecycle!Withdraw
    <2> QED
      BY <2>6 DEF Lifecycle!Next
  <1>3. CASE CmdPlayIqFile
    <2>1. /\ Take("PlayIqFile") /\ UNCHANGED <<ui, running, frames>>
          /\ conn' = None /\ request' = None
          /\ \/ playback' = TRUE /\ state' = "Streaming"
             \/ playback' = FALSE /\ state' = "Disconnected"
      BY <1>3 DEF CmdPlayIqFile, Taken, uiVars
    <2>2. running /\ CancelPending' = CancelPending
      BY <2>1, TakeQuit, TakenPending
    <2>3. Wanted' = {} /\ Device' = {} /\ Again' = FALSE /\ Trying' = Trying /\ Shown' = state'
      BY <2>1, <2>2 DEF Wanted, Device, Again, Trying, Shown, Receiver
    <2>4. CASE playback' = TRUE /\ state' = "Streaming"
      BY <2>2, <2>3, <2>4 DEF Lifecycle!Play, Lifecycle!Next
    <2>5. CASE playback' = FALSE /\ state' = "Disconnected"
      BY <2>2, <2>3, <2>5 DEF Lifecycle!Withdraw, Lifecycle!Next
    <2> QED
      BY <2>1, <2>4, <2>5
  <1>4. CASE CmdStopIqPlayback
    <2>1. /\ Take("StopIqPlayback") /\ UNCHANGED <<ui, running, frames, conn, request, retry>>
          /\ playback' = FALSE /\ state' = "Disconnected"
      BY <1>4 DEF CmdStopIqPlayback, Taken, uiVars
    <2>2. running /\ CancelPending' = CancelPending
      BY <2>1, TakeQuit, TakenPending
    <2>3. UNCHANGED <<Wanted, Device, Again, Trying>> /\ Shown' = "Disconnected"
      BY <2>1, <2>2 DEF Wanted, Device, Again, Trying, Shown, Receiver
    <2> QED
      BY <2>1, <2>2, <2>3 DEF Lifecycle!FileEnds, Lifecycle!Next
  <1>5. CASE CmdTune
    <2>1. /\ Take("Tune") /\ UNCHANGED <<ui, running, frames, playback, retry, state>>
          /\ conn' = IF conn = None THEN None ELSE [conn EXCEPT !.center = Head(cmdq).center]
          /\ request' = IF request = None THEN None
                        ELSE [request EXCEPT !.center = Head(cmdq).center]
      BY <1>5 DEF CmdTune, Taken, uiVars
    <2>2. CancelPending' = CancelPending
      BY <2>1, TakenPending
    <2> DEFINE hz == Head(cmdq).center
    <2>3. hz \in Center
      BY <2>1, TakeType DEF LInv, IInv, Command
    <2>a. ASSUME NEW r \in Request
          PROVE  /\ [r EXCEPT !.center = hz] \in Request
                 /\ [r EXCEPT !.center = hz].dest = r.dest
      BY <2>3 DEF Request
    <2>b. conn \in Request \cup {None} /\ request \in Request \cup {None} /\ None \notin Request
      BY NoneAssumption DEF LInv, IInv, TypeOK, Request
    <2> HIDE DEF hz
    <2>4. Receiver(conn') = Receiver(conn)
      <3>1. CASE conn = None
        BY <2>1, <3>1
      <3>2. CASE conn # None
        BY <2>1, <2>a, <2>b, <3>2, ReceiverOf DEF hz
      <3> QED
        BY <3>1, <3>2
    <2>5. Receiver(request') = Receiver(request) /\ (request' = None <=> request = None)
      <3>1. CASE request = None
        BY <2>1, <3>1
      <3>2. CASE request # None
        BY <2>1, <2>a, <2>b, <3>2, ReceiverOf DEF hz
      <3> QED
        BY <3>1, <3>2
    <2>6. UNCHANGED <<Wanted, Device, Again, Trying, Shown>>
      BY <2>1, <2>4, <2>5 DEF Wanted, Device, Again, Trying, Shown
    <2> QED
      BY <2>1, <2>2, <2>6 DEF Lifecycle!vars
  <1>6. CASE CmdControl \/ CmdStartIqRecord \/ CmdStopIqRecord
    <2>1. /\ \E op \in {"Control", "StartIqRecord", "StopIqRecord"} : Take(op)
          /\ UNCHANGED <<request, running, conn, playback, frames, state, retry, ui>>
      BY <1>6 DEF CmdControl, CmdStartIqRecord, CmdStopIqRecord, Taken, uiVars, engineVars
    <2>2. CancelPending' = CancelPending
      BY <2>1, TakenPending
    <2> QED
      BY <2>1, <2>2, Unseen
  <1> QED
    BY <1>1, <1>2, <1>3, <1>4, <1>5, <1>6 DEF HandleCommand

(* The engine's own steps outside start_connect: a source is lost or        *)
(* delivers, a file ends, the retry is waited for, or nothing is seen.      *)
LEMMA LoopRefines ==
    ASSUME LInv,
           Top \/ Drained \/ PollHandshake \/ PumpData \/ PumpNothing
             \/ Drained2 \/ CheckStall \/ MaybeRetry \/ AwaitNothing
    PROVE  [Lifecycle!Next]_Lifecycle!vars
  <1>a. Undisturbed /\ CancelPending' = CancelPending
    BY UndisturbedPending
       DEF Top, Drained, PollHandshake, PumpData, PumpNothing, Drained2, CheckStall, MaybeRetry,
           AwaitNothing
  <1>1. CASE Top
    <2>1. UNCHANGED <<request, running, conn, playback, frames, state, retry>>
      BY <1>1 DEF Top, Teardown, LInv, QuitIsFinal, IInv, TypeOK
    <2> QED
      BY <1>a, <2>1, Unseen
  <1>2. CASE Drained \/ Drained2 \/ AwaitNothing
    <2>1. UNCHANGED <<request, running, conn, playback, frames, state, retry>>
      BY <1>2, DrainKeepsRunning DEF Drained, Drained2, AwaitNothing
    <2> QED
      BY <1>a, <2>1, Unseen
  <1>3. CASE PollHandshake \/ CheckStall
    <2>1. Trying = {} /\ UNCHANGED <<request, running, frames>>
      BY <1>3, TryingEmpty DEF PollHandshake, CheckStall
    <2>2. link.err \in ErrorKind \cup {"none"} /\ "other" \in ErrorKind
      BY DEF LInv, IInv, TypeOK, Link, ErrorKind
    <2>3. CASE \E err \in ErrorKind : FailConnection(err)
      BY <1>a, <2>1, <2>3, FailRefines DEF Lifecycle!Next
    <2>4. CASE UNCHANGED <<conn, playback, state, retry>>
      BY <1>a, <2>1, <2>4, Unseen
    <2> QED
      BY <1>3, <2>2, <2>3, <2>4 DEF PollHandshake, CheckStall
  <1>4. CASE PumpData
    <2>1. /\ conn # None \/ playback
          /\ UNCHANGED <<request, running, conn, playback, frames, retry>>
          /\ state' \in {state, "Streaming"}
      BY <1>4 DEF PumpData
    <2>2. running /\ Lifecycle!Source
      BY <2>1 DEF LInv, QuitIsFinal, Lifecycle!Source, Device, Receiver
    <2>3. UNCHANGED <<Wanted, Device, playback, Again, Trying>> /\ Shown' \in {Shown, "Streaming"}
      BY <2>1, <2>2 DEF Wanted, Device, Again, Trying, Shown
    <2>4. CASE Shown' = Shown
      BY <1>a, <2>3, <2>4 DEF Lifecycle!vars
    <2>5. CASE Shown' = "Streaming"
      BY <1>a, <2>2, <2>3, <2>5 DEF Lifecycle!Deliver, Lifecycle!Next
    <2> QED
      BY <2>3, <2>4, <2>5
  <1>5. CASE PumpNothing
    <2>1. UNCHANGED <<request, running, conn, frames, retry>>
      BY <1>5 DEF PumpNothing
    <2>2. CASE UNCHANGED <<playback, state>>
      BY <1>a, <2>1, <2>2, Unseen
    <2>3. CASE playback' = FALSE /\ state' = "Disconnected"
      <3>1. UNCHANGED <<Wanted, Device, Again, Trying>> /\ Shown' = "Disconnected"
        BY <2>1, <2>3 DEF Wanted, Device, Again, Trying, Shown
      <3> QED
        BY <1>a, <2>3, <3>1 DEF Lifecycle!FileEnds, Lifecycle!Next
    <2> QED
      BY <1>5, <2>2, <2>3 DEF PumpNothing
  <1>6. CASE MaybeRetry
    <2>1. /\ UNCHANGED <<request, running, conn, playback, frames, retry>>
          /\ running /\ conn = None /\ ~playback /\ Trying = {}
          /\ state' = IF request = None \/ retry.when = "never" THEN state ELSE "Reconnecting"
      BY <1>6, TryingEmpty DEF MaybeRetry, LInv, PlaceInv
    <2>2. CASE request = None \/ retry.when = "never"
      BY <1>a, <2>1, <2>2, Unseen
    <2>3. CASE ~(request = None \/ retry.when = "never")
      <3>1. /\ Again /\ ~Lifecycle!Source /\ Shown' = "Reconnecting"
            /\ UNCHANGED <<Wanted, Device, Again, Trying>>
        BY <2>1, <2>3 DEF Wanted, Device, Again, Trying, Shown, Receiver, Lifecycle!Source
      <3> QED
        BY <1>a, <2>1, <3>1 DEF Lifecycle!Wait, Lifecycle!Next
    <2> QED
      BY <2>2, <2>3
  <1> QED
    BY <1>1, <1>2, <1>3, <1>4, <1>5, <1>6

(* start_connect, from the retry on: the attempt begins, is announced, is   *)
(* given up, opens the receiver, or fails.                                  *)
LEMMA ConnectRefines ==
    ASSUME LInv,
           RetryNow \/ ConnectBegun \/ ConnectDrained \/ ConnectOk
             \/ \E err \in ErrorKind : ConnectErr(err)
    PROVE  [Lifecycle!Next]_Lifecycle!vars
  <1>a. Undisturbed /\ CancelPending' = CancelPending
    <2>1. Undisturbed
      BY DEF RetryNow, EnterConnect, ConnectBegun, ConnectDrained, ConnectOk, ConnectErr,
             Undisturbed
    <2> QED
      BY <2>1, UndisturbedPending
  <1>1. CASE RetryNow
    <2>1. /\ request \in Request /\ running /\ retry.when = "now" /\ pc = "idle"
          /\ conn = None /\ ~playback /\ Trying = {}
          /\ UNCHANGED <<request, running, state, retry>>
          /\ conn' = None /\ playback' = FALSE /\ frames' = Append(frames, request)
      BY <1>1, TryingEmpty
         DEF RetryNow, EnterConnect, Teardown, LInv, PlaceInv, IInv, TypeOK
    <2>2. Trying' = Wanted
      BY <2>1, TryingEntered, ReceiverOf DEF Wanted
    <2>3. /\ Again /\ ~Lifecycle!Source /\ playback' = playback
          /\ UNCHANGED <<Wanted, Device, Again, Shown>>
      BY <2>1, NoneAssumption
         DEF Wanted, Device, Again, Shown, Receiver, Lifecycle!Source, Request, LInv, IInv, TypeOK
    <2> QED
      BY <1>a, <2>1, <2>2, <2>3 DEF Lifecycle!Retry, Lifecycle!Next
  <1>2. CASE ConnectBegun \/ ConnectDrained
    <2>1. /\ pc \in {"begun", "nested", "connecting"}
          /\ UNCHANGED <<conn, request, retry, playback, running>>
      BY <1>2, DrainKeepsRunning DEF ConnectBegun, ConnectDrained
    <2>2. CASE Unwanted
      <3>1. Return /\ state' = "Disconnected"
        BY <1>2, <2>2 DEF ConnectBegun, ConnectDrained
      <3> QED
        BY <1>a, <2>1, <2>2, <3>1, GiveUpRefines DEF Lifecycle!Next
    <2>3. CASE ~Unwanted
      <3>1. frames' = frames /\ state' \in {state, "Connecting"}
        BY <1>2, <2>3 DEF ConnectBegun, ConnectDrained
      <3>2. CASE state' = state
        BY <1>a, <2>1, <3>1, <3>2, Unseen
      <3>3. CASE state' = "Connecting"
        <4>1. Shown' = "Connecting" /\ UNCHANGED <<Wanted, Device, Again, Trying>>
          BY <2>1, <2>3, <3>1, <3>3, MayNotGiveUp DEF Wanted, Device, Again, Trying, Shown
        <4> QED
          BY <1>a, <2>1, <2>3, <4>1, TryingEmpty, MayNotGiveUp
             DEF Lifecycle!Announce, Lifecycle!Next
      <3> QED
        BY <3>1, <3>2, <3>3
    <2> QED
      BY <2>2, <2>3
  <1>3. CASE ConnectOk
    <2>1. pc = "connecting" /\ Return /\ UNCHANGED <<request, playback, running>>
      BY <1>3 DEF ConnectOk
    <2>2. CASE Unwanted
      <3>1. state' = "Disconnected" /\ UNCHANGED <<conn, retry>>
        BY <1>3, <2>2 DEF ConnectOk
      <3> QED
        BY <1>a, <2>1, <2>2, <3>1, GiveUpRefines DEF Lifecycle!Next
    <2>3. CASE ~Unwanted
      <3>1. /\ conn' = Target /\ retry' = NoRetry
            /\ state' \in {"Connecting", "Streaming"}
        BY <1>3, <2>3 DEF ConnectOk
      <3>2. /\ Trying # {} /\ Trying' \in SUBSET Trying
            /\ Target \in Request /\ Target.dest \in Trying /\ Target.dest \in Dest
        BY <2>1, TryingReturned, ReceiverOf
      <3>3. /\ Device' = {Target.dest} /\ Again' = FALSE
            /\ Shown' \in {"Connecting", "Streaming"} /\ Wanted' = Wanted
        BY <2>1, <2>3, <3>1, <3>2, MayNotGiveUp, ReceiverOf
           DEF Wanted, Device, Again, Shown, NoRetry
      <3> DEFINE d == Target.dest
      <3>4. Lifecycle!Open(d)
        BY <1>a, <2>1, <2>3, <3>2, <3>3, MayNotGiveUp DEF Lifecycle!Open, Lifecycle!Over
      <3> QED
        BY <3>2, <3>4 DEF Lifecycle!Next
    <2> QED
      BY <2>2, <2>3
  <1>4. CASE \E err \in ErrorKind : ConnectErr(err)
    <2>1. PICK err \in ErrorKind : ConnectErr(err)
      BY <1>4
    <2>2. pc = "connecting" /\ Return /\ UNCHANGED <<conn, request, playback, running>>
      BY <2>1 DEF ConnectErr
    <2>3. CASE Unwanted
      <3>1. state' = "Disconnected" /\ retry' = retry
        BY <2>1, <2>3 DEF ConnectErr
      <3> QED
        BY <1>a, <2>2, <2>3, <3>1, GiveUpRefines DEF Lifecycle!Next
    <2>4. CASE ~Unwanted
      <3>1. state' = "Reconnecting" /\ retry'.when # "never"
        BY <2>1, <2>4 DEF ConnectErr, Failed, Schedule
      <3>2. Trying # {} /\ Trying' \in SUBSET Trying
        BY <2>2, TryingReturned
      <3>3. Shown' = "Reconnecting" /\ Again' = TRUE /\ UNCHANGED <<Wanted, Device>>
        BY <2>2, <2>4, <3>1, MayNotGiveUp DEF Wanted, Device, Again, Shown, Unwanted
      <3> QED
        BY <1>a, <2>2, <2>4, <3>2, <3>3, MayNotGiveUp
           DEF Lifecycle!Fail, Lifecycle!Over, Lifecycle!Next
    <2> QED
      BY <2>3, <2>4
  <1> QED
    BY <1>1, <1>2, <1>3, <1>4

(* The UI thread raises the flag, or is not seen. *)
LEMMA UserRefines ==
    ASSUME LInv, UserStep \/ UiFinish \/ UiPoll
    PROVE  [Lifecycle!Next]_Lifecycle!vars
  <1>1. Quiet
    BY DEF UserStep, UiFinish, UiPoll, UiConnect, UiTune, UiControl, UiRecord, UiStopRecord,
           UiPlay, UiStopPlay, UiAbort, UiQuit, UiDisconnect, UiClose, UiSend
  <1>2. UNCHANGED <<request, running, conn, playback, frames, state, retry>>
    BY <1>1 DEF Quiet, engineVars, controlVars
  <1>3. CASE CancelPending' = CancelPending
    BY <1>2, <1>3, Unseen
  <1>4. CASE CancelPending' = TRUE
    <2>1. UNCHANGED <<Wanted, Device, Again, Trying, Shown>>
      BY <1>2 DEF Wanted, Device, Again, Trying, Shown
    <2> QED
      BY <1>2, <1>4, <2>1 DEF Lifecycle!Cancel, Lifecycle!Next
  <1>5. CancelPending' \in BOOLEAN
    BY DEF CancelPending
  <1>6. CancelPending' \in {CancelPending, TRUE}
    <2>1. cmdq \in Seq(Command)
      BY DEF LInv, IInv, TypeOK
    <2>2. CASE UiAbort \/ UiQuit
      BY <2>2 DEF UiAbort, UiQuit, CancelPending
    <2>3. CASE UiPoll
      BY <2>3 DEF UiPoll, CancelPending
    <2>4. CASE UiDisconnect \/ UiClose
      <3>1. CancelPending
        BY <2>4 DEF UiDisconnect, UiClose, CancelPending
      <3>2. PICK cmd : cmdq' = Append(cmdq, cmd) /\ cmd.op \in {"Disconnect", "Shutdown"}
        BY <2>4 DEF UiDisconnect, UiClose
      <3>3. Len(cmdq) + 1 \in DOMAIN cmdq' /\ cmdq'[Len(cmdq) + 1] = cmd
        BY <2>1, <3>2
      <3> QED
        BY <3>2, <3>3 DEF CancelPending
    <2>5. CASE UserStep /\ ~UiAbort /\ ~UiQuit
      <3>1. PICK cmd : /\ cmdq' = Append(cmdq, cmd) /\ cmd.op \notin {"Disconnect", "Shutdown"}
                       /\ ui' = ui
        BY <2>5 DEF UserStep, UiConnect, UiTune, UiControl, UiRecord, UiStopRecord, UiPlay,
                    UiStopPlay, UiSend
      <3>2. /\ \A i \in DOMAIN cmdq : i \in DOMAIN cmdq' /\ cmdq'[i] = cmdq[i]
            /\ \A i \in DOMAIN cmdq' : i \in DOMAIN cmdq \/ cmdq'[i] = cmd
        BY <2>1, <3>1
      <3> QED
        BY <3>1, <3>2 DEF CancelPending
    <2> QED
      BY <2>2, <2>3, <2>4, <2>5 DEF UserStep, UiFinish
  <1> QED
    BY <1>3, <1>4, <1>6

(* Every step is a step of the lifecycle or leaves it alone. *)
LEMMA StepRefines ==
    ASSUME LInv, LInv', [Next]_vars
    PROVE  [Lifecycle!Next]_Lifecycle!vars
  <1>1. CASE Environment \/ UNCHANGED vars
    <2>1. /\ UNCHANGED <<request, running, conn, playback, frames, state, cmdq, ui>>
          /\ retry'.when = "never" <=> retry.when = "never"
      BY <1>1 DEF Environment, LinkFails, TimePasses, RetryDue, vars, engineVars, controlVars,
                  uiVars, LInv, IInv, TypeOK, Retry
    <2>2. CancelPending' = CancelPending
      BY <2>1 DEF CancelPending
    <2> QED
      BY <2>1, <2>2, Unseen
  <1> QED
    BY <1>1, CommandRefines, LoopRefines, ConnectRefines, UserRefines
       DEF Next, EngineStep, Ended

(* It holds when the engine is built. *)
LEMMA InitLInv == Init => LInv
  <1>1. Init => ShutdownIsLast /\ QuitIsFinal /\ PlaceInv
    BY DEF Init, ShutdownIsLast, QuitIsFinal, PlaceInv
  <1> QED
    BY <1>1, InitIInv DEF LInv

-----------------------------------------------------------------------------
(* The strengthened invariant holds in every reachable state: once Shutdown *)
(* is handled no receiver is opened any more, whatever still runs inside a  *)
(* start_connect (commands.rs, Shutdown; connection.rs).                    *)
THEOREM AlwaysLInv == Spec => []LInv
  BY InitLInv, NextLInv, PTL DEF Spec

(* The engine implements EngineLifecycle: every step of the two threads is  *)
(* one of its steps or is not seen.  A receiver opens only while one is     *)
(* wanted and is one of those being opened; an attempt is given up only for *)
(* one who withdrew or is about to; the published state changes only to     *)
(* what is the case (engine/inner).                                         *)
THEOREM Refinement == Spec => RefinesLifecycle
  <1>1. Init => Lifecycle!Init
    BY InitRefines
  <1>2. LInv /\ LInv' /\ [Next]_vars => [Lifecycle!Next]_Lifecycle!vars
    BY StepRefines
  <1> QED
    BY <1>1, <1>2, AlwaysLInv, PTL DEF Spec, RefinesLifecycle, Lifecycle!Spec

(* What EngineLifecycle promises follows from its actions alone. *)
LEMMA PromiseKept ==
    Lifecycle!Promise /\ [Lifecycle!Next]_Lifecycle!vars => Lifecycle!Promise'
  <1> SUFFICES ASSUME Lifecycle!Promise, [Lifecycle!Next]_Lifecycle!vars
               PROVE  Lifecycle!Promise'
    OBVIOUS
  <1> USE DEF Lifecycle!Promise, Lifecycle!Served, Lifecycle!Pursued, Lifecycle!Truthful,
              Lifecycle!AtMostOne, Lifecycle!Source
  <1>1. ASSUME NEW d \in Dest, Lifecycle!Ask(d) PROVE Lifecycle!Promise'
    BY <1>1 DEF Lifecycle!Ask
  <1>2. ASSUME NEW d \in Dest, Lifecycle!Open(d) PROVE Lifecycle!Promise'
    BY <1>2 DEF Lifecycle!Open, Lifecycle!Over
  <1>3. CASE Lifecycle!Withdraw
    BY <1>3 DEF Lifecycle!Withdraw
  <1>4. CASE Lifecycle!Play
    BY <1>4 DEF Lifecycle!Play
  <1>5. CASE Lifecycle!FileEnds
    BY <1>5 DEF Lifecycle!FileEnds
  <1>6. CASE Lifecycle!Cancel
    BY <1>6 DEF Lifecycle!Cancel
  <1>7. CASE Lifecycle!Retry
    BY <1>7 DEF Lifecycle!Retry
  <1>8. CASE Lifecycle!Announce
    BY <1>8 DEF Lifecycle!Announce
  <1>9. CASE Lifecycle!Fail
    BY <1>9 DEF Lifecycle!Fail, Lifecycle!Over
  <1>10. CASE Lifecycle!GiveUp
    BY <1>10 DEF Lifecycle!GiveUp, Lifecycle!Over
  <1>11. CASE Lifecycle!Deliver
    BY <1>11 DEF Lifecycle!Deliver
  <1>12. CASE Lifecycle!Lose
    BY <1>12 DEF Lifecycle!Lose
  <1>13. CASE Lifecycle!Wait
    BY <1>13 DEF Lifecycle!Wait
  <1>14. CASE UNCHANGED Lifecycle!vars
    BY <1>14 DEF Lifecycle!vars
  <1> QED
    BY <1>1, <1>2, <1>3, <1>4, <1>5, <1>6, <1>7, <1>8, <1>9, <1>10, <1>11, <1>12, <1>13, <1>14
       DEF Lifecycle!Next

(* So every reachable state keeps the promise, in the middle of nested      *)
(* connects too: a receiver or a planned attempt belongs to a request, a    *)
(* wish is pursued until a cancel is on its way, and what is shown is true. *)
THEOREM PromiseHolds == Spec => []Lifecycle!Promise
  <1>1. Lifecycle!Init => Lifecycle!Promise
    BY DEF Lifecycle!Init, Lifecycle!Promise, Lifecycle!Served, Lifecycle!Pursued,
           Lifecycle!Truthful, Lifecycle!AtMostOne, Lifecycle!Source
  <1>2. Lifecycle!Promise /\ [Lifecycle!Next]_Lifecycle!vars => Lifecycle!Promise'
    BY PromiseKept
  <1> QED
    BY <1>1, <1>2, Refinement, PTL DEF RefinesLifecycle, Lifecycle!Spec
=============================================================================
