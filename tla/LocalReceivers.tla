---------------------------- MODULE LocalReceivers ----------------------------
(***************************************************************************)
(* The receivers on this computer behind IqSource (source/mod.rs): Airspy  *)
(* HF+, RTL-SDR, SoapySDR and the QMX.  Each has its own way of getting    *)
(* samples into the ring: a callback on a thread of the library            *)
(* (airspyhf), a callback on a thread of ours that sits in the library     *)
(* (rtlsdr), a thread of ours that reads (soapy), a callback of the audio  *)
(* system and a thread that asks the transceiver over a serial line        *)
(* whether it is transmitting (qmx).  The owner, the engine thread, opens, *)
(* starts, stops and drops the receiver.  Samples are counted, not named.  *)
(* Controls that are one call into the library, or one command without an  *)
(* answer, change nothing here and are left out.                           *)
(***************************************************************************)
EXTENDS Integers, Sequences

CONSTANTS
    Drivers,     \* the kinds of receivers of an instance
    RingCap,     \* iq_ring_capacity
    FifoCap,     \* room inside a SoapySDR driver
    Block,       \* samples a callback or a read hands over at most
    MaxSample,   \* bound: samples since the receiver was opened
    MaxStarts,   \* bound: starts
    MaxLate      \* bound: answers that come after READ_TIMEOUT

AllDrivers == {"airspyhf", "rtlsdr", "soapy", "qmx"}

ASSUME ReceiverAssumption ==
    /\ Drivers \subseteq AllDrivers /\ Drivers # {}
    /\ RingCap \in Nat \ {0} /\ FifoCap \in Nat \ {0} /\ Block \in Nat \ {0}
    /\ MaxSample \in Nat /\ MaxStarts \in Nat /\ MaxLate \in Nat

VARIABLES
    (* The owner. *)
    drv,          \* which receiver
    opc,          \* "out", "idle", "on", "stopping" or "closing"
    starts,       \* starts so far
    (* What the owner shares with the threads. *)
    handle,       \* the device, or the serial port, is open
    res,          \* StreamCtx, SoapySDRStream or the audio stream:
                  \*   "none", "live" or "freed"
    flag,         \* stop, cat_poll_stop
    (* The threads. *)
    lib,          \* the library's streaming: "idle", "running", "cancelled"
    th,           \* our thread: "none", "spawned", "reading", "writing",
                  \*   "tq", "sm" or "ended"
    cb,           \* samples in the hands of the callback or the reader
    room,         \* prod.slots() as it read them
    (* The samples. *)
    ring,         \* in the ring
    fifo,         \* in the SoapySDR driver
    captured,     \* received since open
    gone,         \* consumed, or left behind by a stop
    lost,         \* dropped_samples
    spilled,      \* lost inside the SoapySDR driver
    (* The QMX. *)
    asked,        \* queries the transceiver has not answered
    inbox,        \* answers not read
    transmitting, \* the flag the audio callback looks at
    rigTx,        \* the transceiver is transmitting
    iqMode,       \* the transceiver is in IQ mode
    late          \* answers that came late so far

ownerVars == <<drv, opc, starts>>
sampleVars == <<ring, fifo, captured, gone, lost, spilled>>
rigVars == <<rigTx, iqMode>>
catVars == <<asked, inbox, transmitting, late>>
streamVars == <<lib, th, cb, room>>
receiverVars == <<ownerVars, handle, res, flag, streamVars, sampleVars, catVars, rigVars>>

Answers == {"TQ0", "TQ1", "SM"}

ReceiverTypeOK ==
    /\ drv \in AllDrivers
    /\ opc \in {"out", "idle", "on", "stopping", "closing"}
    /\ starts \in 0..MaxStarts
    /\ handle \in BOOLEAN /\ flag \in BOOLEAN
    /\ res \in {"none", "live", "freed"}
    /\ lib \in {"idle", "running", "cancelled"}
    /\ th \in {"none", "spawned", "reading", "writing", "tq", "sm", "ended"}
    /\ cb \in 0..Block /\ room \in 0..RingCap
    /\ ring \in 0..RingCap /\ fifo \in 0..FifoCap
    /\ captured \in 0..MaxSample /\ gone \in Nat /\ lost \in Nat /\ spilled \in Nat
    /\ asked \in Seq({"TQ", "SM"}) /\ inbox \in Seq(Answers)
    /\ transmitting \in BOOLEAN /\ rigTx \in BOOLEAN /\ iqMode \in BOOLEAN
    /\ late \in 0..MaxLate

ReceiverInit ==
    /\ drv \in Drivers
    /\ opc = "out" /\ starts = 0
    /\ handle = FALSE /\ res = "none" /\ flag = FALSE
    /\ lib = "idle" /\ th = "none" /\ cb = 0 /\ room = 0
    /\ ring = 0 /\ fifo = 0
    /\ captured = 0 /\ gone = 0 /\ lost = 0 /\ spilled = 0
    /\ asked = <<>> /\ inbox = <<>> /\ transmitting = FALSE /\ late = 0
    /\ rigTx \in BOOLEAN /\ iqMode = FALSE

Lesser(a, b) == IF a <= b THEN a ELSE b
-----------------------------------------------------------------------------
(* The owner: open, start, stop, Drop. *)

(* A new source has new counters and a new flag. *)
Open ==
    /\ opc = "out"
    /\ starts < MaxStarts
    /\ opc' = "idle"
    /\ handle' = TRUE
    /\ iqMode' = (drv = "qmx")
    /\ ring' = 0 /\ fifo' = 0 /\ captured' = 0 /\ gone' = 0 /\ lost' = 0
    /\ spilled' = 0 /\ transmitting' = FALSE
    /\ UNCHANGED <<drv, starts, res, flag, streamVars, asked, inbox, late, rigTx>>

(* QmxSource::open gives up with `?' after it has turned IQ mode on, when  *)
(* the gain is refused or no sound card is found; there is no source then  *)
(* whose Drop would turn it off.                                           *)
OpenFails ==
    /\ opc = "out"
    /\ drv = "qmx"
    /\ iqMode' = TRUE
    /\ UNCHANGED <<ownerVars, handle, res, flag, streamVars, sampleVars, catVars,
                   rigTx>>

Start ==
    /\ opc = "idle"
    /\ starts < MaxStarts
    /\ opc' = "on"
    /\ starts' = starts + 1
    /\ res' = "live"
    /\ flag' = FALSE
    /\ lib' = IF drv \in {"airspyhf", "qmx"} THEN "running" ELSE "idle"
    /\ th' = IF drv = "airspyhf" THEN "none" ELSE "spawned"
    /\ gone' = gone + ring + fifo
    /\ ring' = 0 /\ fifo' = 0
    /\ UNCHANGED <<drv, handle, cb, room, captured, lost, spilled, catVars, rigVars>>

(* A plausible slip: only the thread that reads samples is told to stop.   *)
StopCall_PollForgotten ==
    /\ opc = "on"
    /\ opc' \in {"stopping", "closing"}
    /\ flag' = (drv = "soapy")
    /\ lib' = IF lib = "running" THEN "cancelled" ELSE lib
    /\ UNCHANGED <<drv, starts, handle, res, th, cb, room, sampleVars, catVars,
                   rigVars>>

(* The cancel of a read that has not begun, or is over, fails and changes  *)
(* nothing (rtlsdr_cancel_async).                                          *)
StopCall ==
    /\ opc = "on"
    /\ opc' \in {"stopping", "closing"}    \* stop(), or Drop, which calls it
    /\ flag' = (drv \in {"soapy", "qmx"})
    /\ lib' = IF lib = "running" THEN "cancelled" ELSE lib
    /\ UNCHANGED <<drv, starts, handle, res, th, cb, room, sampleVars, catVars,
                   rigVars>>

Joined == th \in {"none", "ended"}

(* A plausible slip: the thread is told and not joined. *)
StopReturn_NotJoined ==
    /\ opc \in {"stopping", "closing"}
    /\ lib = "idle"
    /\ res' = "freed"
    /\ opc' = IF opc = "closing" THEN "out" ELSE "idle"
    /\ handle' = (opc = "stopping")
    /\ iqMode' = (iqMode /\ opc = "stopping")
    /\ UNCHANGED <<drv, starts, flag, streamVars, sampleVars, catVars, rigTx>>

(* airspyhf_stop and the end of the audio stream wait for the callback;    *)
(* our thread is joined.  Drop goes on and closes the device; a QMX is     *)
(* taken out of IQ mode first.                                             *)
StopReturn ==
    /\ opc \in {"stopping", "closing"}
    /\ lib = "idle" /\ Joined
    /\ res' = "freed"
    /\ th' = "none"
    /\ opc' = IF opc = "closing" THEN "out" ELSE "idle"
    /\ handle' = (opc = "stopping")
    /\ iqMode' = (iqMode /\ opc = "stopping")
    /\ UNCHANGED <<drv, starts, flag, lib, cb, room, sampleVars, catVars, rigTx>>

(* Drop of a receiver that is not streaming; a start that failed ends so. *)
Close ==
    /\ opc = "idle"
    /\ opc' = "out"
    /\ handle' = FALSE
    /\ iqMode' = FALSE
    /\ UNCHANGED <<drv, starts, res, flag, streamVars, sampleVars, catVars, rigTx>>
-----------------------------------------------------------------------------
(* The callbacks of airspyhf, rtlsdr and qmx, and the ring's consumer. *)

(* While the QMX transmits its samples are not wanted. *)
CbBegin ==
    /\ lib = "running"
    /\ cb = 0
    /\ ~(drv = "qmx" /\ transmitting)
    /\ \E n \in 1..Block :
        /\ captured + n <= MaxSample
        /\ cb' = n
        /\ captured' = captured + n
    /\ room' = RingCap - ring
    /\ UNCHANGED <<ownerVars, handle, res, flag, lib, th, ring, fifo, gone, lost,
                   spilled, catVars, rigVars>>

(* A plausible slip: only a block that found no room at all is counted. *)
Write_PartUncounted ==
    /\ ring' = ring + Lesser(cb, room)
    /\ lost' = IF room = 0 THEN lost + cb ELSE lost
    /\ cb' = 0

(* As much as there was room for; the rest is counted. *)
Write ==
    /\ ring' = ring + Lesser(cb, room)
    /\ lost' = lost + cb - Lesser(cb, room)
    /\ cb' = 0

CbEnd ==
    /\ cb > 0
    /\ drv # "soapy"
    /\ Write
    /\ UNCHANGED <<ownerVars, handle, res, flag, lib, th, room, fifo, captured,
                   gone, spilled, catVars, rigVars>>

(* The library calls no more once it was cancelled and the callback has    *)
(* returned; rtlsdr_read_async returns with it, or because the device is   *)
(* gone.                                                                   *)
LibEnds ==
    /\ \/ lib = "cancelled"
       \/ lib = "running" /\ drv = "rtlsdr"
    /\ cb = 0
    /\ lib' = "idle"
    /\ th' = IF drv = "rtlsdr" THEN "ended" ELSE th
    /\ UNCHANGED <<ownerVars, handle, res, flag, cb, room, sampleVars, catVars,
                   rigVars>>

(* The thread of an RTL-SDR enters the library. *)
RtlBegin ==
    /\ drv = "rtlsdr" /\ th = "spawned"
    /\ th' = "reading"
    /\ lib' = "running"
    /\ UNCHANGED <<ownerVars, handle, res, flag, cb, room, sampleVars, catVars,
                   rigVars>>

Consume ==
    /\ ring > 0
    /\ opc = "on"
    /\ ring' = ring - 1
    /\ gone' = gone + 1
    /\ UNCHANGED <<ownerVars, handle, res, flag, streamVars, fifo, captured, lost,
                   spilled, catVars, rigVars>>
-----------------------------------------------------------------------------
(* soapy_read_loop. *)

SoapyArrives ==
    /\ drv = "soapy" /\ res = "live"
    /\ captured < MaxSample
    /\ captured' = captured + 1
    /\ IF fifo < FifoCap
       THEN fifo' = fifo + 1 /\ UNCHANGED spilled
       ELSE spilled' = spilled + 1 /\ UNCHANGED fifo
    /\ UNCHANGED <<ownerVars, handle, res, flag, streamVars, ring, gone, lost, catVars,
                   rigVars>>

(* With a full ring it does not read at all. *)
SoapyEnterRead ==
    /\ drv = "soapy" /\ th = "spawned"
    /\ ~flag
    /\ ring < RingCap
    /\ room' = RingCap - ring
    /\ th' = "reading"
    /\ UNCHANGED <<ownerVars, handle, res, flag, lib, cb, sampleVars, catVars, rigVars>>

SoapyRead ==
    /\ drv = "soapy" /\ th = "reading"
    /\ \E n \in 0..Lesser(Lesser(fifo, room), Block) :    \* 0: timeout, error
        /\ cb' = n
        /\ fifo' = fifo - n
        /\ th' = IF n = 0 THEN "spawned" ELSE "writing"
    /\ UNCHANGED <<ownerVars, handle, res, flag, lib, room, ring, captured, gone, lost,
                   spilled, catVars, rigVars>>

SoapyWrite ==
    /\ drv = "soapy" /\ th = "writing"
    /\ Write
    /\ th' = "spawned"
    /\ UNCHANGED <<ownerVars, handle, res, flag, lib, room, fifo, captured, gone,
                   spilled, catVars, rigVars>>

(* The loops of soapy and qmx look at their flag. *)
LoopEnds ==
    /\ drv \in {"soapy", "qmx"} /\ th = "spawned"
    /\ flag
    /\ th' = "ended"
    /\ UNCHANGED <<ownerVars, handle, res, flag, lib, cb, room, sampleVars, catVars,
                   rigVars>>
-----------------------------------------------------------------------------
(* cat_poll_loop and the transceiver. *)

PollAsk ==
    /\ drv = "qmx" /\ th = "spawned"
    /\ ~flag
    /\ asked' = Append(asked, "TQ")
    /\ th' = "tq"
    /\ UNCHANGED <<ownerVars, handle, res, flag, lib, cb, room, sampleVars, inbox,
                   transmitting, late, rigVars>>

(* read() returns what has arrived, one answer or several. *)
Read(n) == SubSeq(inbox, 1, n)
Contains(s, x) == \E i \in 1..Len(s) : s[i] = x

(* A plausible slip: the flag is set and never cleared. *)
PollTq_Sticks ==
    /\ th = "tq"
    /\ \E n \in 1..Len(inbox) :
        /\ transmitting' = (transmitting \/ Contains(Read(n), "TQ1"))
        /\ inbox' = SubSeq(inbox, n + 1, Len(inbox))
    /\ asked' = Append(asked, "SM")
    /\ th' = "sm"
    /\ UNCHANGED <<ownerVars, handle, res, flag, lib, cb, room, sampleVars, late, rigVars>>

PollTq ==
    /\ th = "tq"
    /\ \E n \in 1..Len(inbox) :
        /\ transmitting' = Contains(Read(n), "TQ1")
        /\ inbox' = SubSeq(inbox, n + 1, Len(inbox))
    /\ asked' = Append(asked, "SM")
    /\ th' = "sm"
    /\ UNCHANGED <<ownerVars, handle, res, flag, lib, cb, room, sampleVars, late, rigVars>>

PollSm ==
    /\ th = "sm"
    /\ \E n \in 1..Len(inbox) : inbox' = SubSeq(inbox, n + 1, Len(inbox))
    /\ th' = "spawned"
    /\ UNCHANGED <<ownerVars, handle, res, flag, lib, cb, room, sampleVars, asked,
                   transmitting, late, rigVars>>

(* The answer is not there in time: an error, and the loop goes on. *)
PollTimeout ==
    /\ th \in {"tq", "sm"}
    /\ inbox = <<>> /\ late < MaxLate
    /\ late' = late + 1
    /\ asked' = IF th = "tq" THEN Append(asked, "SM") ELSE asked
    /\ th' = IF th = "tq" THEN "sm" ELSE "spawned"
    /\ UNCHANGED <<ownerVars, handle, res, flag, lib, cb, room, sampleVars, inbox,
                   transmitting, rigVars>>

RigAnswers ==
    /\ asked # <<>>
    /\ asked' = Tail(asked)
    /\ inbox' = Append(inbox, IF Head(asked) = "SM" THEN "SM"
                              ELSE IF rigTx THEN "TQ1" ELSE "TQ0")
    /\ UNCHANGED <<ownerVars, handle, res, flag, streamVars, sampleVars, transmitting,
                   late, rigVars>>

RigKeys ==
    /\ drv = "qmx"
    /\ rigTx' = ~rigTx
    /\ UNCHANGED <<ownerVars, handle, res, flag, streamVars, sampleVars, catVars,
                   iqMode>>
-----------------------------------------------------------------------------
Owner == Open \/ OpenFails \/ Start \/ StopCall \/ StopReturn \/ Close
Callback == CbBegin \/ CbEnd \/ LibEnds
Reader == SoapyEnterRead \/ SoapyRead \/ SoapyWrite
Poll == PollAsk \/ PollTq \/ PollSm \/ PollTimeout

ReceiverNext ==
    \/ Owner \/ Callback \/ RtlBegin \/ Consume
    \/ SoapyArrives \/ Reader \/ LoopEnds
    \/ Poll \/ RigAnswers \/ RigKeys

(* Threads run, callbacks return, a library that was cancelled stops, a    *)
(* transceiver answers.  Nobody has to stop or consume, nothing need       *)
(* arrive, and a device need not be unplugged.                             *)
ReceiverSpec ==
    /\ ReceiverInit /\ [][ReceiverNext]_receiverVars
    /\ WF_receiverVars(StopReturn) /\ WF_receiverVars(CbEnd) /\ WF_receiverVars(lib = "cancelled" /\ LibEnds)
    /\ WF_receiverVars(RtlBegin) /\ WF_receiverVars(Reader) /\ WF_receiverVars(LoopEnds)
    /\ WF_receiverVars(Poll) /\ WF_receiverVars(RigAnswers)
-----------------------------------------------------------------------------
(* Nobody uses what the owner has freed: a callback or a read in progress  *)
(* finds its StreamCtx or stream, and the device or the serial port, in    *)
(* place (stop and Drop of the four sources).                              *)
NoDangling ==
    /\ cb > 0 \/ lib # "idle" \/ th \in {"reading", "writing"}
         => res = "live" /\ handle
    /\ th \in {"tq", "sm"} => handle

(* "On consumer backpressure, samples are dropped ... and counted"         *)
(* (source/mod.rs:54): every sample handed to the program is in the ring,  *)
(* was consumed or is in dropped_samples; what a SoapySDR driver loses     *)
(* before it hands it over is in none of them.                             *)
Accounted == captured = gone + ring + cb + fifo + lost + spilled

(* stop() returns.  Left out is the one of an RTL-SDR whose thread has not *)
(* entered the library yet: its cancel comes too early (rtlsdr/mod.rs).    *)
StopReturns ==
    (/\ opc \in {"stopping", "closing"} /\ lib # "running"
     /\ ~(drv = "rtlsdr" /\ th = "spawned"))
        ~> (opc \notin {"stopping", "closing"})

(* A QMX that goes on transmitting mutes the callback, one that goes on    *)
(* receiving does not, as long as no answer came late: one that did is     *)
(* taken for the answer to the next query from then on (cat_poll_loop).    *)
MutedWhileTransmitting ==
    \A b \in BOOLEAN :
        <>[](drv = "qmx" /\ opc = "on" /\ late = 0 /\ rigTx = b)
            => <>[](transmitting = b)

(* "Stop and release resources" (extending-sources.md:15), at any time. *)
StopAlwaysReturns ==
    (opc \in {"stopping", "closing"}) ~> (opc \notin {"stopping", "closing"})

(* "counted by `dropped_samples'" (source/mod.rs:55): all that is lost. *)
LossesCounted == captured = gone + ring + cb + fifo + lost
=============================================================================
