---------------------------- MODULE LiveControls ----------------------------
(* A receiver's controls from the panel to the hardware: the form the user  *)
(* edits, the copy of what was last sent, the command queue, the request    *)
(* that an automatic reconnect opens again, and the device                  *)
(* (app/methods/radio/sync.rs, app/methods/connection/actions.rs,           *)
(* engine/inner/commands.rs, source/controls_dispatch.rs,                   *)
(* source/connection.rs).                                                   *)
(*                                                                          *)
(* A control has two values; of several independent controls of a receiver  *)
(* one stands for all ("ppm": also RTL AGC and bias tee; "att": all of the  *)
(* Airspy but its AGC). The life of the connection is EngineConnection's,   *)
(* cut to what decides when a command meets which device.                   *)
EXTENDS Integers, Sequences, SequencesExt

CONSTANTS
    Kinds,          \* kinds of receivers in this instance
    MaxEdit,        \* changes the user makes to the form, and disconnects
    MaxConnect,     \* times the user connects
    MaxFail         \* links lost and connects failed

SourceKind == {"kiwi", "airspy", "rtlsdr", "qmx", "soapy"}

ASSUME KindAssumption == Kinds \subseteq SourceKind /\ Kinds # {}
ASSUME BoundAssumption == {MaxEdit, MaxConnect, MaxFail} \subseteq Nat

\* The controls of a receiver, in the order the panel's changes are sent.
Panel == [kiwi |-> <<"rf_agc", "man_gain", "rf_attn">>,
          airspy |-> <<"hf_agc", "att">>,
          rtlsdr |-> <<"manual", "tuner_gain", "ppm">>,
          qmx |-> <<"rf_gain">>,
          soapy |-> <<"agc", "gain", "antenna">>]

Of(kind) == ToSet(Panel[kind])
Controls == UNION {Of(k) : k \in Kinds}

Unset == "unset"
Flip(v) == IF v = "on" THEN "off" ELSE "on"
NoConn == [kind |-> "none"]

VARIABLES
    form,       \* ConnectionForm: kind, controls; radio.center_khz
    last,       \* what was last sent: controls, centre, has_rf_attn
    recent,     \* the newest of recent_hosts
    seen,       \* engine_ui: connection state, is_kiwi, has_rf_attn
    drawn,      \* between pump_engine and the end of the frame
    queue,      \* commands to the engine
    request, conn, state, retry, cancel,    \* the engine
    opening,    \* calls of start_connect, innermost last
    excused,    \* history: controls whose command met no device, though the
                \* last snapshot had said Streaming
    asked, edits, fails

ui == <<form, last, recent, seen, drawn, asked, edits>>
engine == <<request, conn, state, retry, cancel, opening, fails, excused>>
vars == <<ui, queue, engine>>

Init ==
    /\ \E k \in Kinds, c \in [Controls -> {"off"}] :
           /\ form = [kind |-> k, c |-> c, center |-> 0]
           /\ last = [c |-> c, center |-> 0, attn |-> FALSE]
    /\ recent = NoConn
    /\ seen = [state |-> "Disconnected", kiwi |-> FALSE, attn |-> FALSE]
    /\ drawn = FALSE
    /\ queue = <<>>
    /\ request = NoConn /\ conn = NoConn /\ state = "Disconnected"
    /\ retry = FALSE /\ cancel = FALSE /\ opening = <<>>
    /\ excused = {}
    /\ asked = 0 /\ edits = 0 /\ fails = 0

-----------------------------------------------------------------------------
(* The panel.                                                               *)

IsKiwi(c) == c.kind = "kiwi"
Snapshot == [state |-> state, kiwi |-> IsKiwi(conn), attn |-> IsKiwi(conn) /\ conn.attn]

Live_Always(s) == form.kind = "kiwi" \/ ~s.kiwi
Live(s) ==
    /\ s.state = "Streaming"
    /\ form.kind = "kiwi" \/ ~s.kiwi

\* A gain is sent in the mode that uses it, the attenuator's setting to a
\* Kiwi that has one: then once in any case.
Due(s, c) ==
    /\ Live(s)
    /\ c = "tuner_gain" => form.c["manual"] = "on"
    /\ c = "gain" => form.c["agc"] = "off"
    /\ c = "rf_attn" => s.attn
    /\ form.c[c] # last.c[c] \/ (c = "rf_attn" /\ ~last.attn)

Command(s, c) == [op |-> "set", control |-> c, value |-> form.c[c],
                  live |-> s.state = "Streaming"]

Change(s, controls, i) ==
    IF i \in DOMAIN controls /\ Due(s, controls[i]) THEN <<Command(s, controls[i])>>
                                                    ELSE <<>>

\* No panel has more than three controls.
SendDue(s, controls, first) ==
    /\ queue' = queue \o first \o Change(s, controls, 1) \o Change(s, controls, 2)
                      \o Change(s, controls, 3)
    /\ last' = [c |-> [c \in Controls |->
                          IF c \in ToSet(controls) /\ Due(s, c) THEN form.c[c] ELSE last.c[c]],
                center |-> IF first = <<>> THEN last.center ELSE form.center,
                attn |-> IF form.kind = "kiwi" /\ s.state = "Streaming"
                             /\ "rf_attn" \in ToSet(controls)
                         THEN s.attn ELSE last.attn]

\* pump_engine
UiPoll ==
    /\ ~drawn /\ drawn' = TRUE
    /\ seen' = Snapshot
    /\ IF Snapshot.attn /\ ~last.attn /\ form.kind = "kiwi"
       THEN SendDue(Snapshot, <<"rf_attn">>, <<>>)
       ELSE UNCHANGED <<queue, last>>
    /\ UNCHANGED <<form, recent, asked, edits, engine>>

\* The gains have sliders in their modes only.
Shown(c) == (c = "tuner_gain" => form.c["manual"] = "on") /\ (c = "gain" => form.c["agc"] = "off")

UiEdit ==
    /\ drawn /\ edits < MaxEdit /\ edits' = edits + 1
    /\ \/ \E c \in Of(form.kind) : Shown(c) /\ form' = [form EXCEPT !.c[c] = Flip(@)]
       \/ form' = [form EXCEPT !.center = 1 - @]
       \/ \E k \in Kinds \ {form.kind} : form' = [form EXCEPT !.kind = k]
    /\ UNCHANGED <<last, recent, seen, drawn, asked, queue, engine>>

\* apply_radio_settings
UiApply ==
    /\ drawn /\ drawn' = FALSE
    /\ SendDue(seen, Panel[form.kind],
               IF form.center # last.center
               THEN <<[op |-> "tune", center |-> form.center]>> ELSE <<>>)
    /\ UNCHANGED <<form, recent, seen, asked, edits, engine>>

\* connect_now: the RF AGC is marked as not yet sent.
ConnectNow(f) ==
    LET req == [kind |-> f.kind, c |-> f.c, center |-> f.center, ask |-> asked + 1]
    IN /\ drawn /\ asked < MaxConnect /\ asked' = asked + 1
       /\ form' = f
       /\ last' = [c |-> [c \in Controls |-> IF c = "rf_agc" THEN Flip(f.c[c]) ELSE f.c[c]],
                   center |-> f.center, attn |-> FALSE]
       /\ recent' = req
       /\ queue' = Append(queue, [op |-> "connect", req |-> req])
       /\ UNCHANGED <<seen, drawn, edits, engine>>

UiConnect == ConnectNow(form)

\* quick_connect_last: everything but the centre comes from the old request.
UiQuickConnect ==
    /\ recent # NoConn
    /\ ConnectNow([form EXCEPT !.kind = recent.kind, !.c = recent.c])

\* cancel_connection
UiCancel ==
    /\ drawn /\ seen.state # "Disconnected"
    /\ edits < MaxEdit /\ edits' = edits + 1
    /\ cancel' = TRUE
    /\ queue' = Append(queue, [op |-> "disconnect"])
    /\ UNCHANGED <<form, last, recent, seen, drawn, asked, request, conn, state,
                   retry, opening, fails, excused>>

-----------------------------------------------------------------------------
(* The engine: a command, in the main loop or inside start_connect.         *)

StartConnect(req, again) ==
    /\ opening' = Append(opening, [req |-> req, again |-> again])
    /\ conn' = NoConn /\ state' = "Connecting" /\ cancel' = FALSE

HandleConnect(cmd) ==
    /\ cmd.op = "connect"
    /\ request' = cmd.req /\ retry' = FALSE
    /\ StartConnect(cmd.req, FALSE)
    /\ excused' = {}
    /\ UNCHANGED fails

HandleDisconnect(cmd) ==
    /\ cmd.op = "disconnect"
    /\ request' = NoConn /\ retry' = FALSE
    /\ conn' = NoConn /\ state' = "Disconnected" /\ cancel' = TRUE
    /\ UNCHANGED <<opening, fails, excused>>

HandleTune_DeviceOnly(cmd) ==
    /\ cmd.op = "tune"
    /\ conn' = IF conn = NoConn THEN conn ELSE [conn EXCEPT !.center = cmd.center]
    /\ excused' = IF conn = NoConn THEN excused \cup {"center"} ELSE excused \ {"center"}
    /\ UNCHANGED <<request, state, retry, cancel, opening, fails>>
HandleTune(cmd) ==
    /\ cmd.op = "tune"
    /\ conn' = IF conn = NoConn THEN conn ELSE [conn EXCEPT !.center = cmd.center]
    /\ request' = IF request = NoConn THEN request
                  ELSE [request EXCEPT !.center = cmd.center]
    /\ excused' = IF conn = NoConn THEN excused \cup {"center"} ELSE excused \ {"center"}
    /\ UNCHANGED <<state, retry, cancel, opening, fails>>

\* controls_dispatch: a command for another kind of receiver does nothing.
\* The Airspy's AGC is sent as SetRfAgc, which is the Kiwi's.
HandleSet(cmd) ==
    /\ cmd.op = "set"
    /\ conn' = IF conn # NoConn /\ cmd.control \in Of(conn.kind) \ {"hf_agc"}
               THEN [conn EXCEPT !.c[cmd.control] = cmd.value] ELSE conn
    /\ excused' = IF conn = NoConn /\ cmd.live THEN excused \cup {cmd.control}
                  ELSE excused \ {cmd.control}
    /\ UNCHANGED <<request, state, retry, cancel, opening, fails>>

Handle ==
    /\ queue # <<>> /\ queue' = Tail(queue)
    /\ LET cmd == Head(queue)
       IN HandleConnect(cmd) \/ HandleDisconnect(cmd) \/ HandleTune(cmd) \/ HandleSet(cmd)
    /\ UNCHANGED ui

\* What connect() gives the receiver: a gain only in the mode that uses it,
\* the attenuator only when the Kiwi says that it has one.
Opened(o) ==
    [kind |-> o.req.kind, center |-> o.req.center, ask |-> o.req.ask,
     again |-> o.again, attn |-> FALSE,
     wish |-> IF o.req.kind = "kiwi" THEN o.req.c["rf_attn"] ELSE Unset,
     c |-> [c \in Controls |->
               IF \/ c = "tuner_gain" /\ o.req.c["manual"] = "off"
                  \/ c = "gain" /\ o.req.c["agc"] = "on"
                  \/ c = "rf_attn"
               THEN Unset ELSE o.req.c[c]]]

\* start_connect after its nested drain.
Open ==
    /\ opening # <<>> /\ queue = <<>>
    /\ opening' = Front(opening)
    /\ \/ /\ cancel \/ request = NoConn
          /\ state' = "Disconnected" /\ UNCHANGED <<conn, retry, fails>>
       \/ /\ ~cancel /\ request # NoConn
          /\ conn' = Opened(Last(opening)) /\ retry' = FALSE
          /\ state' = IF IsKiwi(conn') THEN "Connecting" ELSE "Streaming"
          /\ UNCHANGED fails
       \/ /\ ~cancel /\ request # NoConn /\ fails < MaxFail
          /\ fails' = fails + 1
          /\ state' = "Reconnecting" /\ retry' = TRUE /\ UNCHANGED conn
    /\ UNCHANGED <<ui, queue, request, cancel, excused>>

\* pump_stream: the first samples of a Kiwi.
FirstIq ==
    /\ IsKiwi(conn) /\ state = "Connecting" /\ opening = <<>>
    /\ state' = "Streaming"
    /\ UNCHANGED <<ui, queue, request, conn, retry, cancel, opening, fails, excused>>

\* The session learns of the attenuator, and sets it as the request said.
AttnKnown ==
    /\ IsKiwi(conn) /\ ~conn.attn
    /\ conn' = [conn EXCEPT !.attn = TRUE, !.c["rf_attn"] = conn.wish]
    /\ excused' = IF conn.c["rf_attn"] = Unset THEN excused ELSE excused \cup {"rf_attn"}
    /\ UNCHANGED <<ui, queue, request, state, retry, cancel, opening, fails>>

\* fail_connection
LinkLost ==
    /\ conn # NoConn /\ opening = <<>> /\ fails < MaxFail /\ fails' = fails + 1
    /\ conn' = NoConn
    /\ IF cancel \/ request = NoConn
       THEN state' = "Disconnected" /\ UNCHANGED retry
       ELSE state' = "Reconnecting" /\ retry' = TRUE
    /\ UNCHANGED <<ui, queue, request, cancel, opening, excused>>

\* maybe_retry_reconnect
Retry ==
    /\ retry /\ request # NoConn /\ opening = <<>>
    /\ StartConnect(request, TRUE)
    /\ UNCHANGED <<ui, queue, request, retry, fails, excused>>

User == UiEdit \/ UiConnect \/ UiQuickConnect \/ UiCancel
Engine == Handle \/ Open \/ FirstIq \/ AttnKnown \/ LinkLost \/ Retry

Next == UiPoll \/ User \/ UiApply \/ Engine

Spec == Init /\ [][Next]_vars

-----------------------------------------------------------------------------
(* Properties.                                                              *)

Values == {"off", "on", Unset}

TypeOK ==
    /\ form.kind \in Kinds /\ form.c \in [Controls -> {"off", "on"}]
    /\ last.c \in [Controls -> {"off", "on"}] /\ last.attn \in BOOLEAN
    /\ state \in {"Disconnected", "Connecting", "Streaming", "Reconnecting"}
    /\ conn # NoConn => conn.kind \in Kinds /\ conn.c \in [Controls -> Values]
    /\ excused \subseteq Controls \cup {"center"}

Quiet == queue = <<>> /\ opening = <<>> /\ form.center = last.center

\* Nothing more will be sent for the form as it is.
Settled ==
    /\ Quiet /\ conn # NoConn /\ state = "Streaming" /\ conn.kind = form.kind
    /\ \A c \in Of(form.kind) : ~Due(Snapshot, c)

(* Once everything is sent and handled, the receiver the user connected has *)
(* the controls the panel shows: last_* is never ahead of the device, a     *)
(* change made while not streaming is kept, a gain changed in the other     *)
(* mode is made up for (sync.rs:150). Not so, and excluded: what was sent   *)
(* on a stale snapshot and met no device, a receiver opened again by the    *)
(* engine, a gain connect() left unset, and the AGC of Kiwi and Airspy.     *)
ControlsFollow ==
    Settled /\ conn.ask = asked /\ ~conn.again =>
        \A c \in Of(form.kind) \ (excused \cup {"hf_agc", "rf_agc"}) :
            Shown(c) /\ (c = "rf_attn" => conn.attn) => conn.c[c] \in {form.c[c], Unset}

(* The centre frequency follows the dial, also through automatic            *)
(* reconnects: what they open again carries the last Tune                   *)
(* (commands.rs:39).                                                        *)
TuneStays ==
    Quiet /\ request # NoConn =>
        /\ request.center = form.center
        /\ conn # NoConn /\ conn.ask = asked /\ "center" \notin excused =>
               conn.center = form.center

(* Claims.                                                                  *)

\* "Gain and antenna apply when connected" (rf_controls.rs:345).
GainApplies ==
    Settled /\ conn.ask = asked =>
        \A c \in Of(form.kind) \ {"hf_agc", "rf_agc", "rf_attn"} :
            Shown(c) => conn.c[c] = form.c[c]

\* The panel and the receiver agree once what differs is sent: a toggle
\* between connect_now and the first samples makes form and last_agc_rf_on
\* equal, and is never sent (actions.rs:110, sync.rs:24).
KiwiAgcFollows ==
    Settled /\ conn.ask = asked /\ ~conn.again /\ conn.kind = "kiwi" =>
        "rf_agc" \in excused \/ conn.c["rf_agc"] = form.c["rf_agc"]

\* "Hardware AGC on the Airspy front end" (rf_controls.rs:254).
AirspyAgcFollows ==
    Settled /\ conn.ask = asked /\ ~conn.again /\ conn.kind = "airspy" =>
        conn.c["hf_agc"] = form.c["hf_agc"]
=============================================================================
