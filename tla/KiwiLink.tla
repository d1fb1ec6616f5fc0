------------------------------ MODULE KiwiLink ------------------------------
(* One KiwiSDR receiver over its WebSocket: the source the engine owns      *)
(* (kiwi/mod.rs), the protocol session both builds share (kiwi/session.rs), *)
(* the desktop transport with its reader thread (kiwi/reader.rs) and the    *)
(* browser transport with its callbacks (kiwi/web.rs).                      *)
(*                                                                          *)
(* The receiver itself is external: it authenticates, announces its sample  *)
(* rate and its attenuator, refuses, streams and closes when it likes, and  *)
(* ignores what it is told before IQ mode is set up (session.rs:104).       *)
(* Samples are IqPump's subject: a SND frame only raises iq_streaming here. *)
(* Keepalives change nothing the receiver does and are left out.            *)
EXTENDS Integers, Sequences

CONSTANTS
    Transports,     \* the builds looked at: "native", "web"
    MaxAsk,         \* settings the user changes
    MaxSay,         \* messages the receiver sends
    MaxOpen         \* sources the engine opens, one after the other

ASSUME TransportAssumption == Transports \subseteq {"native", "web"}
ASSUME LimitAssumption == MaxAsk \in Nat /\ MaxSay \in Nat /\ MaxOpen \in Nat

Rejections == {"badp", "busy"}
Reasons == Rejections \cup {"none", "closed", "lost"}
Handlers == {"open", "message", "error", "close"}
Settings == 0 .. MaxAsk

(* What one text message says: the rejections in it, in order, whether it   *)
(* announces the sample rate, and whether it reports an attenuator.         *)
Text(rej, rate, attn) == [rej |-> rej, rate |-> rate, attn |-> attn]
Texts == { Text(<<"badp", "busy">>, FALSE, FALSE), Text(<<>>, TRUE, FALSE),
           Text(<<>>, FALSE, TRUE), Text(<<>>, TRUE, TRUE) }
Inbound == [kind : {"text"}, text : Texts] \cup [kind : {"snd", "close"}]

(* What is sent: "auth" and "setup" stand for the lines of the two hand-    *)
(* shakes and carry the frequency of their mod=iq line.                     *)
Cmd(op, v) == [op |-> op, v |-> v]
Commands == [op : {"auth", "setup", "tune", "attn", "ar"}, v : Settings]
UserOps == {"tune", "attn"}

VARIABLES
    transport,      \* which build this is
    link,           \* KiwiSource::link is there, and streaming
    freq, attn,     \* the source's own settings
    hasAttn, err, iqStreaming, stop,    \* shared with the transport
    ses,            \* the KiwiSession
    chan,           \* native: the command channel; web: preopen
    rpc, out,       \* the reader thread: place and replies to send
    epc,            \* the engine: running, or joining the reader
    sock, up, down, \* the socket, and what is under way in each direction
    kiwi,           \* the receiver
    stale,          \* web: a socket left behind, and its attached handlers
    crashed,        \* web: a handler was called after its closure was freed
    early,          \* history: a setting came when it could not be taken
    asked, said, opened

source == <<link, freq, attn, hasAttn, err, iqStreaming, stop>>
wire == <<sock, up, down>>
counts == <<asked, said, opened>>
vars == <<transport, source, ses, chan, rpc, out, epc, wire, kiwi, stale,
          crashed, early, counts>>

Native == transport = "native"
Web == transport = "web"

NewSession(f, a) == [configured |-> FALSE, attnApplied |-> FALSE,
                     pending |-> <<>>, rx |-> [freq |-> f, attn |-> a]]
NewKiwi == [authed |-> FALSE, configured |-> FALSE, freq |-> -1, attn |-> -1,
            ignored |-> FALSE]
NoSocket == [left |-> FALSE, handlers |-> {}]

Init ==
    /\ transport \in Transports
    /\ link = FALSE /\ freq = 0 /\ attn = 0
    /\ hasAttn = FALSE /\ err = "none" /\ iqStreaming = FALSE /\ stop = FALSE
    /\ ses = NewSession(0, 0)
    /\ chan = <<>> /\ rpc = "off" /\ out = <<>> /\ epc = "run"
    /\ sock = "none" /\ up = <<>> /\ down = <<>>
    /\ kiwi = NewKiwi
    /\ stale = NoSocket /\ crashed = FALSE /\ early = FALSE
    /\ asked = 0 /\ said = 0 /\ opened = 0

-----------------------------------------------------------------------------
(* The session.                                                             *)

\* record_first_error: a reason is kept once there is one.
RecordFirstError_Last(old, reason) == reason
RecordFirstError(old, reason) == IF old = "none" THEN reason ELSE old

\* The rejections of a text, before set-up: each replaces the one before.
Rejected(t) == ~ses.configured /\ t.rej # <<>>
RejectReason(t) == IF Rejected(t) THEN t.rej[Len(t.rej)] ELSE err

SetsUp(t) == t.rate /\ ~ses.configured
AppliesAttn(t) ==
    /\ ses.configured \/ t.rate
    /\ hasAttn \/ t.attn
    /\ ~ses.attnApplied

\* The replies of on_text, in order: the set-up and the commands held until
\* then, the attenuation the source was opened with, and the audio rate.
Replies_PendingFirst(t) ==
    (IF SetsUp(t) THEN ses.pending \o <<Cmd("setup", ses.rx.freq)>> ELSE <<>>)
    \o (IF AppliesAttn(t) THEN <<Cmd("attn", ses.rx.attn)>> ELSE <<>>)
    \o (IF t.rate THEN <<Cmd("ar", 0)>> ELSE <<>>)
Replies(t) ==
    (IF SetsUp(t) THEN <<Cmd("setup", ses.rx.freq)>> \o ses.pending ELSE <<>>)
    \o (IF AppliesAttn(t) THEN <<Cmd("attn", ses.rx.attn)>> ELSE <<>>)
    \o (IF t.rate THEN <<Cmd("ar", 0)>> ELSE <<>>)

OnText(t) ==
    /\ err' = RejectReason(t)
    /\ ses' = [ses EXCEPT !.configured = @ \/ t.rate,
                          !.attnApplied = @ \/ AppliesAttn(t),
                          !.pending = IF SetsUp(t) THEN <<>> ELSE @]
    /\ hasAttn' = (hasAttn \/ t.attn)

\* queue_command: before set-up a command is held, afterwards it passes.
Hold(s, cmd) == [s EXCEPT !.pending = Append(@, cmd)]
Passes_Always(s) == TRUE
Passes(s) == s.configured

\* Sending on a socket that has broken may still seem to work.
Sent(cmds) == up' = IF sock = "open" THEN up \o cmds ELSE up

-----------------------------------------------------------------------------
(* The source, called by the engine.                                        *)

\* KiwiSource::new and start_cancellable (desktop): the socket is open and
\* the opening lines are sent when the reader thread starts.
OpenNative ==
    /\ Native /\ epc = "run" /\ ~link /\ opened < MaxOpen
    /\ link' = TRUE
    /\ hasAttn' = FALSE /\ err' = "none" /\ iqStreaming' = FALSE /\ stop' = FALSE
    /\ ses' = NewSession(freq, attn)
    /\ chan' = <<>> /\ out' = <<>> /\ rpc' = "top"
    /\ sock' = "open" /\ up' = <<Cmd("auth", freq)>> /\ down' = <<>>
    /\ kiwi' = NewKiwi
    /\ early' = FALSE
    /\ opened' = opened + 1
    /\ UNCHANGED <<transport, freq, attn, epc, stale, crashed, asked, said>>

\* No address, no answer in 12 s, or cancelled: the source is dropped.
OpenFails ==
    /\ epc = "run" /\ ~link /\ opened < MaxOpen
    /\ opened' = opened + 1
    /\ UNCHANGED <<transport, source, ses, chan, rpc, out, epc, wire, kiwi,
                   stale, crashed, early, asked, said>>

\* start_cancellable in the browser: the socket is not open yet.
OpenWeb ==
    /\ Web /\ epc = "run" /\ ~link /\ opened < MaxOpen
    /\ link' = TRUE
    /\ hasAttn' = FALSE /\ err' = "none" /\ iqStreaming' = FALSE /\ stop' = FALSE
    /\ ses' = NewSession(freq, attn)
    /\ chan' = <<>>
    /\ sock' = "connecting" /\ up' = <<>> /\ down' = <<>>
    /\ kiwi' = NewKiwi
    /\ early' = FALSE
    /\ opened' = opened + 1
    /\ UNCHANGED <<transport, freq, attn, rpc, out, epc, stale, crashed, asked, said>>

\* Link::send_cmd on either transport.
SendNative(cmd) ==
    /\ Native
    /\ chan' = Append(chan, cmd)
    /\ UNCHANGED <<ses, up>>
SendWeb(cmd) ==
    /\ Web
    /\ IF sock # "open" THEN chan' = Append(chan, cmd) /\ UNCHANGED <<ses, up>>
       ELSE IF Passes(ses) THEN Sent(<<cmd>>) /\ UNCHANGED <<ses, chan>>
       ELSE ses' = Hold(ses, cmd) /\ UNCHANGED <<chan, up>>
SendCmd(cmd) == SendNative(cmd) \/ SendWeb(cmd)

Tune ==
    /\ epc = "run" /\ link /\ asked < MaxAsk
    /\ asked' = asked + 1
    /\ freq' = asked + 1
    /\ SendCmd(Cmd("tune", asked + 1))
    /\ early' = (early \/ (Web /\ sock = "connecting"))
    /\ UNCHANGED <<transport, link, attn, hasAttn, err, iqStreaming, stop, rpc,
                   out, epc, sock, down, kiwi, stale, crashed, said, opened>>

SetRfAttn ==
    /\ epc = "run" /\ link /\ asked < MaxAsk
    /\ asked' = asked + 1
    /\ attn' = asked + 1
    /\ SendCmd(Cmd("attn", asked + 1))
    /\ early' = (early \/ ~ses.attnApplied)
    /\ UNCHANGED <<transport, link, freq, hasAttn, err, iqStreaming, stop, rpc,
                   out, epc, sock, down, kiwi, stale, crashed, said, opened>>

\* What the engine looks at between two pumps (link_error, link_alive).
LinkAlive_WhileOwned == link
LinkAlive == IF Native THEN rpc # "gone" ELSE sock \in {"connecting", "open"}
LinkLost == link /\ (err # "none" \/ ~LinkAlive)

\* stop() on the desktop: raise the flag, drop the sender, join.
StopNative ==
    /\ Native /\ epc = "run" /\ link
    /\ stop' = TRUE
    /\ epc' = "join"
    /\ UNCHANGED <<transport, link, freq, attn, hasAttn, err, iqStreaming, ses,
                   chan, rpc, out, wire, kiwi, stale, crashed, early, counts>>

ReaderEnded == rpc = "gone"

JoinReader ==
    /\ epc = "join" /\ ReaderEnded
    /\ epc' = "run"
    /\ link' = FALSE
    /\ chan' = <<>>
    /\ UNCHANGED <<transport, freq, attn, hasAttn, err, iqStreaming, stop, ses,
                   rpc, out, wire, kiwi, stale, crashed, early, counts>>

\* close() in the browser: every handler is detached, the socket stays with
\* the browser until it is closed, and the closures are freed.
LeftAttached_OpenAndMessage == {"open", "message"}
LeftAttached == {}

StopWeb ==
    /\ Web /\ epc = "run" /\ link
    /\ stop' = TRUE
    /\ link' = FALSE
    /\ stale' = IF sock = "closed" THEN stale
                ELSE [left |-> TRUE, handlers |-> LeftAttached]
    /\ sock' = "none" /\ up' = <<>> /\ down' = <<>> /\ chan' = <<>>
    /\ UNCHANGED <<transport, freq, attn, hasAttn, err, iqStreaming, ses, rpc,
                   out, epc, kiwi, crashed, early, counts>>

-----------------------------------------------------------------------------
(* The reader thread of the desktop.                                        *)

Gone == rpc' = "gone" /\ sock' = "closed" /\ out' = <<>>

\* The flag is what ends the loop, not the sender that is gone.
StopSeen_OnceLost == stop /\ sock # "open"
StopSeen == stop

ReaderTop ==
    /\ rpc = "top"
    /\ IF StopSeen THEN Gone ELSE rpc' = "drain" /\ UNCHANGED <<sock, out>>
    /\ UNCHANGED <<transport, source, ses, chan, epc, up, down, kiwi, stale,
                   crashed, early, counts>>

\* A command from the channel; a socket that refuses one ends the thread.
ReaderTake ==
    /\ rpc = "drain" /\ chan # <<>>
    /\ chan' = Tail(chan)
    /\ IF Passes(ses) THEN Sent(<<Head(chan)>>) /\ UNCHANGED ses
       ELSE ses' = Hold(ses, Head(chan)) /\ UNCHANGED up
    /\ UNCHANGED <<transport, source, rpc, out, epc, sock, down, kiwi, stale,
                   crashed, early, counts>>

ReaderDrained ==
    /\ rpc = "drain" /\ chan = <<>>
    /\ rpc' = "read"
    /\ UNCHANGED <<transport, source, ses, chan, out, epc, wire, kiwi, stale,
                   crashed, early, counts>>

\* A command, a keepalive or a reply the socket refuses: the thread returns
\* and records no reason.
ReaderSendFails ==
    /\ rpc \in {"drain", "reply"} /\ sock = "broken"
    /\ Gone
    /\ UNCHANGED <<transport, source, ses, chan, epc, up, down, kiwi, stale,
                   crashed, early, counts>>

ReaderText ==
    /\ rpc = "read" /\ down # <<>> /\ Head(down).kind = "text"
    /\ OnText(Head(down).text)
    /\ out' = Replies(Head(down).text)
    /\ down' = Tail(down)
    /\ rpc' = "reply"
    /\ UNCHANGED <<transport, link, freq, attn, iqStreaming, stop, chan, epc,
                   sock, up, kiwi, stale, crashed, early, counts>>

ReaderSnd ==
    /\ rpc = "read" /\ down # <<>> /\ Head(down).kind = "snd"
    /\ iqStreaming' = TRUE
    /\ down' = Tail(down)
    /\ rpc' = "reply"
    /\ UNCHANGED <<transport, link, freq, attn, hasAttn, err, stop, ses, chan,
                   out, epc, sock, up, kiwi, stale, crashed, early, counts>>

ReaderClosed ==
    /\ rpc = "read" /\ down # <<>> /\ Head(down).kind = "close"
    /\ err' = RecordFirstError(err, "closed")
    /\ Gone
    /\ down' = <<>>
    /\ UNCHANGED <<transport, link, freq, attn, hasAttn, iqStreaming, stop, ses,
                   chan, epc, up, kiwi, stale, crashed, early, counts>>

\* An error loses what had not been read.
ReaderLost ==
    /\ rpc = "read" /\ sock = "broken"
    /\ err' = RecordFirstError(err, "lost")
    /\ Gone
    /\ down' = <<>>
    /\ UNCHANGED <<transport, link, freq, attn, hasAttn, iqStreaming, stop, ses,
                   chan, epc, up, kiwi, stale, crashed, early, counts>>

\* The read times out after 150 ms.
ReaderIdle ==
    /\ rpc = "read" /\ down = <<>> /\ sock = "open"
    /\ rpc' = "reply"
    /\ UNCHANGED <<transport, source, ses, chan, out, epc, wire, kiwi, stale,
                   crashed, early, counts>>

\* The replies go out, and a session that was refused ends the thread.
ReaderReply ==
    /\ rpc = "reply"
    /\ Sent(out)
    /\ IF err # "none" THEN Gone
       ELSE rpc' = "top" /\ out' = <<>> /\ UNCHANGED sock
    /\ UNCHANGED <<transport, source, ses, chan, epc, down, kiwi, stale,
                   crashed, early, counts>>

Reader == ReaderTop \/ ReaderTake \/ ReaderDrained \/ ReaderSendFails
          \/ ReaderText \/ ReaderSnd \/ ReaderClosed \/ ReaderLost
          \/ ReaderIdle \/ ReaderReply

-----------------------------------------------------------------------------
(* The callbacks of the browser.                                            *)

\* onopen: the opening lines, then the commands given meanwhile.
OnOpen ==
    /\ Web /\ link /\ sock = "connecting"
    /\ sock' = "open"
    /\ up' = <<Cmd("auth", ses.rx.freq)>> \o chan
    /\ chan' = <<>>
    /\ UNCHANGED <<transport, source, ses, rpc, out, epc, down, kiwi, stale,
                   crashed, early, counts>>

OnMessage ==
    /\ Web /\ link /\ down # <<>> /\ sock \in {"open", "broken"}
    /\ down' = Tail(down)
    /\ \/ /\ Head(down).kind = "text"
          /\ OnText(Head(down).text)
          /\ Sent(Replies(Head(down).text))
          /\ UNCHANGED iqStreaming
       \/ /\ Head(down).kind = "snd"
          /\ iqStreaming' = TRUE
          /\ UNCHANGED <<err, ses, hasAttn, up>>
    /\ UNCHANGED <<transport, link, freq, attn, stop, chan, rpc, out, epc, sock,
                   kiwi, stale, crashed, early, counts>>

\* onerror and onclose: the connection is refused or lost.
OnError ==
    /\ Web /\ link
    /\ sock \in {"connecting", "broken"}
    /\ sock' = "closed" /\ down' = <<>> /\ up' = <<>>
    /\ err' = RecordFirstError(err, "lost")
    /\ UNCHANGED <<transport, link, freq, attn, hasAttn, iqStreaming, stop, ses,
                   chan, rpc, out, epc, kiwi, stale, crashed, early, counts>>

OnClose ==
    /\ Web /\ link /\ down # <<>> /\ Head(down).kind = "close"
    /\ sock' = "closed" /\ down' = <<>> /\ up' = <<>>
    /\ err' = RecordFirstError(err, "closed")
    /\ UNCHANGED <<transport, link, freq, attn, hasAttn, iqStreaming, stop, ses,
                   chan, rpc, out, epc, kiwi, stale, crashed, early, counts>>

\* The browser finishes with a socket left behind: the event it raises finds
\* the handlers that are still attached.
AbandonedEvent ==
    /\ stale.left
    /\ \E h \in Handlers : crashed' = (crashed \/ h \in stale.handlers)
    /\ stale' = NoSocket
    /\ UNCHANGED <<transport, source, ses, chan, rpc, out, epc, wire, kiwi,
                   early, counts>>

Callback == OnOpen \/ OnMessage \/ OnError \/ OnClose

-----------------------------------------------------------------------------
(* The receiver.                                                            *)

KiwiTakes ==
    /\ up # <<>> /\ sock = "open"
    /\ up' = Tail(up)
    /\ kiwi' = CASE Head(up).op = "auth" -> [kiwi EXCEPT !.authed = TRUE]
                 [] Head(up).op = "setup" ->
                        [kiwi EXCEPT !.configured = TRUE, !.freq = Head(up).v]
                 [] Head(up).op \in UserOps /\ ~kiwi.configured ->
                        [kiwi EXCEPT !.ignored = TRUE]
                 [] Head(up).op = "tune" /\ kiwi.configured ->
                        [kiwi EXCEPT !.freq = Head(up).v]
                 [] Head(up).op = "attn" /\ kiwi.configured ->
                        [kiwi EXCEPT !.attn = Head(up).v]
                 [] OTHER -> kiwi
    /\ UNCHANGED <<transport, source, ses, chan, rpc, out, epc, sock, down,
                   stale, crashed, early, counts>>

KiwiSays ==
    /\ sock = "open" /\ kiwi.authed /\ said < MaxSay
    /\ said' = said + 1
    /\ \/ \E t \in Texts : down' = Append(down, [kind |-> "text", text |-> t])
       \/ kiwi.configured /\ down' = Append(down, [kind |-> "snd"])
    /\ UNCHANGED <<transport, source, ses, chan, rpc, out, epc, sock, up, kiwi,
                   stale, crashed, early, asked, opened>>

KiwiCloses ==
    /\ sock = "open"
    /\ sock' = "broken"
    /\ down' = Append(down, [kind |-> "close"])
    /\ UNCHANGED <<transport, source, ses, chan, rpc, out, epc, up, kiwi, stale,
                   crashed, early, counts>>

WireBreaks ==
    /\ sock = "open"
    /\ sock' = "broken"
    /\ UNCHANGED <<transport, source, ses, chan, rpc, out, epc, up, down, kiwi,
                   stale, crashed, early, counts>>

-----------------------------------------------------------------------------
Engine == OpenNative \/ OpenFails \/ OpenWeb \/ Tune \/ SetRfAttn
          \/ StopNative \/ JoinReader \/ StopWeb
World == AbandonedEvent \/ KiwiTakes \/ KiwiSays \/ KiwiCloses \/ WireBreaks

\* Every source that may be opened was, and was stopped.
Over == ~link /\ epc = "run" /\ opened = MaxOpen /\ ~stale.left /\ UNCHANGED vars

Next == Engine \/ Reader \/ Callback \/ World \/ Over

Spec == Init /\ [][Next]_vars

\* The reader thread runs (its reads time out), the browser delivers events,
\* and the engine polls the link and replaces what it finds lost.
Notices == LinkLost /\ (StopNative \/ StopWeb)
FairSpec ==
    /\ Spec
    /\ WF_vars(Reader)
    /\ WF_vars(Callback)
    /\ WF_vars(Notices)
    /\ WF_vars(JoinReader)

-----------------------------------------------------------------------------
(* Properties.                                                              *)

TypeOK ==
    /\ transport \in Transports
    /\ link \in BOOLEAN /\ freq \in Settings /\ attn \in Settings
    /\ hasAttn \in BOOLEAN /\ err \in Reasons
    /\ iqStreaming \in BOOLEAN /\ stop \in BOOLEAN
    /\ ses \in [configured : BOOLEAN, attnApplied : BOOLEAN,
                pending : Seq(Commands), rx : [freq : Settings, attn : Settings]]
    /\ chan \in Seq(Commands) /\ out \in Seq(Commands) /\ up \in Seq(Commands)
    /\ rpc \in {"off", "top", "drain", "read", "reply", "gone"}
    /\ epc \in {"run", "join"}
    /\ sock \in {"none", "connecting", "open", "broken", "closed"}
    /\ down \in Seq(Inbound)
    /\ kiwi \in [authed : BOOLEAN, configured : BOOLEAN,
                 freq : Settings \cup {-1}, attn : Settings \cup {-1},
                 ignored : BOOLEAN]
    /\ stale \in [left : BOOLEAN, handlers : SUBSET Handlers]
    /\ crashed \in BOOLEAN /\ early \in BOOLEAN
    /\ asked \in Settings /\ said \in 0 .. MaxSay /\ opened \in 0 .. MaxOpen

\* Nothing is under way between the source and the receiver.
Settled ==
    /\ link /\ epc = "run" /\ sock = "open"
    /\ up = <<>> /\ down = <<>> /\ chan = <<>> /\ out = <<>>

(* When the link has settled on a receiver that was set up, the receiver is *)
(* tuned and attenuated as the source was last told, unless a setting came  *)
(* before the link could take it. Commands pass the channel, the held list  *)
(* of the session and the replies of set-up on their way (session.rs:133,   *)
(* 181, reader.rs:50), and none may overtake another.                       *)
LastSettingWins ==
    Settled /\ kiwi.configured /\ ~early
        => /\ kiwi.freq = freq
           /\ ses.attnApplied => kiwi.attn = attn

(* On the desktop no setting reaches the receiver before IQ mode is set up, *)
(* when it would be ignored (session.rs:104).                               *)
NothingIgnored == Native => ~kiwi.ignored

(* A receiver that said why it refuses is remembered for that: the closing  *)
(* of the socket that follows does not replace the reason (session.rs:46).  *)
(* The engine waits longer when it reads "busy" there.                      *)
RefusalIsRemembered ==
    [][link /\ link' /\ err \in Rejections => err' \in Rejections]_vars

(* A source that was stopped has no reader thread left, and no socket: the  *)
(* next one never shares a receiver with it (mod.rs:67, 485).               *)
NoReaderLeft == Native /\ ~link => rpc \in {"off", "gone"} /\ sock \in {"none", "closed"}

(* No callback runs after its closure was freed (web.rs:213).               *)
NoFreedCallback == ~crashed

(* A link that broke or was refused is given up by the engine: every way    *)
(* the transport ends leaves a reason or a dead thread to be found.         *)
BrokenIsReplaced == (link /\ (sock = "broken" \/ err # "none")) ~> ~link

(* A stop ends: the reader thread sees the flag and the join returns.       *)
StopEnds == (epc = "join") ~> (epc = "run")
=============================================================================
