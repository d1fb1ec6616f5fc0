--------------------------- MODULE KiwiLink_proofs ---------------------------
(***************************************************************************)
(* Proofs about KiwiLink for any number of settings, messages and sources. *)
(***************************************************************************)
EXTENDS KiwiLink, SequenceTheorems, TLAPS

(* The reader thread and the socket of the desktop begin and end together, *)
(* between start and the return of stop; the browser has no such thread.   *)
ReaderInv ==
    /\ Web => rpc = "off" /\ epc = "run" /\ out = <<>>
    /\ Native /\ rpc \in {"off", "gone"} => sock \in {"none", "closed"}
    /\ Native => sock # "connecting"
    /\ epc = "join" => link
    /\ NoReaderLeft
    /\ out # <<>> => rpc = "reply"

(* What the browser keeps of a socket left behind calls nobody. *)
CallbackInv == stale.handlers = {} /\ NoFreedCallback

IsSetup(s, i) == s[i].op = "setup"
HasSetup(s) == \E i \in 1..Len(s) : s[i].op = "setup"
Quiet(s) == \A i \in 1..Len(s) : s[i].op \notin UserOps
(* Every setting in s is behind the lines that set IQ mode up. *)
Guarded(s) ==
    \A i \in 1..Len(s) : s[i].op \in UserOps => \E j \in 1..(i - 1) : s[j].op = "setup"

(* As long as the receiver has not been set up, a setting is on its way to *)
(* it behind the set-up only, and there is none before the session saw the *)
(* sample rate.                                                            *)
OrderInv ==
    Native =>
        /\ ~kiwi.ignored
        /\ ~kiwi.configured => Guarded(up)
        /\ sock = "open" /\ ~ses.configured => Quiet(up) /\ out = <<>>
        /\ sock = "open" /\ ses.configured /\ ~kiwi.configured
             => HasSetup(up) \/ (out # <<>> /\ out[1].op = "setup")

IInv == TypeOK /\ ReaderInv /\ CallbackInv /\ OrderInv
-----------------------------------------------------------------------------
(* The parts of the type invariant. *)
FlagType ==
    /\ link \in BOOLEAN /\ hasAttn \in BOOLEAN /\ iqStreaming \in BOOLEAN
    /\ stop \in BOOLEAN /\ crashed \in BOOLEAN /\ early \in BOOLEAN

PlaceType ==
    /\ transport \in Transports
    /\ rpc \in {"off", "top", "drain", "read", "reply", "gone"}
    /\ epc \in {"run", "join"}
    /\ sock \in {"none", "connecting", "open", "broken", "closed"}

CountType ==
    /\ freq \in Settings /\ attn \in Settings
    /\ asked \in Settings /\ said \in 0 .. MaxSay /\ opened \in 0 .. MaxOpen

SesType ==
    ses \in [configured : BOOLEAN, attnApplied : BOOLEAN,
             pending : Seq(Commands), rx : [freq : Settings, attn : Settings]]

CommandType == chan \in Seq(Commands) /\ out \in Seq(Commands) /\ up \in Seq(Commands)

DownType == down \in Seq(Inbound) /\ err \in Reasons

KiwiType ==
    kiwi \in [authed : BOOLEAN, configured : BOOLEAN,
              freq : Settings \cup {-1}, attn : Settings \cup {-1}, ignored : BOOLEAN]

StaleType == stale \in [left : BOOLEAN, handlers : SUBSET Handlers]

LEMMA TypeParts ==
    TypeOK <=> FlagType /\ PlaceType /\ CountType /\ SesType /\ CommandType
               /\ DownType /\ KiwiType /\ StaleType
BY DEF TypeOK, FlagType, PlaceType, CountType, SesType, CommandType, DownType,
       KiwiType, StaleType

LEMMA Builds == transport \in Transports => (Native <=> ~Web)
BY TransportAssumption DEF Native, Web

LEMMA CmdType ==
    ASSUME NEW op \in {"auth", "setup", "tune", "attn", "ar"}, NEW v \in Settings
    PROVE  Cmd(op, v) \in Commands /\ Cmd(op, v).op = op
BY DEF Cmd, Commands

LEMMA NewSessionType ==
    ASSUME NEW f \in Settings, NEW a \in Settings
    PROVE  NewSession(f, a) \in [configured : BOOLEAN, attnApplied : BOOLEAN,
                     pending : Seq(Commands), rx : [freq : Settings, attn : Settings]]
<1>1. <<>> \in Seq(Commands)
    BY EmptySeq
<1> QED BY <1>1 DEF NewSession

LEMMA InitIInv == Init => IInv
<1> SUFFICES ASSUME Init PROVE IInv
    OBVIOUS
<1>0. <<>> \in Seq(Commands) /\ <<>> \in Seq(Inbound) /\ Len(<<>>) = 0
    BY EmptySeq
<1>1. FlagType
    BY DEF Init, FlagType
<1>2. PlaceType
    BY DEF Init, PlaceType
<1>3. CountType
    BY LimitAssumption DEF Init, CountType, Settings
<1>4. SesType
    BY <1>3, NewSessionType DEF Init, SesType, CountType
<1>5. CommandType /\ DownType
    BY <1>0 DEF Init, CommandType, DownType, Reasons
<1>6. KiwiType
    BY DEF Init, KiwiType, NewKiwi
<1>7. StaleType /\ CallbackInv
    BY DEF Init, StaleType, NoSocket, CallbackInv, NoFreedCallback
<1>8. ReaderInv
    BY DEF Init, ReaderInv, NoReaderLeft, Native, Web
<1>9. OrderInv
    BY <1>0 DEF Init, OrderInv, NewKiwi, NewSession, Guarded, Quiet
<1> QED BY <1>1, <1>2, <1>3, <1>4, <1>5, <1>6, <1>7, <1>8, <1>9, TypeParts DEF IInv
-----------------------------------------------------------------------------
(* Types. *)

LEMMA FlagStep ==
    ASSUME FlagType, [Next]_vars
    PROVE  FlagType'
<1> USE DEF FlagType, source
<1>1. CASE OpenNative
    BY <1>1 DEF OpenNative
<1>2. CASE OpenFails
    BY <1>2 DEF OpenFails
<1>3. CASE OpenWeb
    BY <1>3 DEF OpenWeb
<1>4. CASE Tune
    BY <1>4, Zenon DEF Tune
<1>5. CASE SetRfAttn
    BY <1>5, Zenon DEF SetRfAttn
<1>6. CASE StopNative \/ JoinReader \/ StopWeb
    BY <1>6 DEF StopNative, JoinReader, StopWeb
<1>7. CASE ReaderText
    BY <1>7, Zenon DEF ReaderText, OnText
<1>8. CASE ReaderTop \/ ReaderTake \/ ReaderDrained \/ ReaderSendFails
           \/ ReaderSnd \/ ReaderClosed \/ ReaderLost \/ ReaderIdle \/ ReaderReply
    BY <1>8 DEF ReaderTop, ReaderTake, ReaderDrained, ReaderSendFails, ReaderSnd,
                ReaderClosed, ReaderLost, ReaderIdle, ReaderReply
<1>9. CASE OnMessage
    BY <1>9, Zenon DEF OnMessage, OnText
<1>10. CASE OnOpen \/ OnError \/ OnClose
    BY <1>10 DEF OnOpen, OnError, OnClose
<1>11. CASE AbandonedEvent
    BY <1>11, Zenon DEF AbandonedEvent
<1>12. CASE KiwiTakes \/ KiwiSays \/ KiwiCloses \/ WireBreaks
    BY <1>12 DEF KiwiTakes, KiwiSays, KiwiCloses, WireBreaks
<1>13. CASE UNCHANGED vars
    BY <1>13 DEF vars
<1> QED
    BY <1>1, <1>2, <1>3, <1>4, <1>5, <1>6, <1>7, <1>8, <1>9, <1>10, <1>11, <1>12,
       <1>13
    DEF Next, Engine, Reader, Callback, World, Over

LEMMA CountStep ==
    ASSUME CountType, [Next]_vars
    PROVE  CountType'
<1> USE LimitAssumption DEF CountType, Settings, source, counts
<1>1. CASE OpenNative \/ OpenFails \/ OpenWeb
    BY <1>1 DEF OpenNative, OpenFails, OpenWeb
<1>2. CASE Tune \/ SetRfAttn
    BY <1>2 DEF Tune, SetRfAttn
<1>3. CASE StopNative \/ JoinReader \/ StopWeb
    BY <1>3 DEF StopNative, JoinReader, StopWeb
<1>4. CASE Reader
    BY <1>4 DEF Reader, ReaderTop, ReaderTake, ReaderDrained, ReaderSendFails,
                ReaderText, ReaderSnd, ReaderClosed, ReaderLost, ReaderIdle, ReaderReply
<1>5. CASE Callback
    BY <1>5 DEF Callback, OnOpen, OnMessage, OnError, OnClose
<1>6. CASE World
    BY <1>6 DEF World, AbandonedEvent, KiwiTakes, KiwiSays, KiwiCloses, WireBreaks
<1>7. CASE UNCHANGED vars
    BY <1>7 DEF vars
<1> QED BY <1>1, <1>2, <1>3, <1>4, <1>5, <1>6, <1>7 DEF Next, Engine, Over

(* The replies to a text are commands, none before set-up; then the set-up *)
(* comes first.                                                            *)
LEMMA RepliesType ==
    ASSUME SesType, NEW t, LimitAssumption
    PROVE  /\ Replies(t) \in Seq(Commands)
           /\ ~ses.configured /\ ~t.rate => Replies(t) = <<>>
           /\ SetsUp(t) => Replies(t) # <<>> /\ Replies(t)[1].op = "setup"
<1> DEFINE setup == <<Cmd("setup", ses.rx.freq)>>
           a == IF SetsUp(t) THEN setup \o ses.pending ELSE <<>>
           b == IF AppliesAttn(t) THEN <<Cmd("attn", ses.rx.attn)>> ELSE <<>>
           c == IF t.rate THEN <<Cmd("ar", 0)>> ELSE <<>>
<1>0. <<>> \in Seq(Commands)
    BY EmptySeq
<1>1. setup \in Seq(Commands) /\ Len(setup) = 1 /\ setup[1].op = "setup"
    <2>1. Cmd("setup", ses.rx.freq) \in Commands /\ Cmd("setup", ses.rx.freq).op = "setup"
        BY CmdType DEF SesType
    <2> QED BY <2>1
<1>2. b \in Seq(Commands)
    <2>1. Cmd("attn", ses.rx.attn) \in Commands
        BY CmdType DEF SesType
    <2> QED BY <1>0, <2>1
<1>3. c \in Seq(Commands)
    <2>1. Cmd("ar", 0) \in Commands
        BY CmdType DEF Settings
    <2> QED BY <1>0, <2>1
<1> HIDE DEF setup
<1>4. setup \o ses.pending \in Seq(Commands)
      /\ Len(setup \o ses.pending) = 1 + Len(ses.pending)
      /\ (setup \o ses.pending)[1] = setup[1] /\ Len(ses.pending) \in Nat
    <2>1. ses.pending \in Seq(Commands)
        BY DEF SesType
    <2>2. Len(ses.pending) \in Nat
        BY <2>1, LenProperties
    <2>3. setup \o ses.pending \in Seq(Commands)
          /\ Len(setup \o ses.pending) = Len(setup) + Len(ses.pending)
        BY <1>1, <2>1, ConcatProperties
    <2>4. 1 \in 1 .. (Len(setup) + Len(ses.pending)) /\ 1 <= Len(setup)
        BY <1>1, <2>2
    <2>5. (setup \o ses.pending)[1] = setup[1]
        BY <1>1, <2>1, <2>4, ConcatProperties
    <2> QED BY <1>1, <2>2, <2>3, <2>5
<1>5. a \in Seq(Commands)
    BY <1>0, <1>4
<1>6. Replies(t) = (a \o b) \o c
    BY DEF Replies, setup
<1>7. SetsUp(t) => Len(a) >= 1 /\ a[1].op = "setup"
    BY <1>1, <1>4
<1>8. ~ses.configured /\ ~t.rate => a = <<>> /\ b = <<>> /\ c = <<>>
    BY DEF SetsUp, AppliesAttn
<1> HIDE DEF a, b, c
<1>9. /\ (a \o b) \o c \in Seq(Commands)
      /\ Len(a) \in Nat /\ Len(b) \in Nat /\ Len(c) \in Nat
      /\ Len((a \o b) \o c) = Len(a) + Len(b) + Len(c)
      /\ Len(a) >= 1 => ((a \o b) \o c)[1] = a[1]
    <2>1. Len(a) \in Nat /\ Len(b) \in Nat /\ Len(c) \in Nat
        BY <1>2, <1>3, <1>5, LenProperties
    <2>2. a \o b \in Seq(Commands) /\ Len(a \o b) = Len(a) + Len(b)
          /\ (Len(a) >= 1 => (a \o b)[1] = a[1])
        BY <1>2, <1>5, <2>1, ConcatProperties
    <2>3. (a \o b) \o c \in Seq(Commands)
          /\ Len((a \o b) \o c) = Len(a \o b) + Len(c)
          /\ (Len(a) >= 1 => ((a \o b) \o c)[1] = (a \o b)[1])
        BY <1>3, <2>1, <2>2, ConcatProperties
    <2> QED BY <2>1, <2>2, <2>3
<1>10. SetsUp(t) => Replies(t) # <<>> /\ Replies(t)[1].op = "setup"
    <2>1. ASSUME SetsUp(t) PROVE Replies(t) # <<>>
        <3>1. Len(Replies(t)) >= 1
            BY <1>6, <1>7, <1>9, <2>1
        <3> QED BY <1>6, <1>9, <3>1, EmptySeq
    <2> QED BY <1>6, <1>7, <1>9, <2>1
<1>11. ~ses.configured /\ ~t.rate => Replies(t) = <<>>
    BY <1>0, <1>6, <1>8, ConcatEmptySeq
<1> QED BY <1>6, <1>9, <1>10, <1>11

(* A text of the receiver. *)
LEMMA TextIs ==
    ASSUME DownType, down # <<>>
    PROVE  /\ Head(down) \in Inbound /\ Tail(down) \in Seq(Inbound)
           /\ Head(down).kind = "text" => Head(down).text \in Texts
<1>1. Head(down) \in Inbound /\ Tail(down) \in Seq(Inbound)
    BY HeadTailProperties DEF DownType
<1> QED BY <1>1 DEF Inbound

LEMMA SesStep ==
    ASSUME SesType, CountType, CommandType, [Next]_vars
    PROVE  SesType'
<1> USE DEF SesType
<1>0. <<>> \in Seq(Commands)
    BY EmptySeq
<1>a. ASSUME NEW cmd \in Commands
      PROVE  Hold(ses, cmd) \in [configured : BOOLEAN, attnApplied : BOOLEAN,
                     pending : Seq(Commands), rx : [freq : Settings, attn : Settings]]
    <2>1. Append(ses.pending, cmd) \in Seq(Commands)
        BY AppendProperties
    <2> QED BY <2>1 DEF Hold
<1>b. ASSUME NEW t, OnText(t) PROVE SesType'
    <2>1. (ses.configured \/ t.rate) \in BOOLEAN
          /\ (ses.attnApplied \/ AppliesAttn(t)) \in BOOLEAN
        BY Zenon
    <2>2. (IF SetsUp(t) THEN <<>> ELSE ses.pending) \in Seq(Commands)
        BY <1>0
    <2> QED BY <1>b, <2>1, <2>2 DEF OnText
<1>1. CASE OpenNative \/ OpenWeb
    BY <1>1, NewSessionType DEF OpenNative, OpenWeb, CountType
<1>2. CASE Tune \/ SetRfAttn
    <2>1. ASSUME NEW cmd \in Commands, SendCmd(cmd) PROVE SesType'
        BY <1>a, <2>1 DEF SendCmd, SendNative, SendWeb
    <2>2. Cmd("tune", asked + 1) \in Commands /\ Cmd("attn", asked + 1) \in Commands
        BY <1>2, CmdType, LimitAssumption DEF Tune, SetRfAttn, CountType, Settings
    <2> QED BY <1>2, <2>1, <2>2 DEF Tune, SetRfAttn
<1>3. CASE ReaderTake
    <2>1. Head(chan) \in Commands
        BY <1>3, HeadTailProperties DEF ReaderTake, CommandType
    <2> QED BY <1>3, <1>a, <2>1 DEF ReaderTake
<1>4. CASE ReaderText
    BY <1>4, <1>b DEF ReaderText
<1>5. CASE OnMessage
    BY <1>5, <1>b DEF OnMessage
<1>6. CASE OpenFails \/ StopNative \/ JoinReader \/ StopWeb
    BY <1>6 DEF OpenFails, StopNative, JoinReader, StopWeb
<1>7. CASE ReaderTop \/ ReaderDrained \/ ReaderSendFails \/ ReaderSnd
           \/ ReaderClosed \/ ReaderLost \/ ReaderIdle \/ ReaderReply
    BY <1>7 DEF ReaderTop, ReaderDrained, ReaderSendFails, ReaderSnd, ReaderClosed,
                ReaderLost, ReaderIdle, ReaderReply
<1>8. CASE OnOpen \/ OnError \/ OnClose
    BY <1>8 DEF OnOpen, OnError, OnClose
<1>9. CASE World \/ UNCHANGED vars
    BY <1>9 DEF World, AbandonedEvent, KiwiTakes, KiwiSays, KiwiCloses, WireBreaks, vars
<1> QED BY <1>1, <1>2, <1>3, <1>4, <1>5, <1>6, <1>7, <1>8, <1>9
    DEF Next, Engine, Reader, Callback, Over

(* Whatever is queued is a command. *)
LEMMA CommandStep ==
    ASSUME SesType, CountType, CommandType, [Next]_vars
    PROVE  CommandType'
<1> USE DEF CommandType
<1>0. <<>> \in Seq(Commands)
    BY EmptySeq
<1>a. ASSUME NEW cmds \in Seq(Commands), Sent(cmds) PROVE up' \in Seq(Commands)
    BY <1>a, ConcatProperties DEF Sent
<1>b. ASSUME NEW cmd \in Commands PROVE <<cmd>> \in Seq(Commands)
    OBVIOUS
<1>c. ASSUME NEW f \in Settings PROVE <<Cmd("auth", f)>> \in Seq(Commands)
    BY CmdType, <1>b
<1>1. CASE OpenNative
    BY <1>0, <1>1, <1>c DEF OpenNative, CountType
<1>2. CASE OpenWeb
    BY <1>0, <1>2 DEF OpenWeb
<1>3. CASE Tune \/ SetRfAttn
    <2>1. ASSUME NEW cmd \in Commands, SendCmd(cmd)
          PROVE  chan' \in Seq(Commands) /\ up' \in Seq(Commands)
        <3>1. Append(chan, cmd) \in Seq(Commands)
            BY AppendProperties
        <3> QED BY <2>1, <3>1, <1>a, <1>b DEF SendCmd, SendNative, SendWeb
    <2>2. Cmd("tune", asked + 1) \in Commands /\ Cmd("attn", asked + 1) \in Commands
        BY <1>3, CmdType, LimitAssumption DEF Tune, SetRfAttn, CountType, Settings
    <2> QED BY <1>3, <2>1, <2>2 DEF Tune, SetRfAttn
<1>4. CASE OpenFails \/ StopNative
    BY <1>4 DEF OpenFails, StopNative, wire
<1>5. CASE JoinReader \/ StopWeb
    BY <1>0, <1>5 DEF JoinReader, StopWeb, wire
<1>6. CASE ReaderTop \/ ReaderDrained \/ ReaderSendFails
    BY <1>0, <1>6 DEF ReaderTop, ReaderDrained, ReaderSendFails, Gone, wire
<1>7. CASE ReaderTake
    <2>1. Head(chan) \in Commands /\ Tail(chan) \in Seq(Commands)
        BY <1>7, HeadTailProperties DEF ReaderTake
    <2> QED BY <1>7, <2>1, <1>a, <1>b DEF ReaderTake
<1>8. CASE ReaderText
    BY <1>8, RepliesType, LimitAssumption DEF ReaderText
<1>9. CASE ReaderSnd \/ ReaderClosed \/ ReaderLost \/ ReaderIdle
    BY <1>0, <1>9 DEF ReaderSnd, ReaderClosed, ReaderLost, ReaderIdle, Gone, wire
<1>10. CASE ReaderReply
    BY <1>0, <1>10, <1>a DEF ReaderReply, Gone
<1>11. CASE OnOpen
    <2>1. <<Cmd("auth", ses.rx.freq)>> \o chan \in Seq(Commands)
        BY <1>c, ConcatProperties DEF SesType
    <2> QED BY <1>0, <1>11, <2>1 DEF OnOpen
<1>12. CASE OnMessage
    <2>1. up' \in Seq(Commands)
        BY <1>12, <1>a, RepliesType, LimitAssumption DEF OnMessage
    <2> QED BY <1>12, <2>1 DEF OnMessage
<1>13. CASE OnError \/ OnClose
    BY <1>0, <1>13 DEF OnError, OnClose
<1>14. CASE KiwiTakes
    BY <1>14, HeadTailProperties DEF KiwiTakes
<1>15. CASE AbandonedEvent \/ KiwiSays \/ KiwiCloses \/ WireBreaks
    BY <1>15 DEF AbandonedEvent, KiwiSays, KiwiCloses, WireBreaks, wire
<1>16. CASE UNCHANGED vars
    BY <1>16 DEF vars, wire
<1> QED
    BY <1>1, <1>2, <1>3, <1>4, <1>5, <1>6, <1>7, <1>8, <1>9, <1>10, <1>11, <1>12,
       <1>13, <1>14, <1>15, <1>16
    DEF Next, Engine, Reader, Callback, World, Over

(* What a text does to the reason: a rejection in it is a rejection.       *)
LEMMA ReasonType ==
    ASSUME DownType, NEW t \in Texts
    PROVE  /\ RejectReason(t) \in Reasons
           /\ err \in Rejections => RejectReason(t) \in Rejections
<1>1. ASSUME t.rej # <<>> PROVE t.rej[Len(t.rej)] = "busy"
    BY <1>1 DEF Texts, Text
<1> QED BY <1>1 DEF RejectReason, Rejected, DownType, Reasons, Rejections

(* What the receiver says, and the reason that is kept. A reason to refuse *)
(* stays one until the next source is opened.                              *)
LEMMA DownStep ==
    ASSUME DownType, CountType, [Next]_vars
    PROVE  /\ DownType'
           /\ link /\ link' /\ err \in Rejections => err' \in Rejections
<1> USE DEF DownType, source
<1>0. <<>> \in Seq(Inbound) /\ {"none", "closed", "lost"} \subseteq Reasons
      /\ Rejections \subseteq Reasons
    BY EmptySeq DEF Reasons
<1>a. ASSUME NEW r \in {"closed", "lost"}
      PROVE  /\ RecordFirstError(err, r) \in Reasons
             /\ err \in Rejections => RecordFirstError(err, r) = err
    BY <1>0 DEF RecordFirstError, Rejections
<1>1. CASE OpenNative \/ OpenWeb
    BY <1>0, <1>1 DEF OpenNative, OpenWeb
<1>2. CASE OpenFails \/ Tune \/ SetRfAttn \/ StopNative \/ JoinReader
    BY <1>2 DEF OpenFails, Tune, SetRfAttn, StopNative, JoinReader, wire
<1>3. CASE StopWeb
    BY <1>0, <1>3 DEF StopWeb
<1>4. CASE ReaderTop \/ ReaderTake \/ ReaderDrained \/ ReaderSendFails
           \/ ReaderIdle \/ ReaderReply
    BY <1>4 DEF ReaderTop, ReaderTake, ReaderDrained, ReaderSendFails, ReaderIdle,
                ReaderReply, wire
<1>5. CASE ReaderText \/ OnMessage
    <2>1. down # <<>> /\ down' = Tail(down)
        BY <1>5 DEF ReaderText, OnMessage
    <2>2. \/ err' = err
          \/ Head(down).kind = "text" /\ err' = RejectReason(Head(down).text)
        BY <1>5 DEF ReaderText, OnMessage, OnText
    <2> QED BY <2>1, <2>2, TextIs, ReasonType
<1>6. CASE ReaderSnd
    BY <1>6, TextIs DEF ReaderSnd
<1>7. CASE ReaderClosed \/ ReaderLost
    BY <1>0, <1>7, <1>a DEF ReaderClosed, ReaderLost
<1>8. CASE OnOpen
    BY <1>8 DEF OnOpen
<1>9. CASE OnError \/ OnClose
    BY <1>0, <1>9, <1>a DEF OnError, OnClose
<1>10. CASE KiwiSays
    <2>1. [kind |-> "snd"] \in Inbound
          /\ \A t \in Texts : [kind |-> "text", text |-> t] \in Inbound
        BY DEF Inbound
    <2>2. err' = err
        BY <1>10 DEF KiwiSays
    <2>3. CASE \E t \in Texts : down' = Append(down, [kind |-> "text", text |-> t])
        <3>1. PICK t \in Texts : down' = Append(down, [kind |-> "text", text |-> t])
            BY <2>3
        <3> QED BY <2>1, <2>2, <3>1, AppendProperties
    <2>4. CASE down' = Append(down, [kind |-> "snd"])
        BY <2>1, <2>2, <2>4, AppendProperties
    <2> QED BY <1>10, <2>3, <2>4 DEF KiwiSays
<1>11. CASE KiwiCloses
    <2>1. [kind |-> "close"] \in Inbound
        BY DEF Inbound
    <2> QED BY <1>11, <2>1, AppendProperties DEF KiwiCloses
<1>12. CASE AbandonedEvent \/ KiwiTakes \/ WireBreaks
    BY <1>12 DEF AbandonedEvent, KiwiTakes, WireBreaks, wire
<1>13. CASE UNCHANGED vars
    BY <1>13 DEF vars, wire
<1> QED
    BY <1>1, <1>2, <1>3, <1>4, <1>5, <1>6, <1>7, <1>8, <1>9, <1>10, <1>11, <1>12,
       <1>13
    DEF Next, Engine, Reader, Callback, World, Over

LEMMA KiwiStep ==
    ASSUME KiwiType, CommandType, [Next]_vars
    PROVE  KiwiType'
<1> USE DEF KiwiType
<1>1. CASE OpenNative \/ OpenWeb
    <2>1. NewKiwi \in [authed : BOOLEAN, configured : BOOLEAN,
              freq : Settings \cup {-1}, attn : Settings \cup {-1}, ignored : BOOLEAN]
        BY DEF NewKiwi
    <2>2. kiwi' = NewKiwi
        BY <1>1 DEF OpenNative, OpenWeb
    <2> QED BY <2>1, <2>2
<1>2. CASE KiwiTakes
    <2>1. Head(up) \in Commands
        BY <1>2, HeadTailProperties DEF KiwiTakes, CommandType
    <2>2. Head(up).v \in Settings
        BY <2>1 DEF Commands
    <2>3. \/ kiwi' = [kiwi EXCEPT !.authed = TRUE]
          \/ kiwi' = [kiwi EXCEPT !.configured = TRUE, !.freq = Head(up).v]
          \/ kiwi' = [kiwi EXCEPT !.ignored = TRUE]
          \/ kiwi' = [kiwi EXCEPT !.freq = Head(up).v]
          \/ kiwi' = [kiwi EXCEPT !.attn = Head(up).v]
          \/ kiwi' = kiwi
        BY <1>2 DEF KiwiTakes, UserOps
    <2> QED BY <2>2, <2>3
<1>3. CASE \/ OpenFails \/ Tune \/ SetRfAttn \/ StopNative \/ JoinReader \/ StopWeb
    BY <1>3 DEF OpenFails, Tune, SetRfAttn, StopNative, JoinReader, StopWeb
<1>4. CASE Reader
    BY <1>4 DEF Reader, ReaderTop, ReaderTake, ReaderDrained, ReaderSendFails,
                ReaderText, ReaderSnd, ReaderClosed, ReaderLost, ReaderIdle, ReaderReply
<1>5. CASE Callback
    BY <1>5 DEF Callback, OnOpen, OnMessage, OnError, OnClose
<1>6. CASE AbandonedEvent \/ KiwiSays \/ KiwiCloses \/ WireBreaks \/ UNCHANGED vars
    BY <1>6 DEF AbandonedEvent, KiwiSays, KiwiCloses, WireBreaks, vars
<1> QED BY <1>1, <1>2, <1>3, <1>4, <1>5, <1>6 DEF Next, Engine, World, Over

(* No handler stays attached to a socket that is left behind.              *)
LEMMA StaleStep ==
    ASSUME StaleType, CallbackInv, [Next]_vars
    PROVE  StaleType' /\ CallbackInv'
<1> USE DEF StaleType, CallbackInv, NoFreedCallback
<1>1. CASE StopWeb
    BY <1>1 DEF StopWeb, LeftAttached
<1>2. CASE AbandonedEvent
    BY <1>2 DEF AbandonedEvent, NoSocket
<1>3. CASE OpenNative \/ OpenFails \/ OpenWeb \/ Tune \/ SetRfAttn \/ StopNative
           \/ JoinReader
    BY <1>3 DEF OpenNative, OpenFails, OpenWeb, Tune, SetRfAttn, StopNative, JoinReader
<1>4. CASE Reader
    BY <1>4 DEF Reader, ReaderTop, ReaderTake, ReaderDrained, ReaderSendFails,
                ReaderText, ReaderSnd, ReaderClosed, ReaderLost, ReaderIdle, ReaderReply
<1>5. CASE Callback
    BY <1>5 DEF Callback, OnOpen, OnMessage, OnError, OnClose
<1>6. CASE KiwiTakes \/ KiwiSays \/ KiwiCloses \/ WireBreaks \/ UNCHANGED vars
    BY <1>6 DEF KiwiTakes, KiwiSays, KiwiCloses, WireBreaks, vars
<1> QED BY <1>1, <1>2, <1>3, <1>4, <1>5, <1>6 DEF Next, Engine, World, Over

(* The thread and the socket. *)
LEMMA PlaceStep ==
    ASSUME PlaceType, ReaderInv, CommandType, [Next]_vars
    PROVE  PlaceType' /\ ReaderInv'
<1> USE DEF PlaceType, ReaderInv, NoReaderLeft, Native, Web, source, wire
<1>1. CASE OpenNative
    BY <1>1 DEF OpenNative
<1>2. CASE OpenFails
    BY <1>2 DEF OpenFails
<1>3. CASE OpenWeb
    BY <1>3 DEF OpenWeb
<1>4. CASE Tune \/ SetRfAttn
    BY <1>4 DEF Tune, SetRfAttn
<1>5. CASE StopNative
    BY <1>5 DEF StopNative
<1>6. CASE JoinReader
    BY <1>6 DEF JoinReader, ReaderEnded
<1>7. CASE StopWeb
    BY <1>7 DEF StopWeb
<1>8. CASE ReaderTop
    BY <1>8 DEF ReaderTop, Gone
<1>9. CASE ReaderTake \/ ReaderDrained
    BY <1>9 DEF ReaderTake, ReaderDrained
<1>10. CASE ReaderSendFails
    BY <1>10 DEF ReaderSendFails, Gone
<1>11. CASE ReaderText \/ ReaderSnd
    BY <1>11 DEF ReaderText, ReaderSnd
<1>12. CASE ReaderClosed \/ ReaderLost
    BY <1>12 DEF ReaderClosed, ReaderLost, Gone
<1>13. CASE ReaderIdle
    BY <1>13 DEF ReaderIdle
<1>14. CASE ReaderReply
    BY <1>14 DEF ReaderReply, Gone
<1>15. CASE OnOpen \/ OnMessage
    BY <1>15 DEF OnOpen, OnMessage
<1>16. CASE OnError \/ OnClose
    BY <1>16 DEF OnError, OnClose
<1>17. CASE AbandonedEvent \/ KiwiTakes \/ KiwiSays
    BY <1>17 DEF AbandonedEvent, KiwiTakes, KiwiSays
<1>18. CASE KiwiCloses \/ WireBreaks
    BY <1>18 DEF KiwiCloses, WireBreaks
<1>19. CASE UNCHANGED vars
    BY <1>19 DEF vars
<1> QED
    BY <1>1, <1>2, <1>3, <1>4, <1>5, <1>6, <1>7, <1>8, <1>9, <1>10, <1>11, <1>12,
       <1>13, <1>14, <1>15, <1>16, <1>17, <1>18, <1>19
    DEF Next, Engine, Reader, Callback, World, Over
-----------------------------------------------------------------------------
(* Settings behind the set-up. *)

LEMMA Behind ==
    ASSUME NEW s \in Seq(Commands), NEW r \in Seq(Commands)
    PROVE  /\ HasSetup(s) => HasSetup(s \o r)
           /\ Guarded(s) /\ HasSetup(s) => Guarded(s \o r)
           /\ Guarded(s) /\ r # <<>> /\ r[1].op = "setup"
                => Guarded(s \o r) /\ HasSetup(s \o r)
<1>1. Len(s) \in Nat /\ Len(r) \in Nat /\ Len(s \o r) = Len(s) + Len(r)
      /\ (r # <<>> => Len(r) >= 1)
    BY LenProperties, ConcatProperties, EmptySeq
<1>2. ASSUME NEW i \in 1 .. (Len(s) + Len(r))
      PROVE  (s \o r)[i] = IF i <= Len(s) THEN s[i] ELSE r[i - Len(s)]
    BY ConcatProperties
<1>3. ASSUME HasSetup(s) PROVE HasSetup(s \o r)
    <2>1. PICK j \in 1 .. Len(s) : s[j].op = "setup"
        BY <1>3 DEF HasSetup
    <2>2. j \in 1 .. (Len(s) + Len(r)) /\ j <= Len(s)
        BY <1>1
    <2> QED BY <1>1, <1>2, <2>1, <2>2 DEF HasSetup
<1>4. ASSUME Guarded(s), HasSetup(s) PROVE Guarded(s \o r)
    <2> SUFFICES ASSUME NEW i \in 1 .. (Len(s) + Len(r)), (s \o r)[i].op \in UserOps
                 PROVE  \E j \in 1 .. (i - 1) : (s \o r)[j].op = "setup"
        BY <1>1 DEF Guarded
    <2>1. PICK j \in 1 .. Len(s) : s[j].op = "setup" /\ j < i
        <3>1. CASE i <= Len(s)
            <4>1. i \in 1 .. Len(s) /\ s[i].op \in UserOps
                BY <1>1, <1>2, <3>1
            <4> QED BY <1>1, <1>4, <4>1 DEF Guarded
        <3>2. CASE ~(i <= Len(s))
            BY <1>1, <1>4, <3>2 DEF HasSetup
        <3> QED BY <3>1, <3>2
    <2>2. j \in 1 .. (Len(s) + Len(r)) /\ j \in 1 .. (i - 1) /\ j <= Len(s)
        BY <1>1, <2>1
    <2> QED BY <1>2, <2>1, <2>2
<1>5. ASSUME Guarded(s), r # <<>>, r[1].op = "setup"
      PROVE  Guarded(s \o r) /\ HasSetup(s \o r)
    <2>1. Len(s) + 1 \in 1 .. (Len(s) + Len(r)) /\ ~(Len(s) + 1 <= Len(s))
          /\ (Len(s) + 1) - Len(s) = 1
        BY <1>1, <1>5
    <2>2. (s \o r)[Len(s) + 1].op = "setup"
        BY <1>2, <1>5, <2>1
    <2>3. HasSetup(s \o r)
        BY <1>1, <2>1, <2>2 DEF HasSetup
    <2>4. Guarded(s \o r)
        <3> SUFFICES ASSUME NEW i \in 1 .. (Len(s) + Len(r)), (s \o r)[i].op \in UserOps
                     PROVE  \E j \in 1 .. (i - 1) : (s \o r)[j].op = "setup"
            BY <1>1 DEF Guarded
        <3>1. CASE i <= Len(s)
            <4>1. i \in 1 .. Len(s) /\ s[i].op \in UserOps
                BY <1>1, <1>2, <3>1
            <4>2. PICK j \in 1 .. (i - 1) : s[j].op = "setup"
                BY <1>5, <4>1 DEF Guarded
            <4>3. j \in 1 .. (Len(s) + Len(r)) /\ j <= Len(s)
                BY <1>1, <3>1
            <4> QED BY <1>2, <4>2, <4>3
        <3>2. CASE i = Len(s) + 1
            BY <2>2, <3>2 DEF UserOps
        <3>3. CASE i > Len(s) + 1
            <4>1. Len(s) + 1 \in 1 .. (i - 1)
                BY <1>1, <3>3
            <4> QED BY <2>2, <4>1
        <3> QED BY <1>1, <3>1, <3>2, <3>3
    <2> QED BY <2>3, <2>4
<1> QED BY <1>3, <1>4, <1>5

LEMMA TailBehind ==
    ASSUME NEW s \in Seq(Commands), s # <<>>, Head(s).op # "setup"
    PROVE  /\ HasSetup(s) => HasSetup(Tail(s))
           /\ Guarded(s) => Head(s).op \notin UserOps /\ Guarded(Tail(s))
           /\ Quiet(s) => Quiet(Tail(s))
<1>1. Len(s) \in Nat /\ Len(s) >= 1 /\ Len(Tail(s)) = Len(s) - 1 /\ Head(s) = s[1]
      /\ \A i \in 1 .. (Len(s) - 1) : Tail(s)[i] = s[i + 1]
    BY LenProperties, HeadTailProperties, EmptySeq
<1>2. ASSUME HasSetup(s) PROVE HasSetup(Tail(s))
    <2>1. PICK j \in 1 .. Len(s) : s[j].op = "setup"
        BY <1>2 DEF HasSetup
    <2>2. j - 1 \in 1 .. (Len(s) - 1) /\ (j - 1) + 1 = j
        BY <1>1, <2>1
    <2> QED BY <1>1, <2>1, <2>2 DEF HasSetup
<1>3. ASSUME Guarded(s) PROVE Head(s).op \notin UserOps /\ Guarded(Tail(s))
    <2>1. Head(s).op \notin UserOps
        BY <1>1, <1>3 DEF Guarded
    <2>2. ASSUME NEW i \in 1 .. (Len(s) - 1), Tail(s)[i].op \in UserOps
          PROVE  \E j \in 1 .. (i - 1) : Tail(s)[j].op = "setup"
        <3>1. i + 1 \in 1 .. Len(s) /\ s[i + 1].op \in UserOps
            BY <1>1, <2>2
        <3>2. PICK j \in 1 .. ((i + 1) - 1) : s[j].op = "setup"
            BY <1>3, <3>1 DEF Guarded
        <3>3. j - 1 \in 1 .. (i - 1) /\ j - 1 \in 1 .. (Len(s) - 1) /\ (j - 1) + 1 = j
            BY <1>1, <3>2
        <3> QED BY <1>1, <3>2, <3>3
    <2> QED BY <1>1, <2>1, <2>2 DEF Guarded
<1>4. ASSUME Quiet(s) PROVE Quiet(Tail(s))
    <2>1. ASSUME NEW i \in 1 .. (Len(s) - 1) PROVE Tail(s)[i].op \notin UserOps
        <3>1. i + 1 \in 1 .. Len(s)
            BY <1>1
        <3> QED BY <1>1, <1>4, <3>1 DEF Quiet
    <2> QED BY <1>1, <2>1 DEF Quiet
<1> QED BY <1>2, <1>3, <1>4

LEMMA OrderStep ==
    ASSUME SesType, CountType, CommandType, KiwiType, PlaceType, ReaderInv, OrderInv,
           [Next]_vars
    PROVE  OrderInv'
<1>0. CASE ~Native'
    BY <1>0 DEF OrderInv
<1>a. SUFFICES ASSUME Native' PROVE OrderInv'
    BY <1>0
<1>b. Native /\ ~Web
    BY <1>a, Builds DEF PlaceType, Next, Engine, Reader, Callback, World, Over, vars,
       OpenNative, OpenFails, OpenWeb, Tune, SetRfAttn, StopNative, JoinReader, StopWeb,
       ReaderTop, ReaderTake, ReaderDrained, ReaderSendFails, ReaderText, ReaderSnd,
       ReaderClosed, ReaderLost, ReaderIdle, ReaderReply, OnOpen, OnMessage, OnError,
       OnClose, AbandonedEvent, KiwiTakes, KiwiSays, KiwiCloses, WireBreaks, Native
<1>c. ASSUME UNCHANGED <<ses, up, out, kiwi>>, sock' = sock \/ sock' # "open"
      PROVE  OrderInv'
    BY <1>b, <1>c DEF OrderInv, HasSetup, Quiet, Guarded
<1>1. CASE OpenNative
    <2>1. Len(up') = 1 /\ up'[1].op = "auth" /\ out' = <<>> /\ kiwi' = NewKiwi
          /\ ses'.configured = FALSE
        BY <1>1 DEF OpenNative, Cmd, NewSession
    <2>2. Guarded(up') /\ Quiet(up')
        BY <2>1 DEF Guarded, Quiet, UserOps
    <2>3. ~kiwi'.ignored
        BY <2>1 DEF NewKiwi
    <2> QED BY <2>1, <2>2, <2>3 DEF OrderInv, Guarded, Quiet
<1>2. CASE OpenWeb \/ StopWeb \/ Callback
    BY <1>2, <1>b DEF OpenWeb, StopWeb, Callback, OnOpen, OnMessage, OnError, OnClose
<1>3. CASE OpenFails \/ StopNative \/ JoinReader \/ AbandonedEvent \/ KiwiSays
           \/ KiwiCloses \/ WireBreaks \/ UNCHANGED vars
    BY <1>3, <1>c DEF OpenFails, StopNative, JoinReader, AbandonedEvent, KiwiSays,
       KiwiCloses, WireBreaks, vars, wire
<1>4. CASE Tune \/ SetRfAttn
    <2>1. UNCHANGED <<ses, up, out, kiwi, sock>>
        BY <1>4, <1>b DEF Tune, SetRfAttn, SendCmd, SendNative, SendWeb
    <2> QED BY <2>1, <1>c
<1>5. CASE ReaderDrained \/ ReaderSnd \/ ReaderIdle
    BY <1>5, <1>c DEF ReaderDrained, ReaderSnd, ReaderIdle, wire
<1>6. CASE ReaderTop \/ ReaderSendFails \/ ReaderClosed \/ ReaderLost
    <2>1. UNCHANGED <<ses, up, kiwi>> /\ ((out' = out /\ sock' = sock) \/ sock' # "open")
        BY <1>6 DEF ReaderTop, ReaderSendFails, ReaderClosed, ReaderLost, Gone
    <2> QED BY <1>b, <2>1 DEF OrderInv, HasSetup, Quiet, Guarded
<1>7. CASE ReaderTake
    <2>1. /\ UNCHANGED <<out, kiwi, sock>> /\ out = <<>>
          /\ ses' = ses \/ (~ses.configured /\ ses'.configured = ses.configured /\ up' = up)
        BY <1>7 DEF ReaderTake, Passes, Hold, SesType, ReaderInv
    <2>2. CASE up' = up
        BY <1>b, <2>1, <2>2 DEF OrderInv, HasSetup, Quiet, Guarded
    <2>3. CASE up' # up
        <3>1. <<Head(chan)>> \in Seq(Commands)
            BY <1>7, HeadTailProperties DEF ReaderTake, CommandType
        <3>2. ses' = ses /\ ses.configured /\ sock = "open" /\ up' = up \o <<Head(chan)>>
            BY <1>7, <2>3 DEF ReaderTake, Passes, Sent
        <3>3. ~kiwi.configured => HasSetup(up) /\ Guarded(up)
            BY <1>b, <2>1, <3>2 DEF OrderInv
        <3>4. ~kiwi.configured => HasSetup(up') /\ Guarded(up')
            BY <3>1, <3>2, <3>3, Behind DEF CommandType
        <3>5. ~kiwi'.ignored
            BY <1>b, <2>1 DEF OrderInv
        <3> QED BY <2>1, <3>2, <3>4, <3>5 DEF OrderInv, HasSetup, Guarded
    <2> QED BY <2>2, <2>3
<1>8. CASE ReaderText
    <2> DEFINE t == Head(down).text
    <2>1. /\ UNCHANGED <<up, kiwi, sock>> /\ out = <<>> /\ out' = Replies(t)
          /\ ses'.configured = (ses.configured \/ t.rate)
        BY <1>8 DEF ReaderText, OnText, ReaderInv, SesType
    <2>2. ~kiwi'.ignored /\ (~kiwi'.configured => Guarded(up'))
        BY <1>b, <2>1 DEF OrderInv, Guarded
    <2>3. CASE ses.configured
        BY <1>b, <2>1, <2>2, <2>3 DEF OrderInv, HasSetup, Guarded
    <2>4. CASE ~ses.configured /\ ~t.rate
        <3>1. out' = <<>> /\ ~ses'.configured
            BY <2>1, <2>4, RepliesType, LimitAssumption
        <3> QED BY <1>b, <2>1, <2>2, <2>4, <3>1 DEF OrderInv, Guarded, Quiet
    <2>5. CASE ~ses.configured /\ t.rate
        <3>1. SetsUp(t)
            BY <2>5 DEF SetsUp
        <3>2. out' # <<>> /\ out'[1].op = "setup" /\ ses'.configured
            BY <2>1, <2>5, <3>1, RepliesType, LimitAssumption
        <3> QED BY <2>2, <3>2 DEF OrderInv, Guarded
    <2> QED BY <2>3, <2>4, <2>5
<1>9. CASE ReaderReply
    <2>1. UNCHANGED <<ses, kiwi>> /\ out' = <<>> /\ (sock' = sock \/ sock' # "open")
          /\ up' = IF sock = "open" THEN up \o out ELSE up
        BY <1>9 DEF ReaderReply, Gone, Sent
    <2>2. ~kiwi'.ignored
        BY <1>b, <2>1 DEF OrderInv
    <2>3. CASE sock # "open"
        BY <1>b, <2>1, <2>2, <2>3 DEF OrderInv, Guarded
    <2>4. CASE sock = "open" /\ ~ses.configured
        <3>1. up' = up
            BY <1>b, <2>1, <2>4, ConcatEmptySeq DEF OrderInv, CommandType
        <3> QED BY <1>b, <2>1, <2>2, <2>4, <3>1 DEF OrderInv, Guarded, Quiet
    <2>5. CASE sock = "open" /\ ses.configured
        <3>1. up' = up \o out
            BY <2>1, <2>5
        <3>2. ~kiwi.configured =>
                 Guarded(up) /\ (HasSetup(up) \/ (out # <<>> /\ out[1].op = "setup"))
            BY <1>b, <2>5 DEF OrderInv
        <3>3. ~kiwi.configured => Guarded(up') /\ HasSetup(up')
            BY <3>1, <3>2, Behind DEF CommandType
        <3> QED BY <2>1, <2>2, <2>5, <3>3 DEF OrderInv, Guarded, HasSetup
    <2> QED BY <2>3, <2>4, <2>5
<1>10. CASE KiwiTakes
    <2>1. UNCHANGED <<ses, out, sock>> /\ up # <<>> /\ up' = Tail(up) /\ sock = "open"
        BY <1>10 DEF KiwiTakes
    <2>2. CASE Head(up).op = "setup"
        <3>1. kiwi'.configured /\ kiwi'.ignored = kiwi.ignored
            <4>1. kiwi' = [kiwi EXCEPT !.configured = TRUE, !.freq = Head(up).v]
                BY <1>10, <2>2 DEF KiwiTakes, UserOps
            <4> QED BY <4>1 DEF KiwiType
        <3>2. ~ses.configured => Quiet(up) /\ out = <<>>
            BY <1>b, <2>1 DEF OrderInv
        <3>3. Quiet(up) => Quiet(Tail(up))
            <4>1. Len(up) \in Nat /\ Len(up) >= 1 /\ Len(Tail(up)) = Len(up) - 1
                  /\ \A i \in 1 .. (Len(up) - 1) : Tail(up)[i] = up[i + 1]
                BY <2>1, LenProperties, HeadTailProperties, EmptySeq DEF CommandType
            <4>2. ASSUME Quiet(up), NEW i \in 1 .. (Len(up) - 1)
                  PROVE  Tail(up)[i].op \notin UserOps
                <5>1. i + 1 \in 1 .. Len(up)
                    BY <4>1
                <5> QED BY <4>1, <4>2, <5>1 DEF Quiet
            <4> QED BY <4>1, <4>2 DEF Quiet
        <3> QED BY <1>b, <2>1, <3>1, <3>2, <3>3 DEF OrderInv, Quiet
    <2>3. CASE Head(up).op # "setup" /\ ~kiwi.configured
        <3>1. Head(up).op \notin UserOps /\ Guarded(Tail(up))
              /\ (HasSetup(up) => HasSetup(Tail(up))) /\ (Quiet(up) => Quiet(Tail(up)))
            BY <1>b, <2>1, <2>3, TailBehind DEF OrderInv, CommandType
        <3>2. kiwi'.configured = kiwi.configured /\ kiwi'.ignored = kiwi.ignored
            BY <1>10, <2>3, <3>1 DEF KiwiTakes, KiwiType, UserOps
        <3> QED BY <1>b, <2>1, <2>3, <3>1, <3>2 DEF OrderInv, Guarded, HasSetup, Quiet
    <2>4. CASE Head(up).op # "setup" /\ kiwi.configured
        <3>1. Quiet(up) => Quiet(Tail(up))
            BY <2>1, <2>4, TailBehind DEF CommandType
        <3>2. kiwi'.configured = kiwi.configured /\ kiwi'.ignored = kiwi.ignored
            BY <1>10, <2>4 DEF KiwiTakes, KiwiType, UserOps
        <3> QED BY <1>b, <2>1, <2>4, <3>1, <3>2 DEF OrderInv, Quiet
    <2> QED BY <2>2, <2>3, <2>4
<1> QED BY <1>1, <1>2, <1>3, <1>4, <1>5, <1>6, <1>7, <1>8, <1>9, <1>10
    DEF Next, Engine, Reader, World, Over
-----------------------------------------------------------------------------
(* The inductive invariant holds, and with it what it implies. *)
LEMMA StepIInv == IInv /\ [Next]_vars => IInv'
<1> SUFFICES ASSUME IInv, [Next]_vars PROVE IInv'
    OBVIOUS
<1>1. FlagType /\ PlaceType /\ CountType /\ SesType /\ CommandType /\ DownType
      /\ KiwiType /\ StaleType /\ ReaderInv /\ CallbackInv /\ OrderInv
    BY TypeParts DEF IInv
<1>2. FlagType' /\ CountType' /\ SesType' /\ CommandType' /\ DownType' /\ KiwiType'
    BY <1>1, FlagStep, CountStep, SesStep, CommandStep, DownStep, KiwiStep
<1>3. PlaceType' /\ ReaderInv' /\ StaleType' /\ CallbackInv' /\ OrderInv'
    BY <1>1, PlaceStep, StaleStep, OrderStep
<1>4. TypeOK'
    BY <1>2, <1>3 DEF TypeOK, FlagType, PlaceType, CountType, SesType, CommandType,
       DownType, KiwiType, StaleType
<1> QED BY <1>3, <1>4 DEF IInv

(* The invariant the other theorems rest on: types, the thread and its      *)
(* socket, the handlers left attached, and the order of what is sent.       *)
THEOREM AlwaysIInv == Spec => []IInv
<1> QED BY InitIInv, StepIInv, PTL DEF Spec

(* Every variable keeps its type, for any bounds.                           *)
THEOREM TypeCorrect == Spec => []TypeOK
<1>1. IInv => TypeOK
    BY DEF IInv
<1> QED BY <1>1, AlwaysIInv, PTL

(* On the desktop no setting reaches a receiver that is not set up          *)
(* (session.rs:104).                                                        *)
THEOREM NoneIgnored == Spec => []NothingIgnored
<1>1. IInv => NothingIgnored
    BY DEF IInv, OrderInv, NothingIgnored
<1> QED BY <1>1, AlwaysIInv, PTL

(* A source that was stopped has no reader thread and no socket left        *)
(* (mod.rs:485).                                                            *)
THEOREM ReaderIsJoined == Spec => []NoReaderLeft
<1>1. IInv => NoReaderLeft
    BY DEF IInv, ReaderInv
<1> QED BY <1>1, AlwaysIInv, PTL

(* No callback of the browser runs after its closure was freed (web.rs).    *)
THEOREM ClosuresOutliveCallbacks == Spec => []NoFreedCallback
<1>1. IInv => NoFreedCallback
    BY DEF IInv, CallbackInv
<1> QED BY <1>1, AlwaysIInv, PTL

(* A receiver's reason to refuse is never replaced by the closing of the    *)
(* socket (session.rs:46).                                                  *)
THEOREM ReasonStays == Spec => RefusalIsRemembered
<1>1. IInv /\ [Next]_vars
        => [link /\ link' /\ err \in Rejections => err' \in Rejections]_vars
    <2> SUFFICES ASSUME IInv, [Next]_vars
                 PROVE  link /\ link' /\ err \in Rejections => err' \in Rejections
        OBVIOUS
    <2>1. DownType /\ CountType
        BY TypeParts DEF IInv
    <2> QED BY <2>1, DownStep
<1> QED BY <1>1, AlwaysIInv, PTL DEF Spec, RefusalIsRemembered
-----------------------------------------------------------------------------
(* The last setting wins. *)

FreqOps == {"tune", "setup"}
AttnOps == {"attn"}

(* No command of ops in s; the last one carries v; one comes with or after *)
(* a set-up.                                                               *)
Silent(s, ops) == \A i \in 1..Len(s) : s[i].op \notin ops
Ends(s, ops, v) ==
    \E i \in 1..Len(s) : /\ s[i].op \in ops /\ s[i].v = v
                         /\ \A j \in (i + 1)..Len(s) : s[j].op \notin ops
Covered(s, ops) ==
    \E j, i \in 1..Len(s) : j <= i /\ s[j].op = "setup" /\ s[i].op \in ops

(* A receiver that has d, set up (conf) or not, is left with v by the      *)
(* commands of s.                                                          *)
Arrives(s, ops, conf, d, v) ==
    /\ Ends(s, ops, v) \/ (Silent(s, ops) /\ d = v)
    /\ ~conf => Covered(s, ops)

(* Sequences of commands, put one behind the other. *)
Lines == Seq(Commands)
Cat(s, t) == s \o t

(* What a session that has not seen the sample rate will send for itself.  *)
Held == IF ses.configured THEN <<>>
        ELSE Cat(<<Cmd("setup", ses.rx.freq)>>, ses.pending)

(* What is on its way to the receiver, the next one first. *)
Way == Cat(up, Cat(out, Cat(Held, chan)))

FreqInv == Arrives(Way, FreqOps, kiwi.configured, kiwi.freq, freq)
AttnInv ==
    IF ses.attnApplied THEN Arrives(Way, AttnOps, kiwi.configured, kiwi.attn, attn)
                       ELSE ses.rx.attn = attn /\ Silent(Way, AttnOps)

SettingInv ==
    /\ ~HasSetup(chan)
    /\ Web /\ sock = "open" => chan = <<>>
    /\ sock \in {"connecting", "open"} /\ ~ses.configured
         => ~kiwi.configured /\ ~HasSetup(up) /\ ~HasSetup(out)
    /\ sock = "connecting" /\ ~early
         => ses = NewSession(freq, attn) /\ Silent(chan, AttnOps)
    /\ sock = "open" /\ ~early => FreqInv /\ AttnInv

LEMMA Joined ==
    ASSUME NEW s \in Seq(Commands), NEW t \in Seq(Commands), NEW ops
    PROVE  /\ HasSetup(s \o t) <=> HasSetup(s) \/ HasSetup(t)
           /\ Silent(s \o t, ops) <=> Silent(s, ops) /\ Silent(t, ops)
           /\ \A v : Ends(s \o t, ops, v) <=>
                        Ends(t, ops, v) \/ (Ends(s, ops, v) /\ Silent(t, ops))
           /\ Covered(s \o t, ops) <=>
                Covered(s, ops) \/ Covered(t, ops) \/ (HasSetup(s) /\ ~Silent(t, ops))
           /\ Covered(s, ops) => HasSetup(s) /\ ~Silent(s, ops)
<1>0. PICK w : w = s \o t
    OBVIOUS
<1>1. /\ w = s \o t /\ Len(w) = Len(s) + Len(t)
      /\ \A i \in 1..(Len(s) + Len(t)) :
             w[i] = IF i <= Len(s) THEN s[i] ELSE t[i - Len(s)]
    BY <1>0, ConcatProperties
<1>2. Len(s) \in Nat /\ Len(t) \in Nat
    BY LenProperties
<1>3. \A i \in 1..Len(s) : i \in 1..Len(w) /\ w[i] = s[i]
    BY <1>1, <1>2
<1>4. \A i \in 1..Len(t) : Len(s) + i \in 1..Len(w) /\ w[Len(s) + i] = t[i]
    <2>1. \A i \in 1..Len(t) : /\ Len(s) + i \in 1..(Len(s) + Len(t))
                               /\ ~(Len(s) + i <= Len(s)) /\ (Len(s) + i) - Len(s) = i
        BY <1>2
    <2> QED BY <1>1, <2>1
<1>5. \A k \in 1..Len(w) : k \in 1..Len(s) \/ \E i \in 1..Len(t) : k = Len(s) + i
    <2>1. ASSUME NEW k \in 1..Len(w), k \notin 1..Len(s)
          PROVE  k - Len(s) \in 1..Len(t) /\ k = Len(s) + (k - Len(s))
        BY <1>1, <1>2, <2>1
    <2> QED BY <2>1
<1>6. HasSetup(w) <=> HasSetup(s) \/ HasSetup(t)
    <2>1. HasSetup(s) \/ HasSetup(t) => HasSetup(w)
        BY <1>3, <1>4 DEF HasSetup
    <2>2. ASSUME NEW k \in 1..Len(w), w[k].op = "setup" PROVE HasSetup(s) \/ HasSetup(t)
        <3>1. CASE k \in 1..Len(s)
            BY <1>3, <2>2, <3>1 DEF HasSetup
        <3>2. CASE k \notin 1..Len(s)
            <4>1. PICK i \in 1..Len(t) : k = Len(s) + i
                BY <1>5, <3>2
            <4> QED BY <1>4, <2>2, <4>1 DEF HasSetup
        <3> QED BY <3>1, <3>2
    <2> QED BY <2>1, <2>2 DEF HasSetup
<1>7. Silent(w, ops) <=> Silent(s, ops) /\ Silent(t, ops)
    BY <1>3, <1>4, <1>5 DEF Silent
<1>8. ASSUME NEW v
      PROVE  Ends(w, ops, v) <=> Ends(t, ops, v) \/ (Ends(s, ops, v) /\ Silent(t, ops))
    <2>1. ASSUME Ends(t, ops, v) PROVE Ends(w, ops, v)
        <3>1. PICK i \in 1..Len(t) : /\ t[i].op \in ops /\ t[i].v = v
                                     /\ \A j \in (i + 1)..Len(t) : t[j].op \notin ops
            BY <2>1 DEF Ends
        <3>2. \A k \in (Len(s) + i + 1)..Len(w) :
                  k - Len(s) \in (i + 1)..Len(t) /\ k = Len(s) + (k - Len(s))
                  /\ k - Len(s) \in 1..Len(t)
            BY <1>1, <1>2
        <3>3. \A k \in (Len(s) + i + 1)..Len(w) : w[k].op \notin ops
            BY <1>4, <3>1, <3>2
        <3> QED BY <1>4, <3>1, <3>3 DEF Ends
    <2>2. ASSUME Ends(s, ops, v), Silent(t, ops) PROVE Ends(w, ops, v)
        <3>1. PICK i \in 1..Len(s) : /\ s[i].op \in ops /\ s[i].v = v
                                     /\ \A j \in (i + 1)..Len(s) : s[j].op \notin ops
            BY <2>2 DEF Ends
        <3>2. \A k \in (i + 1)..Len(w) :
                  k \in (i + 1)..Len(s) \/ \E l \in 1..Len(t) : k = Len(s) + l
            <4>1. \A k \in (i + 1)..Len(w) : k \in 1..Len(w) /\ k >= i + 1
                BY <1>1, <1>2
            <4> QED BY <1>2, <1>5, <4>1
        <3>3. \A k \in (i + 1)..Len(s) : k \in 1..Len(s)
            BY <1>2
        <3>4. \A k \in (i + 1)..Len(w) : w[k].op \notin ops
            BY <1>3, <1>4, <2>2, <3>1, <3>2, <3>3 DEF Silent
        <3> QED BY <1>3, <3>1, <3>4 DEF Ends
    <2>3. ASSUME Ends(w, ops, v)
          PROVE  Ends(t, ops, v) \/ (Ends(s, ops, v) /\ Silent(t, ops))
        <3>1. PICK i \in 1..Len(w) : /\ w[i].op \in ops /\ w[i].v = v
                                     /\ \A j \in (i + 1)..Len(w) : w[j].op \notin ops
            BY <2>3 DEF Ends
        <3>2. CASE i \in 1..Len(s)
            <4>1. \A j \in (i + 1)..Len(s) : j \in (i + 1)..Len(w) /\ j \in 1..Len(s)
                BY <1>1, <1>2
            <4>2. Ends(s, ops, v)
                BY <1>3, <3>1, <3>2, <4>1 DEF Ends
            <4>3. \A j \in 1..Len(t) : Len(s) + j \in (i + 1)..Len(w)
                BY <1>1, <1>2, <3>2
            <4> QED BY <1>4, <3>1, <4>2, <4>3 DEF Silent
        <3>3. CASE i \notin 1..Len(s)
            <4>1. PICK l \in 1..Len(t) : i = Len(s) + l
                BY <1>5, <3>3
            <4>2. \A j \in (l + 1)..Len(t) : Len(s) + j \in (i + 1)..Len(w) /\ j \in 1..Len(t)
                BY <1>1, <1>2, <4>1
            <4> QED BY <1>4, <3>1, <4>1, <4>2 DEF Ends
        <3> QED BY <3>2, <3>3
    <2> QED BY <2>1, <2>2, <2>3
<1>9. ASSUME Covered(w, ops)
      PROVE  Covered(s, ops) \/ Covered(t, ops) \/ (HasSetup(s) /\ ~Silent(t, ops))
    <2>1. PICK j, i \in 1..Len(w) : j <= i /\ w[j].op = "setup" /\ w[i].op \in ops
        BY <1>9 DEF Covered
    <2>2. CASE i \in 1..Len(s)
        <3>1. j \in 1..Len(s)
            BY <1>1, <1>2, <2>1, <2>2
        <3> QED BY <1>3, <2>1, <2>2, <3>1 DEF Covered
    <2>3. CASE i \notin 1..Len(s)
        <3>1. PICK l \in 1..Len(t) : i = Len(s) + l
            BY <1>5, <2>3
        <3>2. ~Silent(t, ops)
            BY <1>4, <2>1, <3>1 DEF Silent
        <3>3. CASE j \in 1..Len(s)
            BY <1>3, <2>1, <3>2, <3>3 DEF HasSetup
        <3>4. CASE j \notin 1..Len(s)
            <4>1. PICK m \in 1..Len(t) : j = Len(s) + m
                BY <1>5, <3>4
            <4>2. m <= l
                BY <1>2, <2>1, <3>1, <4>1
            <4> QED BY <1>4, <2>1, <3>1, <4>1, <4>2 DEF Covered
        <3> QED BY <3>3, <3>4
    <2> QED BY <2>2, <2>3
<1>10. ASSUME Covered(s, ops) \/ Covered(t, ops) \/ (HasSetup(s) /\ ~Silent(t, ops))
       PROVE  Covered(w, ops)
    <2>1. CASE Covered(s, ops)
        BY <1>3, <2>1 DEF Covered
    <2>2. CASE Covered(t, ops)
        <3>1. PICK j, i \in 1..Len(t) : j <= i /\ t[j].op = "setup" /\ t[i].op \in ops
            BY <2>2 DEF Covered
        <3>2. Len(s) + j <= Len(s) + i
            BY <1>2, <3>1
        <3> QED BY <1>4, <3>1, <3>2 DEF Covered
    <2>3. CASE HasSetup(s) /\ ~Silent(t, ops)
        <3>1. PICK j \in 1..Len(s) : s[j].op = "setup"
            BY <2>3 DEF HasSetup
        <3>2. PICK i \in 1..Len(t) : t[i].op \in ops
            BY <2>3 DEF Silent
        <3>3. j <= Len(s) + i
            BY <1>2, <3>1, <3>2
        <3> QED BY <1>3, <1>4, <3>1, <3>2, <3>3 DEF Covered
    <2> QED BY <1>10, <2>1, <2>2, <2>3
<1>11. Covered(s, ops) => HasSetup(s) /\ ~Silent(s, ops)
    BY DEF Covered, HasSetup, Silent
<1> QED BY <1>1, <1>6, <1>7, <1>8, <1>9, <1>10, <1>11

LEMMA Single ==
    ASSUME NEW c \in Commands, NEW ops
    PROVE  /\ <<c>> \in Seq(Commands)
           /\ HasSetup(<<c>>) <=> c.op = "setup"
           /\ Silent(<<c>>, ops) <=> c.op \notin ops
           /\ \A v : Ends(<<c>>, ops, v) <=> c.op \in ops /\ c.v = v
           /\ Covered(<<c>>, ops) <=> c.op = "setup" /\ c.op \in ops
<1>0. PICK s : s = <<c>>
    OBVIOUS
<1>1. s = <<c>> /\ s \in Seq(Commands) /\ Len(s) = 1 /\ s[1] = c
    BY <1>0
<1>2. /\ \A i : i \in 1..1 <=> i = 1
      /\ (1 + 1)..1 = {}
    OBVIOUS
<1> QED BY <1>1, <1>2 DEF HasSetup, Silent, Ends, Covered

LEMMA Nothing ==
    ASSUME NEW ops
    PROVE  /\ <<>> \in Seq(Commands) /\ ~HasSetup(<<>>) /\ Silent(<<>>, ops)
           /\ \A v : ~Ends(<<>>, ops, v)
           /\ ~Covered(<<>>, ops)
<1>1. Len(<<>>) = 0 /\ <<>> \in Seq(Commands)
    BY EmptySeq
<1> QED BY <1>1 DEF HasSetup, Silent, Ends, Covered

LEMMA CatProperties ==
    /\ <<>> \in Lines
    /\ \A a \in Lines : Cat(a, <<>>) = a /\ Cat(<<>>, a) = a
    /\ \A a, b \in Lines : Cat(a, b) \in Lines
    /\ \A a, b, c \in Lines : Cat(a, Cat(b, c)) = Cat(Cat(a, b), c)
<1> USE DEF Cat
<1>1. \A a \in Lines : a \o <<>> = a /\ <<>> \o a = a
    BY ConcatEmptySeq DEF Lines
<1>2. \A a, b \in Lines : a \o b \in Lines
    BY ConcatProperties DEF Lines
<1>3. \A a, b, c \in Lines : a \o (b \o c) = (a \o b) \o c
    BY ConcatAssociative DEF Lines
<1> QED BY <1>1, <1>2, <1>3, EmptySeq DEF Lines

LEMMA CatSays ==
    ASSUME NEW ops
    PROVE  /\ \A s, t \in Lines :
                /\ HasSetup(Cat(s, t)) <=> HasSetup(s) \/ HasSetup(t)
                /\ Silent(Cat(s, t), ops) <=> Silent(s, ops) /\ Silent(t, ops)
                /\ Covered(Cat(s, t), ops) <=>
                     Covered(s, ops) \/ Covered(t, ops) \/ (HasSetup(s) /\ ~Silent(t, ops))
           /\ \A s, t \in Lines : \A v :
                Ends(Cat(s, t), ops, v) <=>
                    Ends(t, ops, v) \/ (Ends(s, ops, v) /\ Silent(t, ops))
           /\ \A s \in Lines : Covered(s, ops) => HasSetup(s) /\ ~Silent(s, ops)
           /\ ~HasSetup(<<>>) /\ Silent(<<>>, ops) /\ ~Covered(<<>>, ops)
           /\ \A v : ~Ends(<<>>, ops, v)
<1>1. ASSUME NEW s \in Lines, NEW t \in Lines
      PROVE  /\ HasSetup(Cat(s, t)) <=> HasSetup(s) \/ HasSetup(t)
             /\ Silent(Cat(s, t), ops) <=> Silent(s, ops) /\ Silent(t, ops)
             /\ \A v : Ends(Cat(s, t), ops, v) <=>
                    Ends(t, ops, v) \/ (Ends(s, ops, v) /\ Silent(t, ops))
             /\ Covered(Cat(s, t), ops) <=>
                    Covered(s, ops) \/ Covered(t, ops) \/ (HasSetup(s) /\ ~Silent(t, ops))
    BY Joined DEF Lines, Cat
<1>2. \A s \in Lines : Covered(s, ops) => HasSetup(s) /\ ~Silent(s, ops)
    BY DEF Covered, HasSetup, Silent
<1> QED BY <1>1, <1>2, Nothing

LEMMA OneLine ==
    ASSUME NEW c \in Commands
    PROVE  /\ <<c>> \in Lines
           /\ HasSetup(<<c>>) <=> c.op = "setup"
           /\ \A ops : /\ Silent(<<c>>, ops) <=> c.op \notin ops
                       /\ Covered(<<c>>, ops) <=> c.op = "setup" /\ c.op \in ops
           /\ \A ops, v : Ends(<<c>>, ops, v) <=> c.op \in ops /\ c.v = v
<1>1. ASSUME NEW ops
      PROVE  /\ <<c>> \in Lines
             /\ HasSetup(<<c>>) <=> c.op = "setup"
             /\ Silent(<<c>>, ops) <=> c.op \notin ops
             /\ Covered(<<c>>, ops) <=> c.op = "setup" /\ c.op \in ops
             /\ \A v : Ends(<<c>>, ops, v) <=> c.op \in ops /\ c.v = v
    BY Single DEF Lines
<1> QED BY <1>1

(* Commands of other kinds in between change nothing. *)
LEMMA Inserted ==
    ASSUME NEW s \in Lines, NEW n \in Lines, NEW t \in Lines, NEW ops, Silent(n, ops)
    PROVE  /\ Silent(Cat(s, t), ops) => Silent(Cat(s, Cat(n, t)), ops)
           /\ \A conf, d, v : Arrives(Cat(s, t), ops, conf, d, v)
                                  => Arrives(Cat(s, Cat(n, t)), ops, conf, d, v)
<1>1. Cat(n, t) \in Lines
    BY CatProperties
<1>2. /\ Silent(Cat(n, t), ops) <=> Silent(t, ops)
      /\ \A v : Ends(t, ops, v) => Ends(Cat(n, t), ops, v)
      /\ Covered(t, ops) => Covered(Cat(n, t), ops)
    BY CatSays
<1>3. /\ Silent(Cat(s, Cat(n, t)), ops) <=> Silent(Cat(s, t), ops)
      /\ \A v : Ends(Cat(s, t), ops, v) => Ends(Cat(s, Cat(n, t)), ops, v)
      /\ Covered(Cat(s, t), ops) => Covered(Cat(s, Cat(n, t)), ops)
    BY <1>1, <1>2, CatSays
<1> QED BY <1>3 DEF Arrives

(* One more command at the end. *)
LEMMA Added ==
    ASSUME NEW w \in Lines, NEW c \in Commands, NEW ops
    PROVE  /\ c.op \notin ops => /\ Silent(w, ops) => Silent(Cat(w, <<c>>), ops)
                                 /\ \A conf, d, v : Arrives(w, ops, conf, d, v)
                                        => Arrives(Cat(w, <<c>>), ops, conf, d, v)
           /\ c.op \in ops => \A conf, d : conf \/ HasSetup(w)
                                  => Arrives(Cat(w, <<c>>), ops, conf, d, c.v)
<1>1. /\ <<c>> \in Lines
      /\ Silent(<<c>>, ops) <=> c.op \notin ops
      /\ \A v : Ends(<<c>>, ops, v) <=> c.op \in ops /\ c.v = v
    BY OneLine
<1>2. /\ Silent(Cat(w, <<c>>), ops) <=> Silent(w, ops) /\ Silent(<<c>>, ops)
      /\ \A v : Ends(Cat(w, <<c>>), ops, v) <=>
                   Ends(<<c>>, ops, v) \/ (Ends(w, ops, v) /\ Silent(<<c>>, ops))
      /\ Covered(Cat(w, <<c>>), ops) <=>
            Covered(w, ops) \/ Covered(<<c>>, ops) \/ (HasSetup(w) /\ ~Silent(<<c>>, ops))
    BY <1>1, CatSays
<1> QED BY <1>1, <1>2 DEF Arrives

(* The receiver takes the first. *)
LEMMA Taken ==
    ASSUME NEW c \in Commands, NEW t \in Lines, NEW ops, NEW conf \in BOOLEAN,
           NEW d, NEW v
    PROVE  /\ Arrives(Cat(<<c>>, t), ops, conf, d, v)
                => Arrives(t, ops, conf \/ c.op = "setup",
                       IF c.op \in ops /\ (conf \/ c.op = "setup") THEN c.v ELSE d, v)
           /\ Silent(Cat(<<c>>, t), ops) => Silent(t, ops)
<1>1. /\ <<c>> \in Lines
      /\ HasSetup(<<c>>) <=> c.op = "setup"
      /\ Silent(<<c>>, ops) <=> c.op \notin ops
      /\ \A u : Ends(<<c>>, ops, u) <=> c.op \in ops /\ c.v = u
      /\ Covered(<<c>>, ops) <=> c.op = "setup" /\ c.op \in ops
    BY OneLine
<1>2. /\ Silent(Cat(<<c>>, t), ops) <=> Silent(<<c>>, ops) /\ Silent(t, ops)
      /\ \A u : Ends(Cat(<<c>>, t), ops, u) <=>
                   Ends(t, ops, u) \/ (Ends(<<c>>, ops, u) /\ Silent(t, ops))
      /\ Covered(Cat(<<c>>, t), ops) <=>
            Covered(<<c>>, ops) \/ Covered(t, ops) \/ (HasSetup(<<c>>) /\ ~Silent(t, ops))
    BY <1>1, CatSays
<1>3. Covered(t, ops) => ~Silent(t, ops)
    BY CatSays
<1> QED BY <1>1, <1>2, <1>3 DEF Arrives

LEMMA WayParts ==
    ASSUME SesType, CommandType
    PROVE  /\ up \in Lines /\ out \in Lines /\ chan \in Lines /\ ses.pending \in Lines
           /\ Held \in Lines /\ Way \in Lines
           /\ Cmd("setup", ses.rx.freq) \in Commands
           /\ <<Cmd("setup", ses.rx.freq)>> \in Lines
<1>1. /\ up \in Lines /\ out \in Lines /\ chan \in Lines /\ ses.pending \in Lines
    BY DEF CommandType, SesType, Lines
<1>2. Cmd("setup", ses.rx.freq) \in Commands
    BY CmdType DEF SesType
<1>3. <<Cmd("setup", ses.rx.freq)>> \in Lines
    BY <1>2, OneLine
<1>4. Held \in Lines
    BY <1>1, <1>3, CatProperties DEF Held
<1>5. Way \in Lines
    BY <1>1, <1>4, CatProperties DEF Way
<1> QED BY <1>1, <1>2, <1>3, <1>4, <1>5

(* A setting of the user joins the end of what is on its way, wherever the *)
(* transport puts it.                                                      *)
LEMMA SendWay ==
    ASSUME SesType, CommandType, PlaceType, ReaderInv, SettingInv,
           NEW c \in Commands, c.op \in UserOps, SendCmd(c), out' = out, sock' = sock
    PROVE  /\ sock = "open" => Way' = Cat(Way, <<c>>)
           /\ ~ses.configured => up' = up
           /\ sock = "open" /\ Web => chan' = <<>>
           /\ sock # "open" => ses' = ses
           /\ ses'.configured = ses.configured /\ ses'.attnApplied = ses.attnApplied
           /\ ses'.rx = ses.rx /\ ~HasSetup(chan')
<1>0. /\ up \in Lines /\ out \in Lines /\ chan \in Lines /\ ses.pending \in Lines
      /\ Held \in Lines /\ <<Cmd("setup", ses.rx.freq)>> \in Lines
    BY WayParts
<1>1. <<c>> \in Lines /\ ~HasSetup(<<c>>)
    BY OneLine DEF UserOps
<1>2. Append(chan, c) = Cat(chan, <<c>>) /\ Append(ses.pending, c) = Cat(ses.pending, <<c>>)
    BY <1>0, AppendIsConcat DEF Cat, Lines
<1>3. ~HasSetup(Cat(chan, <<c>>))
    BY <1>0, <1>1, CatSays DEF SettingInv
<1>4. CASE chan' = Append(chan, c) /\ ses' = ses /\ up' = up /\ (Web => sock # "open")
    <2>1. Held' = Held /\ chan' = Cat(chan, <<c>>)
        BY <1>2, <1>4 DEF Held
    <2>2. Cat(up, Cat(out, Cat(Held, Cat(chan, <<c>>)))) = Cat(Way, <<c>>)
        BY <1>0, <1>1, CatProperties DEF Way
    <2>3. Way' = Cat(Way, <<c>>)
        BY <1>4, <2>1, <2>2 DEF Way
    <2> QED BY <1>3, <1>4, <2>1, <2>3
<1>5. CASE Web /\ sock = "open"
    <2>1. out = <<>> /\ chan = <<>> /\ ~Native
        BY <1>5, Builds DEF ReaderInv, SettingInv, PlaceType
    <2>2. SendWeb(c)
        BY <2>1, Zenon DEF SendCmd, SendNative
    <2>3. /\ chan' = chan
          /\ ses.configured => up' = Cat(up, <<c>>) /\ ses' = ses
          /\ ~ses.configured => ses' = Hold(ses, c) /\ up' = up
        BY <1>5, <2>2 DEF SendWeb, Passes, Sent, Cat
    <2>4. CASE ses.configured
        <3>1. Held = <<>> /\ Held' = <<>>
            BY <2>3, <2>4 DEF Held
        <3>2. /\ Way = Cat(up, Cat(<<>>, Cat(<<>>, <<>>)))
              /\ Way' = Cat(Cat(up, <<c>>), Cat(<<>>, Cat(<<>>, <<>>)))
            BY <2>1, <2>3, <2>4, <3>1 DEF Way
        <3>3. Way' = Cat(Way, <<c>>)
            BY <1>0, <1>1, <3>2, CatProperties
        <3> QED BY <1>5, <2>1, <2>3, <2>4, <3>3 DEF SettingInv
    <2>5. CASE ~ses.configured
        <3>1. /\ ses'.pending = Cat(ses.pending, <<c>>) /\ ses'.rx = ses.rx
              /\ ses'.configured = ses.configured /\ ses'.attnApplied = ses.attnApplied
            BY <1>2, <2>3, <2>5 DEF Hold, SesType
        <3>2. /\ Held = Cat(<<Cmd("setup", ses.rx.freq)>>, ses.pending)
              /\ Held' = Cat(<<Cmd("setup", ses.rx.freq)>>, Cat(ses.pending, <<c>>))
            BY <2>5, <3>1 DEF Held
        <3>3. Held' = Cat(Held, <<c>>)
            <4>1. PICK h : h = <<Cmd("setup", ses.rx.freq)>>
                OBVIOUS
            <4>2. h \in Lines
                BY <1>0, <4>1
            <4>3. PICK p : p = ses.pending
                OBVIOUS
            <4>4. p \in Lines
                BY <1>0, <4>3
            <4>5. Cat(h, Cat(p, <<c>>)) = Cat(Cat(h, p), <<c>>)
                BY <1>1, <4>2, <4>4, CatProperties
            <4> QED BY <3>2, <4>1, <4>3, <4>5
        <3>4. /\ Way = Cat(up, Cat(<<>>, Cat(Held, <<>>)))
              /\ Way' = Cat(up, Cat(<<>>, Cat(Cat(Held, <<c>>), <<>>)))
            BY <2>1, <2>3, <2>5, <3>3 DEF Way
        <3>5. Way' = Cat(Way, <<c>>)
            BY <1>0, <1>1, <3>4, CatProperties
        <3> QED BY <1>5, <2>1, <2>3, <2>5, <3>1, <3>5 DEF SettingInv
    <2> QED BY <2>4, <2>5
<1>6. SendNative(c) \/ SendWeb(c)
    BY DEF SendCmd
<1>7. CASE Native
    BY <1>4, <1>6, <1>7, Builds DEF SendNative, SendWeb, PlaceType
<1>8. CASE Web /\ sock # "open"
    BY <1>4, <1>6, <1>8, Builds DEF SendNative, SendWeb, PlaceType
<1> QED BY <1>5, <1>7, <1>8, Builds DEF PlaceType

(* As long as nothing it speaks of changes, and when the socket is neither *)
(* open nor about to be.                                                   *)
LEMMA SettingStays ==
    ASSUME SettingInv, UNCHANGED <<transport, freq, attn, ses, chan, out, up, kiwi,
                                   early, sock>>
    PROVE  SettingInv'
<1>1. Held' = Held
    BY DEF Held
<1>2. Way' = Way
    BY <1>1 DEF Way
<1> QED BY <1>2 DEF SettingInv, FreqInv, AttnInv, Web

LEMMA SettingEnds ==
    ASSUME SettingInv, chan' = chan \/ chan' = <<>>, sock' \notin {"open", "connecting"}
    PROVE  SettingInv'
<1>1. ~HasSetup(<<>>)
    BY Nothing
<1>2. ~HasSetup(chan')
    BY <1>1 DEF SettingInv
<1> QED BY <1>2 DEF SettingInv

(* The way of a source that was just opened. *)
LEMMA FreshWay ==
    ASSUME NEW f \in Settings, NEW g \in Settings, NEW c \in Lines
    PROVE  LET w == Cat(Cat(<<Cmd("auth", f)>>, c), <<Cmd("setup", g)>>)
           IN  /\ w \in Lines
               /\ \A d : Arrives(w, FreqOps, FALSE, d, g)
               /\ Silent(w, AttnOps) <=> Silent(c, AttnOps)
               /\ HasSetup(Cat(<<Cmd("auth", f)>>, c)) <=> HasSetup(c)
               /\ Cat(<<Cmd("auth", f)>>, c) \in Lines
<1>1. /\ Cmd("auth", f) \in Commands /\ Cmd("auth", f).op = "auth"
      /\ Cmd("setup", g) \in Commands /\ Cmd("setup", g).op = "setup"
    BY CmdType
<1>2. Cmd("setup", g).v = g
    BY DEF Cmd
<1>3. PICK a : a = <<Cmd("auth", f)>>
    OBVIOUS
<1>4. PICK b : b = <<Cmd("setup", g)>>
    OBVIOUS
<1>5. a \in Lines /\ ~HasSetup(a) /\ Silent(a, AttnOps)
    BY <1>1, <1>3, OneLine DEF AttnOps
<1>6. b \in Lines /\ Silent(b, AttnOps) /\ Ends(b, FreqOps, g) /\ Covered(b, FreqOps)
    BY <1>1, <1>2, <1>4, OneLine DEF AttnOps, FreqOps
<1>7. Cat(a, c) \in Lines /\ Cat(Cat(a, c), b) \in Lines
    BY <1>5, <1>6, CatProperties
<1>8. HasSetup(Cat(a, c)) <=> HasSetup(c)
    BY <1>5, CatSays
<1>9. Silent(Cat(Cat(a, c), b), AttnOps) <=> Silent(c, AttnOps)
    <2>1. Silent(Cat(a, c), AttnOps) <=> Silent(a, AttnOps) /\ Silent(c, AttnOps)
        BY <1>5, CatSays
    <2>2. Silent(Cat(Cat(a, c), b), AttnOps)
            <=> Silent(Cat(a, c), AttnOps) /\ Silent(b, AttnOps)
        BY <1>6, <1>7, CatSays
    <2> QED BY <1>5, <1>6, <2>1, <2>2
<1>10. Ends(Cat(Cat(a, c), b), FreqOps, g) /\ Covered(Cat(Cat(a, c), b), FreqOps)
    BY <1>6, <1>7, CatSays
<1> QED BY <1>3, <1>4, <1>7, <1>8, <1>9, <1>10 DEF Arrives

(* A new source: what it was opened with is all there is. *)
LEMMA SettingOpens ==
    ASSUME CountType, PlaceType, ReaderInv, OpenNative \/ OpenWeb
    PROVE  SettingInv'
<1>0. <<>> \in Lines /\ ~HasSetup(<<>>) /\ Silent(<<>>, AttnOps)
    BY CatProperties, CatSays
<1>1. CASE OpenWeb
    <2>1. /\ chan' = <<>> /\ up' = <<>> /\ ses' = NewSession(freq', attn')
          /\ sock' = "connecting" /\ kiwi' = NewKiwi
        BY <1>1 DEF OpenWeb
    <2>2. out' = <<>>
        BY <1>1 DEF OpenWeb, ReaderInv
    <2> QED BY <1>0, <2>1, <2>2 DEF SettingInv, NewKiwi
<1>2. CASE OpenNative
    <2>1. /\ chan' = <<>> /\ out' = <<>> /\ ses' = NewSession(freq, attn)
          /\ up' = <<Cmd("auth", freq)>> /\ kiwi' = NewKiwi /\ sock' = "open"
          /\ freq' = freq /\ attn' = attn /\ freq \in Settings /\ attn \in Settings
          /\ transport' = transport /\ Native
        BY <1>2 DEF OpenNative, CountType
    <2>2. /\ ~ses'.configured /\ ~ses'.attnApplied /\ ses'.pending = <<>>
          /\ ses'.rx.freq = freq /\ ses'.rx.attn = attn
        BY <2>1 DEF NewSession
    <2>3. PICK a : a = <<Cmd("auth", freq)>>
        OBVIOUS
    <2>4. PICK b : b = <<Cmd("setup", freq)>>
        OBVIOUS
    <2>5. a \in Lines /\ b \in Lines
        BY <2>1, <2>3, <2>4, CmdType, OneLine
    <2>6. Way' = Cat(a, Cat(<<>>, Cat(Cat(b, <<>>), <<>>)))
        BY <2>1, <2>2, <2>3, <2>4 DEF Way, Held
    <2>7. Way' = Cat(Cat(a, <<>>), b)
        BY <1>0, <2>5, <2>6, CatProperties
    <2>8. /\ \A d : Arrives(Cat(Cat(a, <<>>), b), FreqOps, FALSE, d, freq)
          /\ Silent(Cat(Cat(a, <<>>), b), AttnOps) <=> Silent(<<>>, AttnOps)
          /\ HasSetup(Cat(a, <<>>)) <=> HasSetup(<<>>)
        BY <1>0, <2>1, <2>3, <2>4, FreshWay
    <2>9. ~HasSetup(up') /\ up' = a
        BY <1>0, <2>1, <2>3, <2>5, <2>8, CatProperties
    <2>10. FreqInv' /\ AttnInv'
        BY <1>0, <2>1, <2>2, <2>7, <2>8 DEF FreqInv, AttnInv, NewKiwi
    <2>11. ~kiwi'.configured
        BY <2>1 DEF NewKiwi
    <2> QED BY <1>0, <2>1, <2>9, <2>10, <2>11 DEF SettingInv
<1> QED BY <1>1, <1>2

(* The socket of the browser opens: the opening lines, and behind them what *)
(* was asked for meanwhile.                                                 *)
LEMMA SettingOnOpen ==
    ASSUME SesType, CountType, CommandType, KiwiType, ReaderInv, SettingInv, OnOpen
    PROVE  SettingInv'
<1>0. <<>> \in Lines /\ ~HasSetup(<<>>)
    BY CatProperties, CatSays
<1>1. /\ Web /\ sock = "connecting" /\ sock' = "open" /\ chan' = <<>> /\ out' = <<>>
      /\ up' = Cat(<<Cmd("auth", ses.rx.freq)>>, chan) /\ ses' = ses /\ kiwi' = kiwi
      /\ freq' = freq /\ attn' = attn /\ early' = early
    BY DEF OnOpen, source, Cat, ReaderInv
<1>2. chan \in Lines /\ ses.rx.freq \in Settings
    BY DEF CommandType, SesType, Lines
<1>3. HasSetup(up') <=> HasSetup(chan)
    BY <1>1, <1>2, FreshWay
<1>4. ~HasSetup(up') /\ (~ses'.configured => ~kiwi'.configured)
    BY <1>1, <1>3 DEF SettingInv
<1>5. ASSUME ~early PROVE FreqInv' /\ AttnInv'
    <2>1. ses = NewSession(freq, attn) /\ Silent(chan, AttnOps)
        BY <1>1, <1>5 DEF SettingInv
    <2>2. /\ ~ses.configured /\ ~ses.attnApplied /\ ses.pending = <<>>
          /\ ses.rx.freq = freq /\ ses.rx.attn = attn
        BY <2>1 DEF NewSession
    <2>3. kiwi.configured = FALSE
        BY <1>1, <2>2 DEF SettingInv, KiwiType
    <2>4. PICK a : a = <<Cmd("auth", freq)>>
        OBVIOUS
    <2>5. PICK b : b = <<Cmd("setup", freq)>>
        OBVIOUS
    <2>6. a \in Lines /\ b \in Lines /\ freq \in Settings
        BY <1>2, <2>2, <2>4, <2>5, CmdType, OneLine
    <2>7. Way' = Cat(Cat(a, chan), Cat(<<>>, Cat(Cat(b, <<>>), <<>>)))
        BY <1>1, <2>2, <2>4, <2>5 DEF Way, Held
    <2>8. Cat(a, chan) \in Lines
        BY <1>2, <2>6, CatProperties
    <2>9. Way' = Cat(Cat(a, chan), b)
        BY <1>0, <2>6, <2>7, <2>8, CatProperties
    <2>10. /\ \A d : Arrives(Cat(Cat(a, chan), b), FreqOps, FALSE, d, freq)
           /\ Silent(Cat(Cat(a, chan), b), AttnOps) <=> Silent(chan, AttnOps)
        BY <1>2, <2>4, <2>5, <2>6, FreshWay
    <2>11. FreqInv'
        BY <1>1, <2>3, <2>9, <2>10 DEF FreqInv
    <2>12. AttnInv'
        BY <1>1, <2>1, <2>2, <2>9, <2>10 DEF AttnInv
    <2> QED BY <2>11, <2>12
<1> QED BY <1>0, <1>1, <1>4, <1>5 DEF SettingInv

(* The user changes a setting. *)
LEMMA SettingAsked ==
    ASSUME SesType, CountType, CommandType, KiwiType, PlaceType, ReaderInv, SettingInv,
           Tune \/ SetRfAttn
    PROVE  SettingInv'
<1>1. /\ out' = out /\ sock' = sock /\ kiwi' = kiwi /\ transport' = transport
      /\ asked + 1 \in Settings
    BY LimitAssumption DEF Tune, SetRfAttn, CountType, Settings
<1>2. PICK c : /\ SendCmd(c)
               /\ \/ Tune /\ c = Cmd("tune", asked + 1)
                  \/ SetRfAttn /\ c = Cmd("attn", asked + 1)
    BY DEF Tune, SetRfAttn
<1>3. c \in Commands /\ c.op \in UserOps /\ c.v = asked + 1
    <2>1. Cmd("tune", asked + 1).v = asked + 1 /\ Cmd("attn", asked + 1).v = asked + 1
        BY DEF Cmd
    <2> QED BY <1>1, <1>2, <2>1, CmdType DEF UserOps
<1>4. /\ sock = "open" => Way' = Cat(Way, <<c>>)
      /\ ~ses.configured => up' = up
      /\ sock = "open" /\ Web => chan' = <<>>
      /\ sock # "open" => ses' = ses
      /\ ses'.configured = ses.configured /\ ses'.attnApplied = ses.attnApplied
      /\ ses'.rx = ses.rx /\ ~HasSetup(chan')
    BY <1>1, <1>2, <1>3, SendWay
<1>5. Way \in Lines
    BY WayParts
<1>6. sock = "connecting" => early'
    <2>1. ASSUME sock = "connecting" PROVE Web
        BY <2>1, Builds DEF ReaderInv, PlaceType
    <2>2. ASSUME sock = "connecting", ~early, SetRfAttn PROVE ~ses.attnApplied
        BY <2>2 DEF SettingInv, NewSession
    <2> QED BY <2>1, <2>2, Zenon DEF Tune, SetRfAttn
<1>7. ASSUME sock = "open", ~early' PROVE FreqInv' /\ AttnInv'
    <2>1. ~early /\ FreqInv /\ AttnInv
        <3>1. ~early
            BY <1>7, Zenon DEF Tune, SetRfAttn
        <3> QED BY <1>7, <3>1 DEF SettingInv
    <2>2. kiwi.configured \/ HasSetup(Way)
        BY <1>5, <2>1, CatSays DEF FreqInv, Arrives
    <2>3. CASE Tune /\ c = Cmd("tune", asked + 1)
        <3>1. c.op = "tune" /\ freq' = asked + 1 /\ attn' = attn
            BY <1>1, <2>3, CmdType DEF Tune
        <3>2. c.op \in FreqOps /\ c.op \notin AttnOps
            BY <3>1 DEF FreqOps, AttnOps
        <3>3. Arrives(Cat(Way, <<c>>), FreqOps, kiwi.configured, kiwi.freq, c.v)
            BY <1>3, <1>5, <2>2, <3>2, Added
        <3>4. /\ Silent(Way, AttnOps) => Silent(Cat(Way, <<c>>), AttnOps)
              /\ \A conf, d, v : Arrives(Way, AttnOps, conf, d, v)
                                    => Arrives(Cat(Way, <<c>>), AttnOps, conf, d, v)
            BY <1>3, <1>5, <3>2, Added
        <3>5. FreqInv'
            BY <1>1, <1>3, <1>4, <1>7, <3>1, <3>3 DEF FreqInv
        <3>6. AttnInv'
            BY <1>1, <1>4, <1>7, <2>1, <3>1, <3>4 DEF AttnInv
        <3> QED BY <3>5, <3>6
    <2>4. CASE SetRfAttn /\ c = Cmd("attn", asked + 1)
        <3>1. c.op = "attn" /\ freq' = freq /\ attn' = asked + 1
            BY <1>1, <2>4, CmdType DEF SetRfAttn
        <3>2. c.op \notin FreqOps /\ c.op \in AttnOps
            BY <3>1 DEF FreqOps, AttnOps
        <3>3. ses.attnApplied
            BY <1>7, <2>4, Zenon DEF SetRfAttn
        <3>4. Arrives(Cat(Way, <<c>>), AttnOps, kiwi.configured, kiwi.attn, c.v)
            BY <1>3, <1>5, <2>2, <3>2, Added
        <3>5. Arrives(Cat(Way, <<c>>), FreqOps, kiwi.configured, kiwi.freq, freq)
            BY <1>3, <1>5, <2>1, <3>2, Added DEF FreqInv
        <3>6. FreqInv' /\ AttnInv'
            BY <1>1, <1>3, <1>4, <1>7, <3>1, <3>3, <3>4, <3>5 DEF FreqInv, AttnInv
        <3> QED BY <3>6
    <2> QED BY <1>2, <2>3, <2>4
<1> QED BY <1>1, <1>4, <1>6, <1>7 DEF SettingInv, Web

LEMMA FirstAndRest ==
    ASSUME NEW s \in Lines, s # <<>>
    PROVE  Head(s) \in Commands /\ Tail(s) \in Lines /\ s = Cat(<<Head(s)>>, Tail(s))
<1>1. s \in Seq(Commands)
    BY DEF Lines
<1>2. /\ Head(s) \in Commands /\ Tail(s) \in Seq(Commands) /\ Len(Tail(s)) = Len(s) - 1
      /\ \A i \in 1..Len(Tail(s)) : Tail(s)[i] = s[i + 1]
    BY <1>1, HeadTailProperties
<1>3. PICK h : h = <<Head(s)>>
    OBVIOUS
<1>4. h \in Seq(Commands) /\ Len(h) = 1 /\ h[1] = s[1]
    BY <1>1, <1>2, <1>3
<1>5. Len(s) \in Nat /\ Len(s) >= 1 /\ Len(Tail(s)) \in Nat
    BY <1>1, <1>2, LenProperties, EmptySeq
<1>6. PICK w : w = h \o Tail(s)
    OBVIOUS
<1>7. /\ w \in Seq(Commands) /\ Len(w) = Len(h) + Len(Tail(s))
      /\ \A i \in 1..(Len(h) + Len(Tail(s))) :
             w[i] = IF i <= Len(h) THEN h[i] ELSE Tail(s)[i - Len(h)]
    <2>1. ASSUME NEW t \in Seq(Commands)
          PROVE  /\ h \o t \in Seq(Commands) /\ Len(h \o t) = Len(h) + Len(t)
                 /\ \A i \in 1..(Len(h) + Len(t)) :
                        (h \o t)[i] = IF i <= Len(h) THEN h[i] ELSE t[i - Len(h)]
        BY <1>4, ConcatProperties
    <2> QED BY <1>2, <1>6, <2>1
<1>8. Len(w) = Len(s)
    BY <1>2, <1>4, <1>5, <1>7
<1>9. ASSUME NEW i \in 1..Len(s) PROVE w[i] = s[i]
    <2>1. CASE i = 1
        BY <1>2, <1>4, <1>5, <1>7, <2>1
    <2>2. CASE i # 1
        <3>1. i - 1 \in 1..Len(Tail(s)) /\ (i - 1) + 1 = i /\ ~(i <= 1)
              /\ i \in 1..(Len(h) + Len(Tail(s)))
            BY <1>2, <1>4, <1>5, <2>2
        <3>2. w[i] = Tail(s)[i - 1]
            BY <1>4, <1>7, <3>1
        <3> QED BY <1>2, <3>1, <3>2
    <2> QED BY <2>1, <2>2
<1>10. w = s
    BY <1>1, <1>7, <1>8, <1>9, SeqEqual
<1> QED BY <1>2, <1>3, <1>6, <1>10 DEF Cat, Lines

(* The reader thread takes a command from the channel: it is sent, or held *)
(* behind the others.                                                      *)
LEMMA SettingTaken ==
    ASSUME SesType, CommandType, PlaceType, ReaderInv, SettingInv, ReaderTake
    PROVE  SettingInv'
<1>0. /\ up \in Lines /\ out \in Lines /\ chan \in Lines /\ ses.pending \in Lines
      /\ Held \in Lines /\ <<Cmd("setup", ses.rx.freq)>> \in Lines /\ <<>> \in Lines
    BY WayParts, CatProperties
<1>1. /\ chan # <<>> /\ chan' = Tail(chan) /\ out = <<>> /\ out' = <<>> /\ ~Web
      /\ freq' = freq /\ attn' = attn /\ early' = early /\ kiwi' = kiwi /\ sock' = sock
      /\ sock # "connecting" /\ transport' = transport
    BY Builds DEF ReaderTake, ReaderInv, PlaceType, source
<1>2. PICK h : h = <<Head(chan)>>
    OBVIOUS
<1>3. Head(chan) \in Commands /\ chan' \in Lines /\ chan = Cat(h, chan')
    BY <1>0, <1>1, <1>2, FirstAndRest
<1>4. h \in Lines
    BY <1>2, <1>3, OneLine
<1>5. ~HasSetup(chan')
    BY <1>3, <1>4, CatSays DEF SettingInv
<1>6. Way = Cat(up, Cat(<<>>, Cat(Held, Cat(h, chan'))))
    BY <1>1, <1>3 DEF Way
<1>7. CASE sock # "open"
    BY <1>1, <1>5, <1>7 DEF SettingInv, Web
<1>8. CASE sock = "open" /\ ses.configured
    <2>1. up' = Cat(up, h) /\ ses' = ses
        BY <1>2, <1>8 DEF ReaderTake, Passes, Sent, Cat
    <2>2. Held = <<>> /\ Held' = <<>>
        BY <1>8, <2>1 DEF Held
    <2>3. Way' = Cat(Cat(up, h), Cat(<<>>, Cat(<<>>, chan')))
        BY <1>1, <2>1, <2>2 DEF Way
    <2>4. Way' = Way
        BY <1>0, <1>3, <1>4, <1>6, <2>2, <2>3, CatProperties
    <2> QED BY <1>1, <1>5, <1>8, <2>1, <2>4 DEF SettingInv, FreqInv, AttnInv, Web
<1>9. CASE sock = "open" /\ ~ses.configured
    <2>1. up' = up /\ ses' = Hold(ses, Head(chan))
        BY <1>9 DEF ReaderTake, Passes
    <2>2. Append(ses.pending, Head(chan)) = Cat(ses.pending, h)
        BY <1>0, <1>2, <1>3, AppendIsConcat DEF Cat, Lines
    <2>3. /\ ses'.pending = Cat(ses.pending, h) /\ ses'.rx = ses.rx
          /\ ses'.configured = ses.configured /\ ses'.attnApplied = ses.attnApplied
        BY <2>1, <2>2 DEF Hold, SesType
    <2>4. PICK q : q = <<Cmd("setup", ses.rx.freq)>>
        OBVIOUS
    <2>a. PICK p : p = ses.pending
        OBVIOUS
    <2>5. q \in Lines /\ p \in Lines
        BY <1>0, <2>4, <2>a
    <2>6. Held = Cat(q, p) /\ Held' = Cat(q, Cat(p, h))
        BY <1>9, <2>3, <2>4, <2>a DEF Held
    <2>7. Held' = Cat(Held, h)
        BY <1>4, <2>5, <2>6, CatProperties
    <2>8. Way' = Cat(up, Cat(<<>>, Cat(Cat(Held, h), chan')))
        BY <1>1, <2>1, <2>7 DEF Way
    <2>9. Way' = Way
        BY <1>0, <1>3, <1>4, <1>6, <2>8, CatProperties
    <2> QED BY <1>0, <1>1, <1>5, <1>9, <2>1, <2>3, <2>9
            DEF SettingInv, FreqInv, AttnInv, Web
<1> QED BY <1>7, <1>8, <1>9

(* The replies go out. *)
LEMMA SettingReplied ==
    ASSUME SesType, CommandType, PlaceType, ReaderInv, SettingInv, ReaderReply
    PROVE  SettingInv'
<1>0. up \in Lines /\ out \in Lines /\ chan \in Lines /\ Held \in Lines /\ <<>> \in Lines
    BY WayParts, CatProperties
<1>1. /\ chan' = chan /\ ~Web /\ ses' = ses /\ sock # "connecting"
      /\ freq' = freq /\ attn' = attn /\ early' = early /\ kiwi' = kiwi
      /\ transport' = transport /\ out' = <<>>
      /\ sock' = sock \/ sock' = "closed"
    BY Builds DEF ReaderReply, Gone, ReaderInv, PlaceType, source
<1>2. CASE sock' = "open"
    <2>1. sock = "open" /\ up' = Cat(up, out)
        BY <1>1, <1>2 DEF ReaderReply, Sent, Cat
    <2>2. Held' = Held
        BY <1>1 DEF Held
    <2>3. /\ Way = Cat(up, Cat(out, Cat(Held, chan)))
          /\ Way' = Cat(Cat(up, out), Cat(<<>>, Cat(Held, chan)))
        BY <1>1, <2>1, <2>2 DEF Way
    <2>4. Way' = Way
        BY <1>0, <2>3, CatProperties
    <2>5. HasSetup(up') <=> HasSetup(up) \/ HasSetup(out)
        BY <1>0, <2>1, CatSays
    <2>6. ~HasSetup(<<>>)
        BY Nothing
    <2> QED BY <1>1, <1>2, <2>1, <2>4, <2>5, <2>6
            DEF SettingInv, FreqInv, AttnInv, Web
<1>3. CASE sock' # "open"
    BY <1>1, <1>3, SettingEnds
<1> QED BY <1>2, <1>3

(* The receiver takes a command. *)
LEMMA SettingHeard ==
    ASSUME SesType, CommandType, KiwiType, PlaceType, SettingInv, KiwiTakes
    PROVE  SettingInv'
<1>0. up \in Lines /\ out \in Lines /\ chan \in Lines /\ Held \in Lines
    BY WayParts
<1>1. /\ up # <<>> /\ up' = Tail(up) /\ sock = "open" /\ ses' = ses /\ chan' = chan
      /\ out' = out /\ freq' = freq /\ attn' = attn /\ early' = early /\ sock' = sock
      /\ transport' = transport
    BY DEF KiwiTakes, source
<1>2. PICK c : c = Head(up)
    OBVIOUS
<1>3. c \in Commands /\ up' \in Lines /\ up = Cat(<<c>>, up')
    BY <1>0, <1>1, <1>2, FirstAndRest
<1>4. <<c>> \in Lines /\ (HasSetup(<<c>>) <=> c.op = "setup")
    BY <1>3, OneLine
<1>5. Held' = Held
    BY <1>1 DEF Held
<1>6. Way = Cat(<<c>>, Way') /\ Way' \in Lines
    <2>1. Way' = Cat(up', Cat(out, Cat(Held, chan)))
        BY <1>1, <1>5 DEF Way
    <2>2. Way = Cat(Cat(<<c>>, up'), Cat(out, Cat(Held, chan)))
        BY <1>3 DEF Way
    <2> QED BY <1>0, <1>3, <1>4, <2>1, <2>2, CatProperties
<1>7. c.op \in {"auth", "setup", "tune", "attn", "ar"} /\ kiwi.configured \in BOOLEAN
    BY <1>3 DEF Commands, KiwiType
<1>8. /\ kiwi'.configured = (kiwi.configured \/ c.op = "setup")
      /\ kiwi'.freq = IF c.op \in FreqOps /\ (kiwi.configured \/ c.op = "setup")
                      THEN c.v ELSE kiwi.freq
      /\ kiwi'.attn = IF c.op \in AttnOps /\ (kiwi.configured \/ c.op = "setup")
                      THEN c.v ELSE kiwi.attn
    <2> USE DEF KiwiType, FreqOps, AttnOps
    <2>1. CASE c.op = "auth"
        BY <1>2, <2>1 DEF KiwiTakes
    <2>2. CASE c.op = "setup"
        BY <1>2, <2>2 DEF KiwiTakes, UserOps
    <2>3. CASE c.op = "tune"
        BY <1>2, <2>3 DEF KiwiTakes, UserOps
    <2>4. CASE c.op = "attn"
        BY <1>2, <2>4 DEF KiwiTakes, UserOps
    <2>5. CASE c.op = "ar"
        BY <1>2, <2>5 DEF KiwiTakes, UserOps
    <2> QED BY <1>7, <2>1, <2>2, <2>3, <2>4, <2>5
<1>a. PICK w : w = Way'
    OBVIOUS
<1>b. w \in Lines /\ Way = Cat(<<c>>, w)
    BY <1>6, <1>a
<1>c. \A d, v :
         /\ Arrives(Cat(<<c>>, w), FreqOps, kiwi.configured, d, v)
                => Arrives(w, FreqOps, kiwi.configured \/ c.op = "setup",
                       IF c.op \in FreqOps /\ (kiwi.configured \/ c.op = "setup")
                       THEN c.v ELSE d, v)
         /\ Arrives(Cat(<<c>>, w), AttnOps, kiwi.configured, d, v)
                => Arrives(w, AttnOps, kiwi.configured \/ c.op = "setup",
                       IF c.op \in AttnOps /\ (kiwi.configured \/ c.op = "setup")
                       THEN c.v ELSE d, v)
    BY <1>3, <1>7, <1>b, Taken
<1>9. FreqInv => FreqInv'
    BY <1>1, <1>8, <1>a, <1>b, <1>c DEF FreqInv
<1>10. AttnInv => AttnInv'
    <2>1. CASE ses.attnApplied
        BY <1>1, <1>8, <1>a, <1>b, <1>c, <2>1 DEF AttnInv
    <2>2. CASE ~ses.attnApplied
        <3>1. Silent(Cat(<<c>>, Way'), AttnOps) => Silent(Way', AttnOps)
            BY <1>3, <1>4, <1>6, CatSays
        <3> QED BY <1>1, <1>6, <2>2, <3>1 DEF AttnInv
    <2> QED BY <2>1, <2>2
<1>11. HasSetup(up) <=> c.op = "setup" \/ HasSetup(up')
    BY <1>3, <1>4, CatSays
<1> QED BY <1>1, <1>7, <1>8, <1>9, <1>10, <1>11 DEF SettingInv, Web

(* The session takes a text: what it held is sent, then the attenuation the *)
(* source was opened with, and nothing passes anything else.                *)
LEMMA SettingText ==
    ASSUME SesType, CommandType, KiwiType, SettingInv, NEW t, OnText(t), t.rate \in BOOLEAN,
           out = <<>>, chan' = chan, sock' = sock, sock = "open", transport' = transport,
           kiwi' = kiwi, freq' = freq, attn' = attn, early' = early,
           \/ up' = Cat(up, Replies(t)) /\ out' = out
           \/ up' = up /\ out' = Replies(t)
    PROVE  SettingInv'
<1>0. /\ up \in Lines /\ chan \in Lines /\ Held \in Lines /\ <<>> \in Lines
      /\ out \in Lines /\ Way \in Lines
    BY WayParts, CatProperties
<1>1. /\ ses'.configured = (ses.configured \/ t.rate)
      /\ ses'.attnApplied = (ses.attnApplied \/ AppliesAttn(t))
      /\ ses'.pending = (IF SetsUp(t) THEN <<>> ELSE ses.pending)
      /\ ses'.rx = ses.rx
    BY DEF OnText, SesType
<1>2. PICK A : A = IF SetsUp(t) THEN Held ELSE <<>>
    OBVIOUS
<1>3. PICK B : B = IF AppliesAttn(t) THEN <<Cmd("attn", ses.rx.attn)>> ELSE <<>>
    OBVIOUS
<1>4. PICK C : C = IF t.rate THEN <<Cmd("ar", 0)>> ELSE <<>>
    OBVIOUS
<1>5. /\ Cmd("attn", ses.rx.attn) \in Commands /\ Cmd("attn", ses.rx.attn).op = "attn"
      /\ Cmd("ar", 0) \in Commands /\ Cmd("ar", 0).op = "ar"
    BY CmdType, LimitAssumption DEF SesType, Settings
<1>6. A \in Lines /\ B \in Lines /\ C \in Lines
    BY <1>0, <1>2, <1>3, <1>4, <1>5, OneLine
<1>7. Silent(B, FreqOps) /\ Silent(C, FreqOps) /\ Silent(C, AttnOps)
    BY <1>3, <1>4, <1>5, OneLine, CatSays DEF FreqOps, AttnOps
<1>8. Replies(t) = Cat(Cat(A, B), C)
    <2>1. SetsUp(t) => A = Cat(<<Cmd("setup", ses.rx.freq)>>, ses.pending)
        BY <1>2 DEF SetsUp, Held
    <2> QED BY <1>2, <1>3, <1>4, <2>1 DEF Replies, Cat
<1>9. Cat(A, Held') = Held /\ Held' \in Lines /\ (SetsUp(t) => Held' = <<>>)
    <2>1. CASE SetsUp(t)
        <3>1. Held' = <<>> /\ A = Held
            BY <1>1, <1>2, <2>1 DEF Held, SetsUp
        <3> QED BY <1>0, <3>1, CatProperties
    <2>2. CASE ~SetsUp(t)
        <3>1. Held' = Held
            BY <1>1, <2>2 DEF Held, SetsUp
        <3>2. A = <<>>
            BY <1>2, <2>2
        <3> QED BY <1>0, <2>2, <3>1, <3>2, CatProperties
    <2> QED BY <2>1, <2>2
<1>10. PICK h : h = Held'
    OBVIOUS
<1>11. h \in Lines /\ Held = Cat(A, h)
    BY <1>9, <1>10
<1>12. PICK s : s = Cat(up, A)
    OBVIOUS
<1>13. PICK n : n = Cat(B, C)
    OBVIOUS
<1>14. PICK u : u = Cat(h, chan)
    OBVIOUS
<1>15. s \in Lines /\ n \in Lines /\ u \in Lines
    BY <1>0, <1>6, <1>11, <1>12, <1>13, <1>14, CatProperties
<1>16. Way = Cat(s, u)
    <2>1. Way = Cat(up, Cat(<<>>, Cat(Cat(A, h), chan)))
        BY <1>11 DEF Way
    <2>2. Cat(up, Cat(<<>>, Cat(Cat(A, h), chan))) = Cat(Cat(up, A), Cat(h, chan))
        BY <1>0, <1>6, <1>11, CatProperties
    <2> QED BY <1>12, <1>14, <2>1, <2>2
<1>17. Way' = Cat(s, Cat(n, u))
    <2>1. PICK r : r = Replies(t)
        OBVIOUS
    <2>2. r = Cat(Cat(A, B), C)
        BY <1>8, <2>1
    <2>3. Way' = Cat(up', Cat(out', u))
        BY <1>10, <1>14 DEF Way
    <2>4. Way' = Cat(Cat(up, r), Cat(<<>>, u)) \/ Way' = Cat(up, Cat(r, u))
        BY <2>1, <2>3
    <2>5. r \in Lines
        BY <1>6, <2>2, CatProperties
    <2>6. Way' = Cat(up, Cat(r, u))
        BY <1>0, <1>15, <2>4, <2>5, CatProperties
    <2>7. Cat(r, u) = Cat(A, Cat(Cat(B, C), u))
        BY <1>6, <1>15, <2>2, CatProperties
    <2>8. Cat(up, Cat(A, Cat(n, u))) = Cat(Cat(up, A), Cat(n, u))
        BY <1>0, <1>6, <1>15, CatProperties
    <2> QED BY <1>12, <1>13, <2>6, <2>7, <2>8
<1>18. Silent(n, FreqOps) /\ (Silent(n, AttnOps) <=> Silent(B, AttnOps))
    BY <1>6, <1>7, <1>13, CatSays
<1>19. FreqInv => FreqInv'
    <2>1. \A conf, d, v : Arrives(Cat(s, u), FreqOps, conf, d, v)
                             => Arrives(Cat(s, Cat(n, u)), FreqOps, conf, d, v)
        BY <1>15, <1>18, Inserted
    <2> QED BY <1>16, <1>17, <2>1 DEF FreqInv
<1>20. FreqInv /\ AttnInv => AttnInv'
    <2>1. CASE ~AppliesAttn(t)
        <3>1. Silent(n, AttnOps)
            BY <1>3, <1>18, <2>1, CatSays
        <3>2. /\ Silent(Cat(s, u), AttnOps) => Silent(Cat(s, Cat(n, u)), AttnOps)
              /\ \A conf, d, v : Arrives(Cat(s, u), AttnOps, conf, d, v)
                                    => Arrives(Cat(s, Cat(n, u)), AttnOps, conf, d, v)
            BY <1>15, <3>1, Inserted
        <3>3. ses'.attnApplied <=> ses.attnApplied
            BY <1>1, <2>1
        <3>4. CASE ses.attnApplied
            BY <1>16, <1>17, <3>2, <3>3, <3>4 DEF AttnInv
        <3>5. CASE ~ses.attnApplied
            BY <1>1, <1>16, <1>17, <3>2, <3>3, <3>5 DEF AttnInv
        <3> QED BY <3>4, <3>5
    <2>2. ASSUME AppliesAttn(t), FreqInv, AttnInv PROVE AttnInv'
        <3>1. ~ses.attnApplied /\ (ses.configured \/ t.rate) /\ ses'.attnApplied
            BY <1>1, <2>2 DEF AppliesAttn
        <3>2. ses.rx.attn = attn /\ Silent(Way, AttnOps)
            BY <2>2, <3>1 DEF AttnInv
        <3>3. Silent(u, AttnOps)
            BY <1>15, <1>16, <3>2, CatSays
        <3>4. Cmd("attn", ses.rx.attn).v = attn
            BY <3>2 DEF Cmd
        <3>5. Ends(B, AttnOps, attn)
            BY <1>3, <1>5, <2>2, <3>4, OneLine DEF AttnOps
        <3>6. Ends(n, AttnOps, attn) /\ ~Silent(B, AttnOps)
            <4>1. ~Silent(B, AttnOps)
                BY <1>3, <1>5, <2>2, OneLine DEF AttnOps
            <4> QED BY <1>6, <1>7, <1>13, <3>5, <4>1, CatSays
        <3>7. Cat(n, u) \in Lines
            BY <1>15, CatProperties
        <3>8. Ends(Cat(n, u), AttnOps, attn) /\ ~Silent(Cat(n, u), AttnOps)
            BY <1>15, <1>18, <3>3, <3>6, CatSays
        <3>9. Ends(Cat(s, Cat(n, u)), AttnOps, attn)
            BY <1>15, <3>7, <3>8, CatSays
        <3>10. ASSUME ~kiwi.configured PROVE Covered(Cat(s, Cat(n, u)), AttnOps)
            <4>1. HasSetup(Way)
                BY <1>0, <2>2, <3>10, CatSays DEF FreqInv, Arrives
            <4>2. h = <<>>
                <5>1. SetsUp(t) \/ ses'.configured
                    BY <1>1, <3>1
                <5> QED BY <1>9, <1>10, <5>1 DEF Held
            <4>3. u = chan
                BY <1>0, <1>14, <4>2, CatProperties
            <4>4. HasSetup(s)
                BY <1>15, <1>16, <4>1, <4>3, CatSays DEF SettingInv
            <4> QED BY <1>15, <3>7, <3>8, <4>4, CatSays
        <3> QED BY <1>17, <3>1, <3>9, <3>10 DEF AttnInv, Arrives
    <2> QED BY <2>1, <2>2
<1>21. ASSUME ~ses'.configured
       PROVE  ~kiwi'.configured /\ ~HasSetup(up') /\ ~HasSetup(out')
    <2>1. ~ses.configured /\ ~t.rate
        BY <1>1, <1>21
    <2>2. Replies(t) = <<>>
        BY <2>1, RepliesType, LimitAssumption
    <2>3. up' = up /\ out' = <<>>
        BY <1>0, <2>2, CatProperties
    <2> QED BY <2>1, <2>3 DEF SettingInv
<1> QED BY <1>19, <1>20, <1>21 DEF SettingInv, Web

LEMMA SettingStep ==
    ASSUME SesType, CountType, CommandType, DownType, KiwiType, PlaceType, ReaderInv,
           SettingInv, [Next]_vars
    PROVE  SettingInv'
<1>0. ASSUME ReaderText \/ (OnMessage /\ Head(down).kind = "text")
      PROVE  OnText(Head(down).text) /\ Head(down).text.rate \in BOOLEAN
    <2>1. down # <<>> /\ Head(down).kind = "text"
        BY <1>0 DEF ReaderText, OnMessage
    <2>2. Head(down).text \in Texts
        BY <2>1, TextIs
    <2>3. \A t \in Texts : t.rate \in BOOLEAN
        <3>1. \A rej, rate, att : Text(rej, rate, att).rate = rate
            BY DEF Text
        <3>2. ASSUME NEW t \in Texts
              PROVE  \E rej : \E rate, att \in BOOLEAN : t = Text(rej, rate, att)
            BY DEF Texts
        <3> QED BY <3>1, <3>2
    <2>4. OnText(Head(down).text)
        BY <1>0, <2>1 DEF ReaderText, OnMessage
    <2> QED BY <2>2, <2>3, <2>4
<1>1. CASE OpenNative \/ OpenWeb
    BY <1>1, SettingOpens
<1>2. CASE Tune \/ SetRfAttn
    BY <1>2, SettingAsked
<1>3. CASE JoinReader \/ StopWeb
    <2>1. chan' = <<>> /\ sock' \notin {"open", "connecting"}
        BY <1>3, Builds DEF JoinReader, StopWeb, ReaderEnded, ReaderInv, PlaceType, wire
    <2> QED BY <2>1, SettingEnds
<1>4. CASE OpenFails \/ StopNative
    BY <1>4, SettingStays DEF OpenFails, StopNative, source, wire
<1>5. CASE ReaderTop
    <2>1. CASE Gone
        BY <1>5, <2>1, SettingEnds DEF ReaderTop, Gone
    <2>2. CASE ~Gone
        BY <1>5, <2>2, SettingStays DEF ReaderTop, source
    <2> QED BY <2>1, <2>2
<1>6. CASE ReaderTake
    BY <1>6, SettingTaken
<1>7. CASE ReaderDrained \/ ReaderSnd \/ ReaderIdle
    BY <1>7, SettingStays DEF ReaderDrained, ReaderSnd, ReaderIdle, source, wire
<1>8. CASE ReaderSendFails \/ ReaderClosed \/ ReaderLost
    BY <1>8, SettingEnds DEF ReaderSendFails, ReaderClosed, ReaderLost, Gone
<1>9. CASE ReaderText
    <2>1. /\ out = <<>> /\ chan' = chan /\ sock' = sock /\ transport' = transport
          /\ kiwi' = kiwi /\ freq' = freq /\ attn' = attn /\ early' = early
          /\ up' = up /\ out' = Replies(Head(down).text) /\ sock # "connecting"
        BY <1>9, Builds DEF ReaderText, ReaderInv, PlaceType
    <2>2. CASE sock = "open"
        BY <1>0, <1>9, <2>1, <2>2, SettingText
    <2>3. CASE sock # "open"
        BY <2>1, <2>3, SettingEnds
    <2> QED BY <2>2, <2>3
<1>10. CASE ReaderReply
    BY <1>10, SettingReplied
<1>11. CASE OnOpen
    BY <1>11, SettingOnOpen
<1>12. CASE OnMessage
    <2>1. /\ out' = out /\ chan' = chan /\ sock' = sock /\ transport' = transport
          /\ kiwi' = kiwi /\ freq' = freq /\ attn' = attn /\ early' = early
          /\ out = <<>> /\ sock # "connecting"
        BY <1>12 DEF OnMessage, ReaderInv
    <2>2. CASE sock = "open" /\ Head(down).kind = "text"
        <3>1. Sent(Replies(Head(down).text))
            BY <1>12, <2>2 DEF OnMessage
        <3>2. up' = Cat(up, Replies(Head(down).text))
            BY <2>2, <3>1 DEF Sent, Cat
        <3> QED BY <1>0, <1>12, <2>1, <2>2, <3>2, SettingText
    <2>3. CASE sock = "open" /\ Head(down).kind # "text"
        <3>1. ses' = ses /\ up' = up
            BY <1>12, <2>3 DEF OnMessage
        <3> QED BY <2>1, <3>1, SettingStays
    <2>4. CASE sock # "open"
        BY <2>1, <2>4, SettingEnds
    <2> QED BY <2>2, <2>3, <2>4
<1>13. CASE OnError \/ OnClose
    BY <1>13, SettingEnds DEF OnError, OnClose
<1>14. CASE KiwiTakes
    BY <1>14, SettingHeard
<1>15. CASE AbandonedEvent \/ KiwiSays
    BY <1>15, SettingStays DEF AbandonedEvent, KiwiSays, source, wire
<1>16. CASE KiwiCloses \/ WireBreaks
    BY <1>16, SettingEnds DEF KiwiCloses, WireBreaks
<1>17. CASE UNCHANGED vars
    BY <1>17, SettingStays DEF vars, source, wire
<1> QED BY <1>1, <1>2, <1>3, <1>4, <1>5, <1>6, <1>7, <1>8, <1>9, <1>10, <1>11, <1>12,
           <1>13, <1>14, <1>15, <1>16, <1>17
        DEF Next, Engine, Reader, Callback, World, Over

LEMMA InitSetting == Init => SettingInv
<1>1. ~HasSetup(<<>>)
    BY Nothing
<1> QED BY <1>1 DEF Init, SettingInv

(* Whatever way the commands go, through the channel, the list the session *)
(* holds and its replies, a link that has settled leaves the receiver tuned *)
(* and attenuated as the source was last told (session.rs:133, reader.rs).  *)
THEOREM LastWins == Spec => []LastSettingWins
<1>1. Init => IInv /\ SettingInv
    BY InitIInv, InitSetting
<1>2. IInv /\ SettingInv /\ [Next]_vars => (IInv /\ SettingInv)'
    <2>1. IInv => SesType /\ CountType /\ CommandType /\ DownType /\ KiwiType
                  /\ PlaceType /\ ReaderInv
        BY TypeParts DEF IInv
    <2> QED BY <2>1, StepIInv, SettingStep
<1>3. IInv /\ SettingInv => LastSettingWins
    <2> SUFFICES ASSUME IInv, SettingInv, Settled, kiwi.configured, ~early
                 PROVE  kiwi.freq = freq /\ (ses.attnApplied => kiwi.attn = attn)
        BY DEF LastSettingWins
    <2>1. /\ up = <<>> /\ chan = <<>> /\ out = <<>> /\ ses.configured
          /\ FreqInv /\ AttnInv
        BY DEF Settled, SettingInv
    <2>2. Way = Cat(<<>>, Cat(<<>>, Cat(<<>>, <<>>)))
        BY <2>1 DEF Way, Held
    <2>3. Way = <<>>
        BY <2>2, CatProperties
    <2>4. \A ops, v : ~Ends(<<>>, ops, v)
        BY Nothing
    <2> QED BY <2>1, <2>3, <2>4 DEF FreqInv, AttnInv, Arrives
<1> QED BY <1>1, <1>2, <1>3, PTL DEF Spec
=============================================================================
