------------------------- MODULE LiveControls_proofs -------------------------
(***************************************************************************)
(* Proofs about LiveControls for any kinds of receivers, changes, connects *)
(* and losses.                                                             *)
(***************************************************************************)
EXTENDS LiveControls, SequenceTheorems, TLAPS

OnOff == {"off", "on"}
States == {"Disconnected", "Connecting", "Streaming", "Reconnecting"}
Snapshots == [state : States, kiwi : BOOLEAN, attn : BOOLEAN]
Requests == [kind : Kinds, c : [Controls -> OnOff], center : {0, 1}, ask : Nat \ {0}]
Receivers == [kind : Kinds, center : {0, 1}, ask : Nat \ {0}, again : BOOLEAN,
              attn : BOOLEAN, wish : Values, c : [Controls -> Values]]
Openings == [req : Requests, again : BOOLEAN]
Connects == [op : {"connect"}, req : Requests]
Tunes == [op : {"tune"}, center : {0, 1}]
Sets == [op : {"set"}, control : Controls, value : OnOff, live : {TRUE}]
Orders == Connects \cup Tunes \cup Sets \cup [op : {"disconnect"}]

PanelType ==
    /\ form \in [kind : Kinds, c : [Controls -> OnOff], center : {0, 1}]
    /\ last \in [c : [Controls -> OnOff], center : {0, 1}, attn : BOOLEAN]
    /\ recent \in Requests \cup {NoConn}
    /\ seen \in Snapshots
    /\ asked \in Nat
EngineType ==
    /\ request \in Requests \cup {NoConn}
    /\ conn \in Receivers \cup {NoConn}
    /\ opening \in Seq(Openings)
    /\ state \in States
    /\ excused \subseteq Controls \cup {"center"}
LineType == queue \in Seq(Orders)
Types == PanelType /\ EngineType /\ LineType

(* Of the orders in q that are in P the last one is in Q; none is in P; an *)
(* order in Q is the last one in P.                                        *)
LastIn(q, P, Q) ==
    \E i \in 1..Len(q) : q[i] \in Q /\ \A j \in (i + 1)..Len(q) : q[j] \notin P
NoneIn(q, P) == \A i \in 1..Len(q) : q[i] \notin P
OnlyLast(q, P, Q) ==
    \A i \in 1..Len(q) : q[i] \in Q => \A j \in (i + 1)..Len(q) : q[j] \notin P

(* The connects the user asked for come in order. The last one is the one  *)
(* that counts: until it is handled nothing in the engine stems from it,   *)
(* and while it is being opened no device is open.                         *)
Newest == {m \in Connects : m.req.ask = asked}
Future == {m \in Connects : m.req.ask > asked}
AskInv ==
    /\ NoneIn(queue, Future)
    /\ request # NoConn => request.ask <= asked
    /\ conn # NoConn => conn.ask <= asked
    /\ \A i \in 1..Len(opening) : opening[i].req.ask <= asked
    /\ LastIn(queue, Connects, Newest) \/ NoneIn(queue, Connects)
    /\ OnlyLast(queue, Connects, Newest)
    /\ ~NoneIn(queue, Connects) =>
          /\ request # NoConn => request.ask # asked
          /\ conn # NoConn => conn.ask # asked
          /\ \A i \in 1..Len(opening) : opening[i].req.ask # asked
    /\ \A i \in 1..Len(opening) :
          opening[i].req.ask = asked => i = Len(opening) /\ conn = NoConn

(* The centre that was sent last is on its way, or it is what the request, *)
(* the receiver that was asked for last and its opening have.              *)
CenterOrders == Connects \cup Tunes
CenterSent ==
    {m \in Connects : m.req.center = last.center}
        \cup {m \in Tunes : m.center = last.center}
CenterKept ==
    /\ request # NoConn => request.center = last.center
    /\ "center" \notin excused =>
          /\ conn # NoConn /\ conn.ask = asked => conn.center = last.center
          /\ \A i \in 1..Len(opening) :
                opening[i].req.ask = asked => opening[i].req.center = last.center
CenterInv ==
    \/ LastIn(queue, CenterOrders, CenterSent)
    \/ NoneIn(queue, CenterOrders) /\ CenterKept

(* The same of a control: what was sent last is on its way, or the last    *)
(* connect is, or the receiver has it. A Kiwi's attenuator is sent once    *)
(* the Kiwi was seen to have one.                                          *)
About(c) == Connects \cup {m \in Sets : m.control = c}
Wants(req, c) == IF c = "rf_attn" THEN ~last.attn ELSE req.c[c] = last.c[c]
Says(c) ==
    {m \in Connects : Wants(m.req, c)}
        \cup {m \in Sets : m.control = c /\ m.value = last.c[c]}
DeviceAgrees(c) ==
    conn # NoConn /\ conn.ask = asked /\ ~conn.again /\ c \in Of(conn.kind) =>
        IF c = "rf_attn" THEN last.attn => conn.c[c] = last.c[c]
                         ELSE conn.c[c] \in {last.c[c], Unset}
OpeningAgrees(c) ==
    \A i \in 1..Len(opening) :
        opening[i].req.ask = asked /\ ~opening[i].again => Wants(opening[i].req, c)
Agrees(c) == c \notin excused => DeviceAgrees(c) /\ OpeningAgrees(c)
Follows(c) ==
    \/ LastIn(queue, About(c), Says(c))
    \/ NoneIn(queue, About(c)) /\ Agrees(c)
Followed == Controls \ {"rf_agc", "hf_agc"}
ControlInv == \A c \in Followed : Follows(c)

ControlsInv == Types /\ AskInv /\ CenterInv /\ ControlInv
-----------------------------------------------------------------------------
(* Sequences of orders, put one behind the other. *)
Lines == Seq(Orders)
Cat(s, t) == s \o t

LEMMA CatProperties ==
    /\ <<>> \in Lines
    /\ \A a \in Lines : Cat(a, <<>>) = a /\ Cat(<<>>, a) = a
    /\ \A a, b \in Lines : Cat(a, b) \in Lines
    /\ \A a, b, c \in Lines : Cat(a, Cat(b, c)) = Cat(Cat(a, b), c)
<1> USE DEF Cat
<1>1. \A a \in Lines : a \o <<>> = a /\ <<>> \o a = a
    BY ConcatEmptySeq DEF Lines
<1>2. \A a, b \in Lines : a \o b \in Lines
    BY ConcatProperties DEF Lines
<1>3. \A a, b, c \in Lines : a \o (b \o c) = (a \o b) \o c
    BY ConcatAssociative DEF Lines
<1> QED BY <1>1, <1>2, <1>3, EmptySeq DEF Lines

LEMMA Joined ==
    ASSUME NEW s \in Lines, NEW t \in Lines, NEW P, NEW Q
    PROVE  /\ NoneIn(Cat(s, t), P) <=> NoneIn(s, P) /\ NoneIn(t, P)
           /\ LastIn(t, P, Q) => LastIn(Cat(s, t), P, Q)
           /\ LastIn(s, P, Q) /\ NoneIn(t, P) => LastIn(Cat(s, t), P, Q)
           /\ OnlyLast(s, P, Q) /\ NoneIn(t, P) /\ NoneIn(t, Q)
                => OnlyLast(Cat(s, t), P, Q)
           /\ NoneIn(s, Q) /\ OnlyLast(t, P, Q) => OnlyLast(Cat(s, t), P, Q)
<1>0. PICK w : w = Cat(s, t)
    OBVIOUS
<1>1. /\ w = Cat(s, t) /\ Len(w) = Len(s) + Len(t)
      /\ \A i \in 1..(Len(s) + Len(t)) :
             w[i] = IF i <= Len(s) THEN s[i] ELSE t[i - Len(s)]
    BY <1>0, ConcatProperties DEF Cat, Lines
<1>2. Len(s) \in Nat /\ Len(t) \in Nat
    BY LenProperties DEF Lines
<1>3. \A i \in 1..Len(s) : i \in 1..Len(w) /\ w[i] = s[i]
    BY <1>1, <1>2
<1>4. \A i \in 1..Len(t) : Len(s) + i \in 1..Len(w) /\ w[Len(s) + i] = t[i]
    <2>1. \A i \in 1..Len(t) : /\ Len(s) + i \in 1..(Len(s) + Len(t))
                               /\ ~(Len(s) + i <= Len(s)) /\ (Len(s) + i) - Len(s) = i
        BY <1>2
    <2> QED BY <1>1, <2>1
<1>5. \A k \in 1..Len(w) : k \in 1..Len(s) \/ \E i \in 1..Len(t) : k = Len(s) + i
    <2>1. ASSUME NEW k \in 1..Len(w), k \notin 1..Len(s)
          PROVE  k - Len(s) \in 1..Len(t) /\ k = Len(s) + (k - Len(s))
        BY <1>1, <1>2, <2>1
    <2> QED BY <2>1
<1>6. NoneIn(w, P) <=> NoneIn(s, P) /\ NoneIn(t, P)
    BY <1>3, <1>4, <1>5 DEF NoneIn
<1>7. ASSUME NEW i \in 1..Len(t)
      PROVE  (\A j \in (i + 1)..Len(t) : t[j] \notin P)
                <=> (\A j \in (Len(s) + i + 1)..Len(w) : w[j] \notin P)
    <2>1. \A k \in (Len(s) + i + 1)..Len(w) :
              k - Len(s) \in (i + 1)..Len(t) /\ k = Len(s) + (k - Len(s))
              /\ k - Len(s) \in 1..Len(t)
        BY <1>1, <1>2
    <2>2. \A j \in (i + 1)..Len(t) :
              j \in 1..Len(t) /\ Len(s) + j \in (Len(s) + i + 1)..Len(w)
        BY <1>1, <1>2
    <2> QED BY <1>4, <2>1, <2>2
<1>8. ASSUME NEW i \in 1..Len(s), NoneIn(t, P), \A j \in (i + 1)..Len(s) : s[j] \notin P
      PROVE  \A j \in (i + 1)..Len(w) : w[j] \notin P
    <2>1. \A k \in (i + 1)..Len(w) : k \in 1..Len(w) /\ k >= i + 1
        BY <1>1, <1>2
    <2>2. \A k \in (i + 1)..Len(w) : k \in 1..Len(s) => k \in (i + 1)..Len(s)
        BY <1>2
    <2>3. ASSUME NEW k \in (i + 1)..Len(w) PROVE w[k] \notin P
        <3>1. CASE k \in 1..Len(s)
            BY <1>3, <1>8, <2>2, <3>1
        <3>2. CASE k \notin 1..Len(s)
            <4>1. PICK l \in 1..Len(t) : k = Len(s) + l
                BY <1>5, <2>1, <3>2
            <4> QED BY <1>4, <1>8, <4>1 DEF NoneIn
        <3> QED BY <3>1, <3>2
    <2> QED BY <2>3
<1>9. LastIn(t, P, Q) => LastIn(w, P, Q)
    BY <1>4, <1>7 DEF LastIn
<1>10. LastIn(s, P, Q) /\ NoneIn(t, P) => LastIn(w, P, Q)
    BY <1>3, <1>8 DEF LastIn
<1>11. OnlyLast(s, P, Q) /\ NoneIn(t, P) /\ NoneIn(t, Q) => OnlyLast(w, P, Q)
    <2>1. ASSUME OnlyLast(s, P, Q), NoneIn(t, P), NoneIn(t, Q),
                 NEW k \in 1..Len(w), w[k] \in Q
          PROVE  \A j \in (k + 1)..Len(w) : w[j] \notin P
        <3>1. CASE k \in 1..Len(s)
            BY <1>3, <1>8, <2>1, <3>1 DEF OnlyLast
        <3>2. CASE k \notin 1..Len(s)
            <4>1. PICK l \in 1..Len(t) : k = Len(s) + l
                BY <1>5, <3>2
            <4> QED BY <1>4, <2>1, <4>1 DEF NoneIn
        <3> QED BY <3>1, <3>2
    <2> QED BY <2>1 DEF OnlyLast
<1>12. NoneIn(s, Q) /\ OnlyLast(t, P, Q) => OnlyLast(w, P, Q)
    <2>1. ASSUME NoneIn(s, Q), OnlyLast(t, P, Q), NEW k \in 1..Len(w), w[k] \in Q
          PROVE  \A j \in (k + 1)..Len(w) : w[j] \notin P
        <3>1. CASE k \in 1..Len(s)
            BY <1>3, <2>1, <3>1 DEF NoneIn
        <3>2. CASE k \notin 1..Len(s)
            <4>1. PICK l \in 1..Len(t) : k = Len(s) + l
                BY <1>5, <3>2
            <4> QED BY <1>4, <1>7, <2>1, <4>1 DEF OnlyLast
        <3> QED BY <3>1, <3>2
    <2> QED BY <2>1 DEF OnlyLast
<1> QED BY <1>1, <1>6, <1>9, <1>10, <1>11, <1>12

LEMMA Single ==
    ASSUME NEW m \in Orders, NEW P, NEW Q
    PROVE  /\ <<m>> \in Lines
           /\ NoneIn(<<m>>, P) <=> m \notin P
           /\ LastIn(<<m>>, P, Q) <=> m \in Q
           /\ OnlyLast(<<m>>, P, Q)
<1>0. PICK s : s = <<m>>
    OBVIOUS
<1>1. s = <<m>> /\ s \in Seq(Orders) /\ Len(s) = 1 /\ s[1] = m
    BY <1>0
<1>2. /\ \A i : i \in 1..1 <=> i = 1
      /\ (1 + 1)..1 = {}
    OBVIOUS
<1> QED BY <1>1, <1>2 DEF NoneIn, LastIn, OnlyLast, Lines

LEMMA Nothing ==
    ASSUME NEW P, NEW Q
    PROVE  NoneIn(<<>>, P) /\ ~LastIn(<<>>, P, Q) /\ OnlyLast(<<>>, P, Q)
<1>1. Len(<<>>) = 0
    BY EmptySeq
<1> QED BY <1>1 DEF NoneIn, LastIn, OnlyLast

(* The first order is taken. *)
LEMMA Taken ==
    ASSUME NEW q \in Lines, q # <<>>, NEW P, NEW Q
    PROVE  /\ Head(q) \in Orders /\ Tail(q) \in Lines
           /\ NoneIn(q, P) <=> Head(q) \notin P /\ NoneIn(Tail(q), P)
           /\ LastIn(q, P, Q) <=>
                 LastIn(Tail(q), P, Q) \/ (Head(q) \in Q /\ NoneIn(Tail(q), P))
           /\ OnlyLast(q, P, Q) =>
                 OnlyLast(Tail(q), P, Q) /\ (Head(q) \in Q => NoneIn(Tail(q), P))
<1>1. PICK t : t = Tail(q)
    OBVIOUS
<1>2. /\ Head(q) \in Orders /\ t \in Seq(Orders) /\ t = Tail(q) /\ Len(t) = Len(q) - 1
      /\ \A i \in 1..Len(t) : t[i] = q[i + 1]
    BY <1>1, HeadTailProperties DEF Lines
<1>3. Len(q) \in Nat /\ Len(q) >= 1 /\ Len(t) \in Nat /\ Head(q) = q[1]
    BY <1>2, LenProperties, EmptySeq DEF Lines
<1>4. /\ \A i \in 1..Len(t) : i + 1 \in 1..Len(q) /\ q[i + 1] = t[i]
      /\ 1 \in 1..Len(q)
    BY <1>2, <1>3
<1>5. \A k \in 1..Len(q) : k = 1 \/ \E i \in 1..Len(t) : k = i + 1
    <2>1. ASSUME NEW k \in 1..Len(q), k # 1 PROVE k - 1 \in 1..Len(t) /\ k = (k - 1) + 1
        BY <1>2, <1>3, <2>1
    <2> QED BY <2>1
<1>6. NoneIn(q, P) <=> Head(q) \notin P /\ NoneIn(t, P)
    BY <1>3, <1>4, <1>5 DEF NoneIn
<1>7. ASSUME NEW i \in 1..Len(t)
      PROVE  (\A j \in (i + 1)..Len(t) : t[j] \notin P)
                <=> (\A j \in ((i + 1) + 1)..Len(q) : q[j] \notin P)
    <2>1. \A k \in ((i + 1) + 1)..Len(q) :
              k - 1 \in (i + 1)..Len(t) /\ k = (k - 1) + 1 /\ k - 1 \in 1..Len(t)
        BY <1>2, <1>3
    <2>2. \A j \in (i + 1)..Len(t) : j \in 1..Len(t) /\ j + 1 \in ((i + 1) + 1)..Len(q)
        BY <1>2, <1>3
    <2> QED BY <1>4, <2>1, <2>2
<1>8. NoneIn(t, P) <=> \A j \in (1 + 1)..Len(q) : q[j] \notin P
    <2>1. \A k \in (1 + 1)..Len(q) : k - 1 \in 1..Len(t) /\ k = (k - 1) + 1
        BY <1>2, <1>3
    <2>2. \A j \in 1..Len(t) : j + 1 \in (1 + 1)..Len(q)
        BY <1>2, <1>3
    <2> QED BY <1>4, <2>1, <2>2 DEF NoneIn
<1>9. LastIn(t, P, Q) \/ (Head(q) \in Q /\ NoneIn(t, P)) => LastIn(q, P, Q)
    BY <1>3, <1>4, <1>7, <1>8 DEF LastIn
<1>10. ASSUME LastIn(q, P, Q) PROVE LastIn(t, P, Q) \/ (Head(q) \in Q /\ NoneIn(t, P))
    <2>1. PICK k \in 1..Len(q) : q[k] \in Q /\ \A j \in (k + 1)..Len(q) : q[j] \notin P
        BY <1>10 DEF LastIn
    <2>2. CASE k = 1
        BY <1>3, <1>8, <2>1, <2>2
    <2>3. CASE k # 1
        <3>1. PICK i \in 1..Len(t) : k = i + 1
            BY <1>5, <2>3
        <3> QED BY <1>4, <1>7, <2>1, <3>1 DEF LastIn
    <2> QED BY <2>2, <2>3
<1>11. ASSUME OnlyLast(q, P, Q)
       PROVE  OnlyLast(t, P, Q) /\ (Head(q) \in Q => NoneIn(t, P))
    <2>1. OnlyLast(t, P, Q)
        BY <1>4, <1>7, <1>11 DEF OnlyLast
    <2>2. Head(q) \in Q => NoneIn(t, P)
        BY <1>3, <1>4, <1>8, <1>11 DEF OnlyLast
    <2> QED BY <2>1, <2>2
<1> QED BY <1>2, <1>6, <1>9, <1>10, <1>11 DEF Lines

(* A wider set of good last ones. *)
LEMMA Wider ==
    ASSUME NEW q, NEW P, NEW Q, NEW R, LastIn(q, P, Q), Q \subseteq R
    PROVE  LastIn(q, P, R)
BY DEF LastIn

(* The last opening, and those before it. *)
LEMMA FrontAndLast ==
    ASSUME NEW S, NEW s \in Seq(S), s # <<>>
    PROVE  /\ Last(s) \in S /\ Last(s) = s[Len(s)] /\ Len(s) \in 1..Len(s)
           /\ Front(s) \in Seq(S) /\ Len(Front(s)) = Len(s) - 1
           /\ \A i \in 1..Len(Front(s)) : i \in 1..Len(s) /\ i # Len(s) /\ Front(s)[i] = s[i]
<1>1. Len(s) \in Nat /\ Len(s) >= 1 /\ \A i \in 1..Len(s) : s[i] \in S
    BY LenProperties, EmptySeq, ElementOfSeq
<1>2. ASSUME NEW a \in Int, NEW b \in Int, \A i \in a..b : s[i] \in S
      PROVE  /\ SubSeq(s, a, b) \in Seq(S)
             /\ Len(SubSeq(s, a, b)) = IF a <= b THEN b - a + 1 ELSE 0
             /\ \A i \in 1..(b - a + 1) : SubSeq(s, a, b)[i] = s[a + i - 1]
    BY <1>2, SubSeqProperties
<1>3. PICK n : n = Len(s) - 1
    OBVIOUS
<1>4. n \in Nat /\ Len(s) = n + 1 /\ \A i \in 1..n : s[i] \in S
    BY <1>1, <1>3
<1>5. PICK f : f = SubSeq(s, 1, n)
    OBVIOUS
<1>6. /\ f \in Seq(S) /\ Len(f) = IF 1 <= n THEN n - 1 + 1 ELSE 0
      /\ \A i \in 1..(n - 1 + 1) : f[i] = s[1 + i - 1]
    BY <1>2, <1>4, <1>5
<1>7. Len(f) = n /\ \A i \in 1..n : f[i] = s[i]
    BY <1>4, <1>6
<1>8. \A i \in 1..n : i \in 1..Len(s) /\ i # Len(s)
    BY <1>4
<1>9. f = Front(s) /\ Last(s) = s[Len(s)] /\ Len(s) \in 1..Len(s)
    BY <1>1, <1>3, <1>5 DEF Front, Last
<1> QED BY <1>1, <1>3, <1>6, <1>7, <1>8, <1>9
-----------------------------------------------------------------------------
(* The names of the controls, and the kinds of orders. *)
LEMMA PanelIs ==
    /\ Of("kiwi") = {"rf_agc", "man_gain", "rf_attn"}
    /\ Of("airspy") = {"hf_agc", "att"}
    /\ Of("rtlsdr") = {"manual", "tuner_gain", "ppm"}
    /\ Of("qmx") = {"rf_gain"}
    /\ Of("soapy") = {"agc", "gain", "antenna"}
    /\ \A k \in SourceKind : DOMAIN Panel[k] \subseteq {1, 2, 3}
<1>1. ASSUME NEW p, DOMAIN p = {1} PROVE ToSet(p) = {p[1]}
    BY <1>1 DEF ToSet
<1>2. ASSUME NEW p, DOMAIN p = {1, 2} PROVE ToSet(p) = {p[1], p[2]}
    BY <1>2 DEF ToSet
<1>3. ASSUME NEW p, DOMAIN p = {1, 2, 3} PROVE ToSet(p) = {p[1], p[2], p[3]}
    BY <1>3 DEF ToSet
<1>4. Of("kiwi") = {"rf_agc", "man_gain", "rf_attn"}
    <2>1. PICK p : p = Panel["kiwi"]
        OBVIOUS
    <2>2. DOMAIN p = {1, 2, 3} /\ p[1] = "rf_agc" /\ p[2] = "man_gain" /\ p[3] = "rf_attn"
        BY <2>1 DEF Panel
    <2> QED BY <1>3, <2>1, <2>2 DEF Of
<1>5. Of("airspy") = {"hf_agc", "att"}
    <2>1. PICK p : p = Panel["airspy"]
        OBVIOUS
    <2>2. DOMAIN p = {1, 2} /\ p[1] = "hf_agc" /\ p[2] = "att"
        BY <2>1 DEF Panel
    <2> QED BY <1>2, <2>1, <2>2 DEF Of
<1>6. Of("rtlsdr") = {"manual", "tuner_gain", "ppm"}
    <2>1. PICK p : p = Panel["rtlsdr"]
        OBVIOUS
    <2>2. DOMAIN p = {1, 2, 3} /\ p[1] = "manual" /\ p[2] = "tuner_gain" /\ p[3] = "ppm"
        BY <2>1 DEF Panel
    <2> QED BY <1>3, <2>1, <2>2 DEF Of
<1>7. Of("qmx") = {"rf_gain"}
    <2>1. PICK p : p = Panel["qmx"]
        OBVIOUS
    <2>2. DOMAIN p = {1} /\ p[1] = "rf_gain"
        BY <2>1 DEF Panel
    <2> QED BY <1>1, <2>1, <2>2 DEF Of
<1>8. Of("soapy") = {"agc", "gain", "antenna"}
    <2>1. PICK p : p = Panel["soapy"]
        OBVIOUS
    <2>2. DOMAIN p = {1, 2, 3} /\ p[1] = "agc" /\ p[2] = "gain" /\ p[3] = "antenna"
        BY <2>1 DEF Panel
    <2> QED BY <1>3, <2>1, <2>2 DEF Of
<1>9. \A k \in SourceKind : DOMAIN Panel[k] \subseteq {1, 2, 3}
    <2>1. PICK p : p = Panel
        OBVIOUS
    <2>2. /\ DOMAIN p["kiwi"] = {1, 2, 3} /\ DOMAIN p["airspy"] = {1, 2}
          /\ DOMAIN p["rtlsdr"] = {1, 2, 3} /\ DOMAIN p["qmx"] = {1}
          /\ DOMAIN p["soapy"] = {1, 2, 3}
        BY <2>1 DEF Panel
    <2> QED BY <2>1, <2>2 DEF SourceKind
<1> QED BY <1>4, <1>5, <1>6, <1>7, <1>8, <1>9

LEMMA Names ==
    /\ "center" \notin Controls
    /\ \A k \in Kinds : Of(k) \subseteq Controls
    /\ "none" \notin Kinds
<1>1. \A k \in SourceKind : "center" \notin Of(k)
    BY PanelIs DEF SourceKind
<1>2. "none" \notin SourceKind
    BY DEF SourceKind
<1> QED BY <1>1, <1>2, KindAssumption DEF Controls

LEMMA OrderIs ==
    ASSUME NEW m \in Orders
    PROVE  /\ m \in Connects <=> m.op = "connect"
           /\ m \in Tunes <=> m.op = "tune"
           /\ m \in Sets <=> m.op = "set"
           /\ m.op = "connect" => m.req \in Requests
           /\ m.op = "tune" => m.center \in {0, 1}
           /\ m.op = "set" => m.control \in Controls /\ m.value \in OnOff /\ m.live = TRUE
BY DEF Orders, Connects, Tunes, Sets

(* What is no receiver and no request. *)
LEMMA NoneOpen ==
    /\ NoConn \notin Requests /\ NoConn \notin Receivers
    /\ ~IsKiwi(NoConn)
BY Names DEF NoConn, Requests, Receivers, IsKiwi
-----------------------------------------------------------------------------
(* What the panel sends. For a control an order with its value goes out, or *)
(* what was sent last stays as it is; the same of the centre.               *)
Sent(c) == {m \in Sets : m.control = c /\ m.value = form.c[c]}

PanelSends ==
    \E t \in Lines :
        /\ queue' = Cat(queue, t) /\ NoneIn(t, Connects)
        /\ \/ NoneIn(t, CenterOrders) /\ last'.center = last.center
           \/ LastIn(t, CenterOrders, {m \in Tunes : m.center = last'.center})
        /\ \A c \in Controls :
              \/ LastIn(t, About(c), {m \in Sets : m.control = c /\ m.value = last'.c[c]})
              \/ /\ NoneIn(t, About(c)) /\ last'.c[c] = last.c[c]
                 /\ c = "rf_attn" /\ last'.attn => last.attn

LEMMA Piece ==
    ASSUME PanelType, NEW s \in Snapshots, NEW controls, ToSet(controls) \subseteq Controls,
           NEW i \in {1, 2, 3}, NEW c
    PROVE  /\ Change(s, controls, i) \in Lines
           /\ NoneIn(Change(s, controls, i), CenterOrders)
           /\ \/ NoneIn(Change(s, controls, i), About(c))
              \/ LastIn(Change(s, controls, i), About(c), Sent(c))
           /\ i \in DOMAIN controls /\ controls[i] = c /\ Due(s, c)
                => LastIn(Change(s, controls, i), About(c), Sent(c))
           /\ ~(c \in ToSet(controls) /\ Due(s, c)) => NoneIn(Change(s, controls, i), About(c))
<1>1. CASE i \in DOMAIN controls /\ Due(s, controls[i])
    <2>1. controls[i] \in ToSet(controls)
        BY <1>1 DEF ToSet
    <2>2. PICK d : d = controls[i]
        OBVIOUS
    <2>3. d \in Controls /\ Due(s, d)
        BY <1>1, <2>1, <2>2
    <2>4. PICK m : m = Command(s, d)
        OBVIOUS
    <2>5. m \in Sets /\ m.control = d /\ m.value = form.c[d] /\ m.op = "set"
        BY <2>3, <2>4 DEF Command, Due, Live, Sets, PanelType
    <2>6. m \in Orders /\ m \notin Connects /\ m \notin Tunes
        BY <2>5 DEF Orders, Connects, Tunes
    <2>7. Change(s, controls, i) = <<m>>
        BY <1>1, <2>2, <2>4 DEF Change
    <2>8. m \notin CenterOrders
        BY <2>6 DEF CenterOrders
    <2>9. CASE c = d
        <3>1. m \in Sent(c)
            BY <2>5, <2>9 DEF Sent
        <3> QED BY <2>1, <2>2, <2>3, <2>6, <2>7, <2>8, <2>9, <3>1, Single
    <2>10. CASE c # d
        <3>1. m \notin About(c)
            BY <2>5, <2>6, <2>10 DEF About
        <3> QED BY <2>2, <2>6, <2>7, <2>8, <2>10, <3>1, Single
    <2> QED BY <2>9, <2>10
<1>2. CASE ~(i \in DOMAIN controls /\ Due(s, controls[i]))
    <2>1. Change(s, controls, i) = <<>>
        BY <1>2 DEF Change
    <2> QED BY <1>2, <2>1, Nothing, CatProperties
<1> QED BY <1>1, <1>2

LEMMA Sends ==
    ASSUME Types, NEW s \in Snapshots, NEW controls, NEW first \in Lines,
           ToSet(controls) \subseteq Controls, DOMAIN controls \subseteq {1, 2, 3},
           NoneIn(first, Connects), NoneIn(first, Sets),
           first = <<>> \/ LastIn(first, CenterOrders, {m \in Tunes : m.center = form.center}),
           SendDue(s, controls, first)
    PROVE  PanelSends
<1>1. PICK p1 : p1 = Change(s, controls, 1)
    OBVIOUS
<1>2. PICK p2 : p2 = Change(s, controls, 2)
    OBVIOUS
<1>3. PICK p3 : p3 = Change(s, controls, 3)
    OBVIOUS
<1>4. p1 \in Lines /\ p2 \in Lines /\ p3 \in Lines
    BY <1>1, <1>2, <1>3, Piece DEF Types
<1>5. /\ NoneIn(p1, CenterOrders) /\ NoneIn(p2, CenterOrders) /\ NoneIn(p3, CenterOrders)
    BY <1>1, <1>2, <1>3, Piece DEF Types
<1>6. PICK r : r = Cat(p1, Cat(p2, p3))
    OBVIOUS
<1>7. PICK t : t = Cat(first, r)
    OBVIOUS
<1>8. queue \in Lines /\ r \in Lines /\ t \in Lines /\ Cat(p2, p3) \in Lines
    BY <1>4, <1>6, <1>7, CatProperties DEF Types, LineType, Lines
<1>9. queue' = Cat(Cat(Cat(Cat(queue, first), p1), p2), p3)
    BY <1>1, <1>2, <1>3 DEF SendDue, Cat
<1>10. queue' = Cat(queue, t)
    <2>1. Cat(queue, first) \in Lines
        BY <1>8, CatProperties
    <2>2. queue' = Cat(Cat(queue, first), r)
        BY <1>4, <1>6, <1>8, <1>9, <2>1, CatProperties
    <2> QED BY <1>7, <1>8, <2>2, CatProperties
<1>11. NoneIn(r, CenterOrders)
    BY <1>4, <1>5, <1>6, <1>8, Joined
<1>12. NoneIn(t, Connects)
    <2>1. NoneIn(r, Connects)
        BY <1>11 DEF NoneIn, CenterOrders
    <2> QED BY <1>7, <1>8, <2>1, Joined
<1>13. \/ NoneIn(t, CenterOrders) /\ last'.center = last.center
       \/ LastIn(t, CenterOrders, {m \in Tunes : m.center = last'.center})
    <2>1. CASE first = <<>>
        <3>1. last'.center = last.center
            BY <2>1 DEF SendDue
        <3>2. t = r
            BY <1>7, <1>8, <2>1, CatProperties
        <3> QED BY <1>11, <3>1, <3>2
    <2>2. CASE first # <<>>
        <3>1. last'.center = form.center
            BY <2>2 DEF SendDue
        <3>2. PICK Q : Q = {m \in Tunes : m.center = form.center}
            OBVIOUS
        <3>3. LastIn(t, CenterOrders, Q)
            BY <1>7, <1>8, <1>11, <2>2, <3>2, Joined
        <3> QED BY <3>1, <3>2, <3>3
    <2> QED BY <2>1, <2>2
<1>14. ASSUME NEW c \in Controls
       PROVE  \/ LastIn(t, About(c), {m \in Sets : m.control = c /\ m.value = last'.c[c]})
              \/ /\ NoneIn(t, About(c)) /\ last'.c[c] = last.c[c]
                 /\ c = "rf_attn" /\ last'.attn => last.attn
    <2>1. PICK P, Q : P = About(c) /\ Q = Sent(c)
        OBVIOUS
    <2>2. /\ NoneIn(p1, P) \/ LastIn(p1, P, Q)
          /\ NoneIn(p2, P) \/ LastIn(p2, P, Q)
          /\ NoneIn(p3, P) \/ LastIn(p3, P, Q)
        BY <1>1, <1>2, <1>3, <2>1, Piece DEF Types
    <2>3. CASE c \in ToSet(controls) /\ Due(s, c)
        <3>1. PICK i \in DOMAIN controls : controls[i] = c
            BY <2>3 DEF ToSet
        <3>2. LastIn(p1, P, Q) \/ LastIn(p2, P, Q) \/ LastIn(p3, P, Q)
            <4>1. i \in {1, 2, 3}
                BY <3>1
            <4>2. LastIn(Change(s, controls, i), P, Q)
                BY <2>1, <2>3, <3>1, <4>1, Piece DEF Types
            <4> QED BY <1>1, <1>2, <1>3, <4>1, <4>2
        <3>3. LastIn(t, P, Q)
            <4>1. LastIn(Cat(p2, p3), P, Q) \/ (NoneIn(Cat(p2, p3), P) /\ LastIn(p1, P, Q))
                BY <1>4, <2>2, <3>2, Joined
            <4>2. LastIn(r, P, Q)
                BY <1>4, <1>6, <1>8, <4>1, Joined
            <4> QED BY <1>7, <1>8, <4>2, Joined
        <3>4. last'.c[c] = form.c[c]
            BY <2>3 DEF SendDue
        <3> QED BY <2>1, <3>3, <3>4 DEF Sent
    <2>4. CASE ~(c \in ToSet(controls) /\ Due(s, c))
        <3>1. NoneIn(p1, P) /\ NoneIn(p2, P) /\ NoneIn(p3, P)
            BY <1>1, <1>2, <1>3, <2>1, <2>4, Piece DEF Types
        <3>2. NoneIn(first, P)
            BY <2>1 DEF About, NoneIn
        <3>3. NoneIn(t, P)
            <4>1. NoneIn(Cat(p2, p3), P)
                BY <1>4, <3>1, Joined
            <4>2. NoneIn(r, P)
                BY <1>4, <1>6, <1>8, <3>1, <4>1, Joined
            <4> QED BY <1>7, <1>8, <3>2, <4>2, Joined
        <3>4. last'.c[c] = last.c[c]
            BY <2>4 DEF SendDue
        <3>5. ASSUME c = "rf_attn", last'.attn, ~last.attn PROVE FALSE
            <4>1. /\ form.kind = "kiwi" /\ s.state = "Streaming" /\ "rf_attn" \in ToSet(controls)
                  /\ s.attn
                BY <3>5 DEF SendDue
            <4>2. Due(s, c)
                BY <3>5, <4>1 DEF Due, Live
            <4> QED BY <2>4, <3>5, <4>1, <4>2
        <3> QED BY <2>1, <3>3, <3>4, <3>5
    <2> QED BY <2>3, <2>4
<1> QED BY <1>8, <1>10, <1>12, <1>13, <1>14 DEF PanelSends

(* Steps in which the panel sends, or nothing about the controls happens.  *)
Same == UNCHANGED <<asked, request, conn, opening, excused>>

LEMMA PanelStep ==
    ASSUME Types, UiPoll \/ UiEdit \/ UiApply \/ UiCancel \/ FirstIq \/ UNCHANGED vars
    PROVE  PanelSends /\ Same
<1> USE DEF Same, engine
<1>1. form.kind \in SourceKind /\ form.kind \in Kinds
    BY KindAssumption DEF Types, PanelType
<1>2. /\ Snapshot \in Snapshots
      /\ Snapshot.attn => conn # NoConn /\ conn.kind = "kiwi" /\ conn.kind \in Kinds
    <2>1. CASE conn = NoConn
        BY <2>1, NoneOpen DEF Snapshot, Snapshots, IsKiwi, Types, EngineType
    <2>2. CASE conn # NoConn
        <3>1. conn.kind \in Kinds /\ conn.attn \in BOOLEAN
            BY <2>2 DEF Types, EngineType, Receivers
        <3> QED BY <2>2, <3>1 DEF Snapshot, Snapshots, IsKiwi, Types, EngineType
    <2> QED BY <2>1, <2>2
<1>3. /\ <<>> \in Lines
      /\ \A P : NoneIn(<<>>, P)
      /\ queue \in Lines
    BY CatProperties, Nothing DEF Types, LineType, Lines
<1>4. ASSUME queue' = queue, last' = last PROVE PanelSends
    <2>1. queue' = Cat(queue, <<>>)
        BY <1>3, <1>4, CatProperties
    <2> QED BY <1>3, <1>4, <2>1 DEF PanelSends
<1>5. CASE UiPoll
    <2>1. Same
        BY <1>5 DEF UiPoll
    <2>2. CASE Snapshot.attn /\ ~last.attn /\ form.kind = "kiwi"
        <3>1. PICK p : p = <<"rf_attn">>
            OBVIOUS
        <3>2. DOMAIN p = {1} /\ p[1] = "rf_attn"
            BY <3>1
        <3>3. ToSet(p) = {"rf_attn"} /\ DOMAIN p \subseteq {1, 2, 3}
            BY <3>2 DEF ToSet
        <3>4. "rf_attn" \in Controls
            BY <1>1, <2>2, PanelIs, Names
        <3>5. PICK s : s = Snapshot
            OBVIOUS
        <3>6. SendDue(s, p, <<>>)
            BY <1>5, <2>2, <3>1, <3>5 DEF UiPoll
        <3> QED BY <1>2, <1>3, <2>1, <3>3, <3>4, <3>5, <3>6, Sends
    <2>3. CASE ~(Snapshot.attn /\ ~last.attn /\ form.kind = "kiwi")
        BY <1>4, <1>5, <2>1, <2>3 DEF UiPoll
    <2> QED BY <2>2, <2>3
<1>6. CASE UiApply
    <2>1. Same
        BY <1>6 DEF UiApply
    <2>2. ToSet(Panel[form.kind]) \subseteq Controls /\ DOMAIN Panel[form.kind] \subseteq {1, 2, 3}
        BY <1>1, PanelIs, Names DEF Of
    <2>3. seen \in Snapshots
        BY DEF Types, PanelType
    <2>4. PICK s, p, first : /\ s = seen /\ p = Panel[form.kind]
              /\ first = IF form.center # last.center
                         THEN <<[op |-> "tune", center |-> form.center]>> ELSE <<>>
        OBVIOUS
    <2>5. SendDue(s, p, first)
        BY <1>6, <2>4 DEF UiApply
    <2>6. /\ first \in Lines /\ NoneIn(first, Connects) /\ NoneIn(first, Sets)
          /\ first = <<>> \/ LastIn(first, CenterOrders, {m \in Tunes : m.center = form.center})
        <3>1. CASE form.center # last.center
            <4>1. PICK m : m = [op |-> "tune", center |-> form.center]
                OBVIOUS
            <4>2. m \in Tunes /\ m \in Orders /\ m.center = form.center /\ m.op = "tune"
                BY <4>1 DEF Tunes, Orders, Types, PanelType
            <4>3. m \notin Connects /\ m \notin Sets
                BY <4>2, OrderIs
            <4>4. first = <<m>>
                BY <2>4, <3>1, <4>1
            <4>5. PICK Q : Q = {n \in Tunes : n.center = form.center}
                OBVIOUS
            <4>6. m \in Q
                BY <4>2, <4>5
            <4> QED BY <4>2, <4>3, <4>4, <4>5, <4>6, Single
        <3>2. CASE ~(form.center # last.center)
            BY <1>3, <2>4, <3>2
        <3> QED BY <3>1, <3>2
    <2> QED BY <2>1, <2>2, <2>3, <2>4, <2>5, <2>6, Sends
<1>7. CASE UiCancel
    <2>1. PICK m : m = [op |-> "disconnect"]
        OBVIOUS
    <2>2. m \in Orders /\ m.op = "disconnect"
        BY <2>1 DEF Orders
    <2>3. m \notin Connects /\ m \notin Tunes /\ m \notin Sets
        BY <2>2, OrderIs
    <2>4. queue' = Cat(queue, <<m>>) /\ last' = last
        <3>1. Append(queue, m) = queue \o <<m>>
            BY <2>2, AppendIsConcat DEF Types, LineType
        <3> QED BY <1>7, <2>1, <3>1 DEF UiCancel, Cat
    <2>5. /\ <<m>> \in Lines
          /\ NoneIn(<<m>>, Connects) /\ NoneIn(<<m>>, CenterOrders)
          /\ \A c \in Controls : NoneIn(<<m>>, About(c))
        <3>1. m \notin CenterOrders /\ \A c \in Controls : m \notin About(c)
            BY <2>3 DEF CenterOrders, About
        <3> QED BY <2>2, <2>3, <3>1, Single
    <2>6. Same
        BY <1>7 DEF UiCancel
    <2>7. PICK t : t = <<m>>
        OBVIOUS
    <2> QED BY <2>4, <2>5, <2>6, <2>7 DEF PanelSends
<1>8. CASE UiEdit \/ FirstIq \/ UNCHANGED vars
    BY <1>4, <1>8 DEF UiEdit, FirstIq, ui, vars
<1> QED BY <1>5, <1>6, <1>7, <1>8

(* They keep what is known of the line.                                     *)
LEMMA Sending ==
    ASSUME ControlsInv, PanelSends, Same
    PROVE  AskInv' /\ CenterInv' /\ ControlInv'
<1> USE DEF Same
<1>1. PICK t \in Lines :
        /\ queue' = Cat(queue, t) /\ NoneIn(t, Connects)
        /\ \/ NoneIn(t, CenterOrders) /\ last'.center = last.center
           \/ LastIn(t, CenterOrders, {m \in Tunes : m.center = last'.center})
        /\ \A c \in Controls :
              \/ LastIn(t, About(c), {m \in Sets : m.control = c /\ m.value = last'.c[c]})
              \/ /\ NoneIn(t, About(c)) /\ last'.c[c] = last.c[c]
                 /\ c = "rf_attn" /\ last'.attn => last.attn
    BY DEF PanelSends
<1>2. queue \in Lines /\ queue' = Cat(queue, t)
    BY <1>1 DEF ControlsInv, Types, LineType, Lines
<1>3. AskInv'
    <2>1. Newest' = Newest /\ Future' = Future
        BY DEF Newest, Future
    <2>2. NoneIn(t, Future) /\ NoneIn(t, Newest)
        BY <1>1 DEF NoneIn, Future, Newest
    <2>3. PICK N, F : N = Newest /\ F = Future
        OBVIOUS
    <2>4. /\ NoneIn(queue, F) /\ OnlyLast(queue, Connects, N)
          /\ LastIn(queue, Connects, N) \/ NoneIn(queue, Connects)
        BY <2>3 DEF ControlsInv, AskInv
    <2>5. /\ NoneIn(queue', F) /\ OnlyLast(queue', Connects, N)
          /\ LastIn(queue', Connects, N) \/ NoneIn(queue', Connects)
          /\ ~NoneIn(queue', Connects) => ~NoneIn(queue, Connects)
        BY <1>1, <1>2, <2>2, <2>3, <2>4, Joined
    <2> QED BY <2>1, <2>3, <2>5 DEF ControlsInv, AskInv
<1>4. CenterInv'
    <2>1. CASE LastIn(t, CenterOrders, {m \in Tunes : m.center = last'.center})
        <3>1. PICK Q : Q = {m \in Tunes : m.center = last'.center}
            OBVIOUS
        <3>2. LastIn(queue', CenterOrders, Q)
            BY <1>2, <2>1, <3>1, Joined
        <3>3. LastIn(queue', CenterOrders, CenterSent')
            <4>1. Q \subseteq CenterSent'
                BY <3>1 DEF CenterSent
            <4> QED BY <3>2, <4>1, Wider
        <3> QED BY <3>3 DEF CenterInv
    <2>2. CASE NoneIn(t, CenterOrders) /\ last'.center = last.center
        <3>1. CenterSent' = CenterSent
            BY <2>2 DEF CenterSent
        <3>2. PICK Q : Q = CenterSent
            OBVIOUS
        <3>3. CASE LastIn(queue, CenterOrders, Q)
            <4>1. LastIn(queue', CenterOrders, Q)
                BY <1>2, <2>2, <3>3, Joined
            <4> QED BY <3>1, <3>2, <4>1 DEF CenterInv
        <3>4. CASE NoneIn(queue, CenterOrders) /\ CenterKept
            <4>1. NoneIn(queue', CenterOrders)
                BY <1>2, <2>2, <3>4, Joined
            <4>2. CenterKept'
                BY <2>2, <3>4 DEF CenterKept
            <4> QED BY <4>1, <4>2 DEF CenterInv
        <3> QED BY <3>2, <3>3, <3>4 DEF ControlsInv, CenterInv
    <2> QED BY <1>1, <2>1, <2>2
<1>5. ASSUME NEW c \in Followed PROVE Follows(c)'
    <2>0. c \in Controls /\ Follows(c)
        BY DEF Followed, ControlsInv, ControlInv
    <2>1. PICK P : P = About(c)
        OBVIOUS
    <2>2. CASE LastIn(t, P, {m \in Sets : m.control = c /\ m.value = last'.c[c]})
        <3>1. PICK Q : Q = {m \in Sets : m.control = c /\ m.value = last'.c[c]}
            OBVIOUS
        <3>2. LastIn(queue', P, Q)
            BY <1>2, <2>2, <3>1, Joined
        <3>3. LastIn(queue', P, Says(c)')
            <4>1. Q \subseteq Says(c)'
                BY <3>1 DEF Says
            <4> QED BY <3>2, <4>1, Wider
        <3> QED BY <2>1, <3>3 DEF Follows
    <2>3. CASE /\ NoneIn(t, P) /\ last'.c[c] = last.c[c]
               /\ c = "rf_attn" /\ last'.attn => last.attn
        <3>1. Says(c) \subseteq Says(c)'
            BY <2>3 DEF Says, Wants
        <3>2. PICK Q : Q = Says(c)
            OBVIOUS
        <3>3. CASE LastIn(queue, P, Q)
            <4>1. LastIn(queue', P, Q)
                BY <1>2, <2>3, <3>3, Joined
            <4>2. LastIn(queue', P, Says(c)')
                BY <3>1, <3>2, <4>1, Wider
            <4> QED BY <2>1, <4>2 DEF Follows
        <3>4. CASE NoneIn(queue, P) /\ Agrees(c)
            <4>1. NoneIn(queue', P)
                BY <1>2, <2>3, <3>4, Joined
            <4>2. DeviceAgrees(c) => DeviceAgrees(c)'
                BY <2>3 DEF DeviceAgrees
            <4>3. OpeningAgrees(c) => OpeningAgrees(c)'
                BY <2>3 DEF OpeningAgrees, Wants
            <4> QED BY <2>1, <3>4, <4>1, <4>2, <4>3 DEF Follows, Agrees
        <3> QED BY <2>0, <2>1, <3>2, <3>3, <3>4 DEF Follows
    <2> QED BY <1>1, <2>0, <2>1, <2>2, <2>3
<1> QED BY <1>3, <1>4, <1>5 DEF ControlInv
-----------------------------------------------------------------------------
(* Types. *)
LEMMA PanelTypeStep ==
    ASSUME Types, [Next]_vars
    PROVE  PanelType'
<1> USE DEF Types, PanelType
<1>1. ASSUME NEW s \in Snapshots, NEW controls, NEW first, SendDue(s, controls, first)
      PROVE  last' \in [c : [Controls -> OnOff], center : {0, 1}, attn : BOOLEAN]
    <2>1. (IF form.kind = "kiwi" /\ s.state = "Streaming" /\ "rf_attn" \in ToSet(controls)
           THEN s.attn ELSE last.attn) \in BOOLEAN
        BY DEF Snapshots
    <2>2. [c \in Controls |-> IF c \in ToSet(controls) /\ Due(s, c) THEN form.c[c]
                                                             ELSE last.c[c]]
              \in [Controls -> OnOff]
        OBVIOUS
    <2>3. (IF first = <<>> THEN last.center ELSE form.center) \in {0, 1}
        OBVIOUS
    <2> QED BY <1>1, <2>1, <2>2, <2>3 DEF SendDue
<1>2. Snapshot \in Snapshots
    <2>1. CASE conn = NoConn
        BY <2>1, NoneOpen DEF Snapshot, Snapshots, IsKiwi, EngineType
    <2>2. CASE conn # NoConn
        <3>1. conn.attn \in BOOLEAN
            BY <2>2 DEF EngineType, Receivers
        <3> QED BY <2>2, <3>1 DEF Snapshot, Snapshots, IsKiwi, EngineType
    <2> QED BY <2>1, <2>2
<1>3. CASE UiPoll
    <2>1. PICK s, p, e : s = Snapshot /\ p = <<"rf_attn">> /\ e = <<>>
        OBVIOUS
    <2>2. last' = last \/ SendDue(s, p, e)
        BY <1>3, <2>1 DEF UiPoll
    <2> QED BY <1>1, <1>2, <1>3, <2>1, <2>2 DEF UiPoll
<1>4. CASE UiEdit
    <2>1. \A v \in OnOff : Flip(v) \in OnOff
        BY DEF Flip, OnOff
    <2>2. Of(form.kind) \subseteq Controls
        BY Names
    <2>3. CASE \E c \in Of(form.kind) : form' = [form EXCEPT !.c[c] = Flip(@)]
        BY <1>4, <2>1, <2>2, <2>3 DEF UiEdit
    <2>4. CASE form' = [form EXCEPT !.center = 1 - @]
        BY <1>4, <2>4 DEF UiEdit
    <2>5. CASE \E k \in Kinds \ {form.kind} : form' = [form EXCEPT !.kind = k]
        BY <1>4, <2>5 DEF UiEdit
    <2> QED BY <1>4, <2>3, <2>4, <2>5 DEF UiEdit
<1>5. CASE UiApply
    <2>1. PICK p, e : SendDue(seen, p, e)
        BY <1>5 DEF UiApply
    <2> QED BY <1>1, <1>5, <2>1 DEF UiApply
<1>6. ASSUME NEW f \in [kind : Kinds, c : [Controls -> OnOff], center : {0, 1}],
             ConnectNow(f)
      PROVE  PanelType'
    <2>1. PICK req : req = [kind |-> f.kind, c |-> f.c, center |-> f.center, ask |-> asked + 1]
        OBVIOUS
    <2>2. req \in Requests
        BY <2>1 DEF Requests
    <2>3. [c \in Controls |-> IF c = "rf_agc" THEN Flip(f.c[c]) ELSE f.c[c]]
              \in [Controls -> OnOff]
        BY DEF Flip, OnOff
    <2> QED BY <1>6, <2>1, <2>2, <2>3 DEF ConnectNow
<1>7. CASE UiConnect
    BY <1>6, <1>7 DEF UiConnect
<1>8. CASE UiQuickConnect
    <2>1. recent \in Requests
        BY <1>8 DEF UiQuickConnect
    <2>2. PICK f : f = [form EXCEPT !.kind = recent.kind, !.c = recent.c]
        OBVIOUS
    <2>3. f \in [kind : Kinds, c : [Controls -> OnOff], center : {0, 1}]
        BY <2>1, <2>2 DEF Requests
    <2> QED BY <1>6, <1>8, <2>2, <2>3 DEF UiQuickConnect
<1>9. CASE UiCancel
    BY <1>9 DEF UiCancel
<1>10. CASE Engine \/ UNCHANGED vars
    BY <1>10 DEF Engine, Handle, Open, FirstIq, AttnKnown, LinkLost, Retry, ui, vars
<1> QED BY <1>3, <1>4, <1>5, <1>7, <1>8, <1>9, <1>10 DEF Next, User

LEMMA OpenedType ==
    ASSUME NEW o \in Openings
    PROVE  /\ Opened(o) \in Receivers
           /\ Opened(o).ask = o.req.ask /\ Opened(o).again = o.again
           /\ Opened(o).center = o.req.center
           /\ \A c \in Controls : Opened(o).c[c] \in {o.req.c[c], Unset}
<1>1. o.req \in Requests /\ o.again \in BOOLEAN
    BY DEF Openings
<1>2. PICK r : r = o.req
    OBVIOUS
<1>3. /\ r.kind \in Kinds /\ r.center \in {0, 1} /\ r.ask \in Nat \ {0}
      /\ \A c \in Controls : r.c[c] \in OnOff
    BY <1>1, <1>2 DEF Requests
<1>4. PICK d : d = [c \in Controls |->
                      IF \/ c = "tuner_gain" /\ r.c["manual"] = "off"
                         \/ c = "gain" /\ r.c["agc"] = "on"
                         \/ c = "rf_attn"
                      THEN Unset ELSE r.c[c]]
    OBVIOUS
<1>5. d \in [Controls -> Values] /\ \A c \in Controls : d[c] \in {r.c[c], Unset}
    BY <1>3, <1>4 DEF Values, OnOff
<1>6. PICK w : w = IF r.kind = "kiwi" THEN r.c["rf_attn"] ELSE Unset
    OBVIOUS
<1>7. w \in Values
    <2>1. CASE r.kind = "kiwi"
        <3>1. "rf_attn" \in Controls
            BY <1>3, <2>1, PanelIs, Names
        <3> QED BY <1>3, <1>6, <2>1, <3>1 DEF Values, OnOff
    <2>2. CASE r.kind # "kiwi"
        BY <1>6, <2>2 DEF Values
    <2> QED BY <2>1, <2>2
<1>8. Opened(o) = [kind |-> r.kind, center |-> r.center, ask |-> r.ask,
                   again |-> o.again, attn |-> FALSE, wish |-> w, c |-> d]
    BY <1>2, <1>4, <1>6 DEF Opened
<1> QED BY <1>1, <1>2, <1>3, <1>5, <1>7, <1>8 DEF Receivers

LEMMA EngineTypeStep ==
    ASSUME Types, [Next]_vars
    PROVE  EngineType'
<1> USE DEF Types, EngineType
<1>0. /\ "Connecting" \in States /\ "Disconnected" \in States
      /\ "Streaming" \in States /\ "Reconnecting" \in States
    BY DEF States
<1>1. ASSUME NEW r \in Requests, NEW b \in BOOLEAN, StartConnect(r, b)
      PROVE  opening' \in Seq(Openings) /\ conn' = NoConn /\ state' \in States
    <2>1. [req |-> r, again |-> b] \in Openings
        BY DEF Openings
    <2> QED BY <1>0, <1>1, <2>1, AppendProperties DEF StartConnect
<1>2. CASE Handle
    <2>1. queue \in Lines /\ queue # <<>>
        BY <1>2 DEF Handle, LineType, Lines
    <2>2. PICK m : m = Head(queue)
        OBVIOUS
    <2>3. m \in Orders
        BY <2>1, <2>2, Taken
    <2>4. CASE HandleConnect(m)
        <3>1. m.req \in Requests
            BY <2>3, <2>4, OrderIs DEF HandleConnect
        <3> QED BY <1>1, <2>4, <3>1 DEF HandleConnect
    <2>5. CASE HandleDisconnect(m)
        BY <1>0, <2>5 DEF HandleDisconnect
    <2>6. CASE HandleTune(m)
        <3>1. m.center \in {0, 1}
            BY <2>3, <2>6, OrderIs DEF HandleTune
        <3>2. conn' \in Receivers \cup {NoConn}
            BY <2>6, <3>1 DEF HandleTune, Receivers
        <3>3. request' \in Requests \cup {NoConn}
            BY <2>6, <3>1 DEF HandleTune, Requests
        <3> QED BY <2>6, <3>2, <3>3 DEF HandleTune
    <2>7. CASE HandleSet(m)
        <3>1. m.control \in Controls /\ m.value \in Values
            BY <2>3, <2>7, OrderIs DEF HandleSet, OnOff, Values
        <3>2. conn' \in Receivers \cup {NoConn}
            BY <2>7, <3>1 DEF HandleSet, Receivers
        <3> QED BY <2>7, <3>1, <3>2 DEF HandleSet
    <2> QED BY <1>2, <2>2, <2>4, <2>5, <2>6, <2>7 DEF Handle
<1>3. CASE Open
    <2>1. opening' \in Seq(Openings) /\ Last(opening) \in Openings
        BY <1>3, FrontAndLast DEF Open
    <2>2. Opened(Last(opening)) \in Receivers
        BY <2>1, OpenedType
    <2>3. conn' \in Receivers \cup {NoConn} /\ state' \in States
        BY <1>0, <1>3, <2>2 DEF Open
    <2> QED BY <1>3, <2>1, <2>3 DEF Open
<1>4. CASE AttnKnown
    <2>1. conn \in Receivers
        BY <1>4, NoneOpen DEF AttnKnown
    <2>2. conn' \in Receivers
        BY <1>4, <2>1 DEF AttnKnown, Receivers
    <2>3. "rf_attn" \in Controls
        BY <1>4, <2>1, PanelIs, Names DEF AttnKnown, IsKiwi, Receivers
    <2> QED BY <1>4, <2>2, <2>3 DEF AttnKnown
<1>5. CASE LinkLost
    BY <1>0, <1>5 DEF LinkLost
<1>6. CASE Retry
    <2>1. request \in Requests
        BY <1>6 DEF Retry
    <2> QED BY <1>1, <1>6, <2>1 DEF Retry
<1>7. CASE FirstIq
    BY <1>0, <1>7 DEF FirstIq
<1>8. CASE UiPoll \/ User \/ UiApply \/ UNCHANGED vars
    BY <1>8 DEF UiPoll, User, UiEdit, UiConnect, UiQuickConnect, ConnectNow, UiCancel,
                UiApply, engine, vars
<1> QED BY <1>2, <1>3, <1>4, <1>5, <1>6, <1>7, <1>8 DEF Next, Engine

(* What connect_now asks for.                                               *)
LEMMA Asks ==
    ASSUME Types, NEW f \in [kind : Kinds, c : [Controls -> OnOff], center : {0, 1}],
           ConnectNow(f)
    PROVE  \E m \in Connects :
               /\ queue' = Cat(queue, <<m>>) /\ m \in Orders
               /\ m.req.ask = asked + 1 /\ asked' = asked + 1 /\ asked \in Nat
               /\ m.req.center = last'.center
               /\ ~last'.attn
               /\ \A c \in Controls : c # "rf_agc" => last'.c[c] = m.req.c[c]
               /\ UNCHANGED engine
<1>1. PICK r : r = [kind |-> f.kind, c |-> f.c, center |-> f.center, ask |-> asked + 1]
    OBVIOUS
<1>2. PICK m : m = [op |-> "connect", req |-> r]
    OBVIOUS
<1>3. r \in Requests /\ asked \in Nat
    BY <1>1 DEF Requests, Types, PanelType
<1>4. m \in Connects /\ m \in Orders /\ m.req = r
    BY <1>2, <1>3 DEF Connects, Orders
<1>5. queue' = Append(queue, m)
    BY <1>1, <1>2 DEF ConnectNow
<1>6. queue' = Cat(queue, <<m>>)
    BY <1>4, <1>5, AppendIsConcat DEF Types, LineType, Cat
<1>7. /\ last'.center = f.center /\ last'.attn = FALSE
      /\ \A c \in Controls : c # "rf_agc" => last'.c[c] = f.c[c]
    BY DEF ConnectNow
<1>8. asked' = asked + 1 /\ UNCHANGED engine
    BY DEF ConnectNow
<1>9. r.ask = asked + 1 /\ r.center = f.center /\ r.c = f.c
    BY <1>1
<1>10. /\ m.req.ask = asked + 1 /\ m.req.center = last'.center /\ ~last'.attn
       /\ \A c \in Controls : c # "rf_agc" => last'.c[c] = m.req.c[c]
    BY <1>4, <1>7, <1>9
<1> QED BY <1>3, <1>4, <1>6, <1>8, <1>10

LEMMA Connecting ==
    ASSUME ControlsInv, UiConnect \/ UiQuickConnect
    PROVE  LineType' /\ AskInv' /\ CenterInv' /\ ControlInv'
<1>0. Types
    BY DEF ControlsInv
<1>1. PICK f \in [kind : Kinds, c : [Controls -> OnOff], center : {0, 1}] : ConnectNow(f)
    <2>1. CASE UiConnect
        BY <1>0, <2>1 DEF UiConnect, Types, PanelType
    <2>2. CASE UiQuickConnect
        <3>1. recent \in Requests
            BY <1>0, <2>2 DEF UiQuickConnect, Types, PanelType
        <3>2. PICK f : f = [form EXCEPT !.kind = recent.kind, !.c = recent.c]
            OBVIOUS
        <3>3. f \in [kind : Kinds, c : [Controls -> OnOff], center : {0, 1}]
            BY <1>0, <3>1, <3>2 DEF Requests, Types, PanelType
        <3> QED BY <2>2, <3>2, <3>3 DEF UiQuickConnect
    <2> QED BY <2>1, <2>2
<1>2. PICK m \in Connects :
        /\ queue' = Cat(queue, <<m>>) /\ m \in Orders
        /\ m.req.ask = asked + 1 /\ asked' = asked + 1 /\ asked \in Nat
        /\ m.req.center = last'.center
        /\ ~last'.attn
        /\ \A c \in Controls : c # "rf_agc" => last'.c[c] = m.req.c[c]
        /\ UNCHANGED engine
    BY <1>0, <1>1, Asks
<1>3. queue \in Lines /\ <<m>> \in Lines /\ queue' \in Lines
    BY <1>0, <1>2, Single, CatProperties DEF Types, LineType, Lines
<1>4. request' = request /\ conn' = conn /\ opening' = opening
    BY <1>2 DEF engine
<1>5. AskInv'
    <2>1. PICK N, F, F0 : N = Newest' /\ F = Future' /\ F0 = Future
        OBVIOUS
    <2>2. m \in N /\ m \notin F
        BY <1>2, <2>1 DEF Newest, Future
    <2>3. /\ \A n \in Connects : n.req.ask \in Nat
          /\ N \subseteq F0 /\ F \subseteq F0
        BY <1>2, <2>1 DEF Newest, Future, Connects, Requests
    <2>4. NoneIn(queue, N) /\ NoneIn(queue, F)
        BY <2>1, <2>3 DEF NoneIn, ControlsInv, AskInv
    <2>5. /\ NoneIn(queue', F) /\ LastIn(queue', Connects, N) /\ OnlyLast(queue', Connects, N)
        BY <1>2, <1>3, <2>2, <2>4, Joined, Single
    <2>6. /\ request # NoConn => request.ask \in Nat /\ request.ask <= asked
          /\ conn # NoConn => conn.ask \in Nat /\ conn.ask <= asked
          /\ \A i \in 1..Len(opening) : /\ opening[i].req.ask \in Nat
                                       /\ opening[i].req.ask <= asked
        <3>1. \A i \in 1..Len(opening) : opening[i] \in Openings
            BY <1>0, ElementOfSeq DEF Types, EngineType
        <3> QED BY <1>0, <3>1 DEF ControlsInv, AskInv, Types, EngineType, Requests, Receivers,
                                Openings
    <2>7. /\ request # NoConn => request.ask <= asked' /\ request.ask # asked'
          /\ conn # NoConn => conn.ask <= asked' /\ conn.ask # asked'
          /\ \A i \in 1..Len(opening) : /\ opening[i].req.ask <= asked'
                                       /\ opening[i].req.ask # asked'
        BY <1>2, <2>6
    <2> QED BY <1>4, <2>1, <2>5, <2>7 DEF AskInv
<1>6. CenterInv'
    <2>1. PICK Q : Q = CenterSent'
        OBVIOUS
    <2>2. m \in Q
        BY <1>2, <2>1 DEF CenterSent
    <2>3. LastIn(queue', CenterOrders, Q)
        BY <1>2, <1>3, <2>2, Joined, Single
    <2> QED BY <2>1, <2>3 DEF CenterInv
<1>7. ASSUME NEW c \in Followed PROVE Follows(c)'
    <2>1. PICK P, Q : P = About(c) /\ Q = Says(c)'
        OBVIOUS
    <2>2. m \in Q
        BY <1>2, <2>1 DEF Says, Wants, Followed
    <2>3. LastIn(queue', P, Q)
        BY <1>2, <1>3, <2>2, Joined, Single
    <2> QED BY <2>1, <2>3 DEF Follows
<1> QED BY <1>3, <1>5, <1>6, <1>7 DEF ControlInv, LineType, Lines
-----------------------------------------------------------------------------
(* The engine. An order is taken from the line.                             *)
LEMMA Taking ==
    ASSUME Types, AskInv, queue # <<>>, queue' = Tail(queue), asked' = asked
    PROVE  /\ queue \in Lines /\ queue' \in Lines /\ Head(queue) \in Orders
           /\ (/\ NoneIn(queue, Future) /\ OnlyLast(queue, Connects, Newest)
               /\ LastIn(queue, Connects, Newest) \/ NoneIn(queue, Connects))'
           /\ ~NoneIn(queue', Connects) =>
                 ~NoneIn(queue, Connects) /\ Head(queue) \notin Newest
           /\ Head(queue) \notin Future
           /\ Head(queue) \in Connects => ~NoneIn(queue, Connects)
<1>1. queue \in Lines
    BY DEF Types, LineType, Lines
<1>2. PICK N, F : N = Newest /\ F = Future
    OBVIOUS
<1>3. N = Newest' /\ F = Future'
    BY <1>2 DEF Newest, Future
<1>4. /\ NoneIn(queue, F) /\ OnlyLast(queue, Connects, N)
      /\ LastIn(queue, Connects, N) \/ NoneIn(queue, Connects)
    BY <1>2 DEF AskInv
<1>5. /\ Head(queue) \in Orders /\ queue' \in Lines
      /\ NoneIn(queue', F) /\ Head(queue) \notin F
      /\ OnlyLast(queue', Connects, N) /\ (Head(queue) \in N => NoneIn(queue', Connects))
      /\ LastIn(queue', Connects, N) \/ NoneIn(queue', Connects)
      /\ ~NoneIn(queue', Connects) => ~NoneIn(queue, Connects)
      /\ Head(queue) \in Connects => ~NoneIn(queue, Connects)
    BY <1>1, <1>4, Taken
<1> QED BY <1>1, <1>2, <1>3, <1>5

(* Nothing new is opened: what was open is open or gone.                    *)
LEMMA AskKept ==
    ASSUME Types, AskInv, asked' = asked,
           queue' = queue \/ (queue # <<>> /\ queue' = Tail(queue)),
           request' = NoConn \/ (request # NoConn /\ request'.ask = request.ask),
           conn' = NoConn \/ (conn # NoConn /\ conn'.ask = conn.ask),
           opening' = opening
    PROVE  AskInv'
<1>1. /\ (/\ NoneIn(queue, Future) /\ OnlyLast(queue, Connects, Newest)
          /\ LastIn(queue, Connects, Newest) \/ NoneIn(queue, Connects))'
      /\ ~NoneIn(queue', Connects) => ~NoneIn(queue, Connects)
    <2>1. CASE queue' = queue
        BY <2>1 DEF AskInv, Future, Newest
    <2>2. CASE queue # <<>> /\ queue' = Tail(queue)
        BY <2>2, Taking
    <2> QED BY <2>1, <2>2
<1>2. /\ request' # NoConn => request # NoConn /\ request'.ask = request.ask
      /\ conn' # NoConn => conn # NoConn /\ conn'.ask = conn.ask
    OBVIOUS
<1> QED BY <1>1, <1>2 DEF AskInv

LEMMA AskHandles ==
    ASSUME Types, AskInv, Handle
    PROVE  AskInv'
<1>0. /\ queue # <<>> /\ queue' = Tail(queue) /\ asked' = asked
    BY DEF Handle, ui
<1>1. PICK m : m = Head(queue)
    OBVIOUS
<1>2. m \in Orders
    BY <1>0, <1>1, Taking
<1>3. CASE HandleConnect(m)
    <2>1. m \in Connects /\ m.req \in Requests
        BY <1>2, <1>3, OrderIs DEF HandleConnect
    <2>2. PICK o : o = [req |-> m.req, again |-> FALSE]
        OBVIOUS
    <2>3. o \in Openings /\ o.req = m.req
        BY <2>1, <2>2 DEF Openings
    <2>4. /\ request' = m.req /\ conn' = NoConn /\ opening' = Append(opening, o)
        BY <1>3, <2>2 DEF HandleConnect, StartConnect
    <2>5. /\ Len(opening') = Len(opening) + 1 /\ Len(opening) \in Nat
          /\ \A i \in 1..Len(opening) : opening'[i] = opening[i]
          /\ opening'[Len(opening) + 1] = o
        BY <2>3, <2>4, AppendProperties, LenProperties DEF Types, EngineType
    <2>6. ~NoneIn(queue, Connects)
        BY <1>0, <1>1, <2>1, Taking
    <2>7. m.req.ask <= asked
        <3>1. m \notin Future
            BY <1>0, <1>1, Taking
        <3>2. ~(m.req.ask > asked) /\ asked \in Nat /\ m.req.ask \in Nat
            BY <2>1, <3>1 DEF Future, Types, PanelType, Requests
        <3> QED BY <3>2
    <2>8. ~NoneIn(queue', Connects) => m.req.ask # asked
        BY <1>0, <1>1, <2>1, Taking DEF Newest
    <2>9. ASSUME NEW i \in 1..Len(opening')
          PROVE  /\ opening'[i].req.ask <= asked
                 /\ ~NoneIn(queue', Connects) => opening'[i].req.ask # asked
                 /\ opening'[i].req.ask = asked => i = Len(opening')
        <3>1. CASE i = Len(opening')
            BY <2>3, <2>5, <2>7, <2>8, <3>1
        <3>2. CASE i # Len(opening')
            <4>1. i \in 1..Len(opening)
                BY <2>5, <3>2
            <4> QED BY <2>5, <2>6, <4>1 DEF AskInv
        <3> QED BY <3>1, <3>2
    <2>10. (/\ NoneIn(queue, Future) /\ OnlyLast(queue, Connects, Newest)
            /\ LastIn(queue, Connects, Newest) \/ NoneIn(queue, Connects))'
        BY <1>0, Taking
    <2> QED BY <1>0, <2>4, <2>7, <2>8, <2>9, <2>10 DEF AskInv
<1>4. CASE HandleDisconnect(m)
    BY <1>0, <1>4, AskKept DEF HandleDisconnect
<1>5. CASE HandleTune(m)
    <2>1. request' = NoConn \/ (request # NoConn /\ request'.ask = request.ask)
        BY <1>5 DEF HandleTune, Types, EngineType, Requests
    <2>2. conn' = NoConn \/ (conn # NoConn /\ conn'.ask = conn.ask)
        BY <1>5 DEF HandleTune, Types, EngineType, Receivers
    <2>3. opening' = opening
        BY <1>5 DEF HandleTune
    <2> QED BY <1>0, <2>1, <2>2, <2>3, AskKept
<1>6. CASE HandleSet(m)
    <2>1. conn' = NoConn \/ (conn # NoConn /\ conn'.ask = conn.ask)
        BY <1>6 DEF HandleSet, Types, EngineType, Receivers
    <2>2. opening' = opening /\ request' = request
        BY <1>6 DEF HandleSet
    <2> QED BY <1>0, <2>1, <2>2, AskKept
<1> QED BY <1>1, <1>3, <1>4, <1>5, <1>6 DEF Handle

LEMMA AskEngine ==
    ASSUME Types, AskInv, Open \/ AttnKnown \/ LinkLost \/ Retry
    PROVE  AskInv'
<1>0. queue' = queue /\ asked' = asked /\ request' = request
    BY DEF Open, AttnKnown, LinkLost, Retry, ui
<1>1. CASE Open
    <2>1. opening \in Seq(Openings) /\ opening # <<>> /\ opening' = Front(opening)
        BY <1>1 DEF Open, Types, EngineType
    <2>2. PICK o : o = Last(opening)
        OBVIOUS
    <2>3. /\ o \in Openings /\ o = opening[Len(opening)] /\ Len(opening) \in 1..Len(opening)
          /\ \A i \in 1..Len(opening') :
                i \in 1..Len(opening) /\ i # Len(opening) /\ opening'[i] = opening[i]
        BY <2>1, <2>2, FrontAndLast
    <2>4. conn' = conn \/ conn' = Opened(o)
        BY <1>1, <2>2 DEF Open
    <2>5. NoneIn(queue', Connects)
        BY <1>0, <1>1, Nothing DEF Open
    <2>6. \A i \in 1..Len(opening') :
              opening'[i].req.ask <= asked /\ opening'[i].req.ask # asked
        BY <2>3 DEF AskInv
    <2>7. conn' # NoConn => conn'.ask <= asked
        <3>1. Opened(o).ask = o.req.ask
            BY <2>3, OpenedType
        <3> QED BY <2>3, <2>4, <3>1 DEF AskInv
    <2>8. Newest' = Newest /\ Future' = Future
        BY <1>0 DEF Newest, Future
    <2> QED BY <1>0, <2>5, <2>6, <2>7, <2>8 DEF AskInv
<1>2. CASE AttnKnown
    <2>1. conn # NoConn /\ conn'.ask = conn.ask
        BY <1>2, NoneOpen DEF AttnKnown, Types, EngineType, Receivers
    <2>2. opening' = opening
        BY <1>2 DEF AttnKnown
    <2> QED BY <1>0, <2>1, <2>2, AskKept
<1>3. CASE LinkLost
    BY <1>0, <1>3, AskKept DEF LinkLost
<1>4. CASE Retry
    <2>1. PICK o : o = [req |-> request, again |-> TRUE]
        OBVIOUS
    <2>2. o \in Openings /\ o.req = request
        BY <1>4, <2>1 DEF Openings, Retry, Types, EngineType
    <2>3. opening' = Append(opening, o) /\ opening = <<>> /\ conn' = NoConn /\ request # NoConn
        BY <1>4, <2>1 DEF Retry, StartConnect
    <2>4. Len(opening') = 1 /\ opening'[1] = o
        <3>1. opening \in Seq(Openings) /\ Len(opening) = 0
            BY <2>3, EmptySeq DEF Types, EngineType
        <3> QED BY <2>2, <2>3, <3>1, AppendProperties
    <2>5. \A i \in 1..Len(opening') : i = 1
        BY <2>4
    <2>6. Newest' = Newest /\ Future' = Future
        BY <1>0 DEF Newest, Future
    <2> QED BY <1>0, <2>2, <2>3, <2>4, <2>5, <2>6 DEF AskInv
<1> QED BY <1>1, <1>2, <1>3, <1>4

(* While a receiver is open no opening stems from the last connect.         *)
LEMMA OneAtATime ==
    ASSUME AskInv, conn # NoConn
    PROVE  \A i \in 1..Len(opening) : opening[i].req.ask # asked
BY DEF AskInv

(* A connect is the next order: what is being opened is its opening alone.  *)
LEMMA ConnectHandled ==
    ASSUME Types, AskInv, Handle, HandleConnect(Head(queue))
    PROVE  \E m \in Connects :
              /\ m = Head(queue)
              /\ request' = m.req /\ conn' = NoConn /\ excused' = {}
              /\ \A i \in 1..Len(opening') :
                    opening'[i].req.ask = asked => opening'[i].req = m.req
<1>0. queue # <<>> /\ queue' = Tail(queue) /\ asked' = asked
    BY DEF Handle, ui
<1>1. PICK m : m = Head(queue)
    OBVIOUS
<1>2. m \in Connects /\ m.req \in Requests
    BY <1>0, <1>1, Taking, OrderIs DEF HandleConnect
<1>3. PICK o : o = [req |-> m.req, again |-> FALSE]
    OBVIOUS
<1>4. o \in Openings /\ o.req = m.req
    BY <1>2, <1>3 DEF Openings
<1>5. /\ request' = m.req /\ conn' = NoConn /\ opening' = Append(opening, o)
      /\ excused' = {}
    BY <1>1, <1>3 DEF HandleConnect, StartConnect
<1>6. /\ Len(opening') = Len(opening) + 1 /\ Len(opening) \in Nat
      /\ \A i \in 1..Len(opening) : opening'[i] = opening[i]
      /\ opening'[Len(opening) + 1] = o
    BY <1>4, <1>5, AppendProperties, LenProperties DEF Types, EngineType
<1>7. \A i \in 1..Len(opening) : opening[i].req.ask # asked
    BY <1>0, <1>1, <1>2, Taking DEF AskInv
<1>8. ASSUME NEW i \in 1..Len(opening'), opening'[i].req.ask = asked
      PROVE  opening'[i].req = m.req
    <2>1. i \notin 1..Len(opening)
        BY <1>6, <1>7, <1>8
    <2>2. i = Len(opening) + 1
        BY <1>6, <2>1
    <2> QED BY <1>4, <1>6, <2>2
<1> QED BY <1>1, <1>2, <1>5, <1>8

LEMMA CenterHandles ==
    ASSUME Types, AskInv, CenterInv, Handle
    PROVE  CenterInv'
<1>0. /\ queue # <<>> /\ queue' = Tail(queue) /\ asked' = asked /\ last' = last
      /\ queue \in Lines
    BY DEF Handle, ui, Types, LineType, Lines
<1>1. PICK m : m = Head(queue)
    OBVIOUS
<1>2. m \in Orders
    BY <1>0, <1>1, Taking
<1>3. PICK Q : Q = CenterSent
    OBVIOUS
<1>4. CenterSent' = Q
    BY <1>0, <1>3 DEF CenterSent
<1>5. CASE LastIn(queue', CenterOrders, Q)
    BY <1>4, <1>5 DEF CenterInv
<1>6. CASE m \in Q /\ NoneIn(queue', CenterOrders)
    <2>1. CenterKept'
        <3>1. CASE HandleConnect(m)
            <4>1. /\ request' = m.req /\ conn' = NoConn
                  /\ \A i \in 1..Len(opening') :
                        opening'[i].req.ask = asked => opening'[i].req = m.req
                BY <1>1, <3>1, ConnectHandled
            <4>2. m.op = "connect" /\ m.req.center = last.center
                BY <1>2, <1>3, <1>6, <3>1, OrderIs DEF CenterSent, HandleConnect
            <4> QED BY <1>0, <4>1, <4>2 DEF CenterKept
        <3>2. CASE HandleTune(m)
            <4>1. m.center = last.center
                BY <1>2, <1>3, <1>6, <3>2, OrderIs DEF CenterSent, HandleTune
            <4>2. request' # NoConn => request'.center = last.center
                BY <3>2, <4>1 DEF HandleTune, Types, EngineType, Requests
            <4>3. opening' = opening
                BY <3>2 DEF HandleTune
            <4>4. CASE "center" \notin excused'
                <5>1. conn # NoConn
                    BY <3>2, <4>4 DEF HandleTune
                <5>2. conn'.center = last.center
                    BY <3>2, <4>1, <5>1 DEF HandleTune, Types, EngineType, Receivers
                <5> QED BY <1>0, <4>2, <4>3, <5>1, <5>2, OneAtATime DEF CenterKept
            <4> QED BY <1>0, <4>2, <4>4 DEF CenterKept
        <3>3. ~HandleDisconnect(m) /\ ~HandleSet(m)
            BY <1>2, <1>3, <1>6, OrderIs DEF HandleDisconnect, HandleSet, CenterSent
        <3> QED BY <1>1, <3>1, <3>2, <3>3 DEF Handle
    <2> QED BY <1>6, <2>1 DEF CenterInv
<1>7. CASE m \notin CenterOrders /\ NoneIn(queue', CenterOrders) /\ CenterKept
    <2>1. ~HandleConnect(m) /\ ~HandleTune(m)
        BY <1>2, <1>7, OrderIs DEF HandleConnect, HandleTune, CenterOrders
    <2>2. CASE HandleDisconnect(m)
        <3>1. CenterKept'
            BY <1>0, <1>7, <2>2 DEF HandleDisconnect, CenterKept
        <3> QED BY <1>7, <3>1 DEF CenterInv
    <2>3. CASE HandleSet(m)
        <3>1. "center" \in excused' <=> "center" \in excused
            BY <1>2, <2>3, OrderIs, Names DEF HandleSet
        <3>2. conn' # NoConn => /\ conn # NoConn /\ conn'.ask = conn.ask
                                /\ conn'.center = conn.center
            BY <2>3 DEF HandleSet, Types, EngineType, Receivers
        <3>3. opening' = opening /\ request' = request
            BY <2>3 DEF HandleSet
        <3>4. CenterKept'
            BY <1>0, <1>7, <3>1, <3>2, <3>3 DEF CenterKept
        <3> QED BY <1>7, <3>4 DEF CenterInv
    <2> QED BY <1>1, <2>1, <2>2, <2>3 DEF Handle
<1>8. \/ LastIn(queue', CenterOrders, Q)
      \/ m \in Q /\ NoneIn(queue', CenterOrders)
      \/ m \notin CenterOrders /\ NoneIn(queue', CenterOrders) /\ CenterKept
    BY <1>0, <1>1, <1>3, Taken DEF CenterInv
<1> QED BY <1>5, <1>6, <1>7, <1>8

LEMMA CenterEngine ==
    ASSUME Types, AskInv, CenterInv, Open \/ AttnKnown \/ LinkLost \/ Retry
    PROVE  CenterInv'
<1>0. queue' = queue /\ asked' = asked /\ request' = request /\ last' = last
    BY DEF Open, AttnKnown, LinkLost, Retry, ui
<1>1. CenterSent' = CenterSent
    BY <1>0 DEF CenterSent
<1> SUFFICES ASSUME CenterKept PROVE CenterKept'
    BY <1>0, <1>1 DEF CenterInv
<1>2. CASE Open
    <2>1. opening \in Seq(Openings) /\ opening # <<>> /\ opening' = Front(opening)
        BY <1>2 DEF Open, Types, EngineType
    <2>2. PICK o : o = Last(opening)
        OBVIOUS
    <2>3. /\ o \in Openings /\ o = opening[Len(opening)] /\ Len(opening) \in 1..Len(opening)
          /\ \A i \in 1..Len(opening') :
                i \in 1..Len(opening) /\ i # Len(opening) /\ opening'[i] = opening[i]
        BY <2>1, <2>2, FrontAndLast
    <2>4. conn' = conn \/ conn' = Opened(o)
        BY <1>2, <2>2 DEF Open
    <2>5. Opened(o).ask = o.req.ask /\ Opened(o).center = o.req.center
        BY <2>3, OpenedType
    <2>6. excused' = excused
        BY <1>2 DEF Open
    <2> QED BY <1>0, <2>3, <2>4, <2>5, <2>6 DEF CenterKept
<1>3. CASE AttnKnown
    <2>1. conn # NoConn /\ conn'.ask = conn.ask /\ conn'.center = conn.center
        BY <1>3, NoneOpen DEF AttnKnown, Types, EngineType, Receivers
    <2>2. opening' = opening /\ ("center" \in excused' <=> "center" \in excused)
        BY <1>3 DEF AttnKnown
    <2> QED BY <1>0, <2>1, <2>2 DEF CenterKept
<1>4. CASE LinkLost
    BY <1>0, <1>4 DEF LinkLost, CenterKept
<1>5. CASE Retry
    <2>1. PICK o : o = [req |-> request, again |-> TRUE]
        OBVIOUS
    <2>2. o \in Openings /\ o.req = request
        BY <1>5, <2>1 DEF Openings, Retry, Types, EngineType
    <2>3. /\ opening' = Append(opening, o) /\ opening = <<>> /\ conn' = NoConn
          /\ request # NoConn /\ excused' = excused
        BY <1>5, <2>1 DEF Retry, StartConnect
    <2>4. Len(opening') = 1 /\ opening'[1] = o
        <3>1. opening \in Seq(Openings) /\ Len(opening) = 0
            BY <2>3, EmptySeq DEF Types, EngineType
        <3> QED BY <2>2, <2>3, <3>1, AppendProperties
    <2>5. \A i \in 1..Len(opening') : i = 1
        BY <2>4
    <2> QED BY <1>0, <2>2, <2>3, <2>4, <2>5 DEF CenterKept
<1> QED BY <1>2, <1>3, <1>4, <1>5

LEMMA ControlHandles ==
    ASSUME Types, AskInv, Handle, NEW c \in Followed, Follows(c)
    PROVE  Follows(c)'
<1>0. /\ queue # <<>> /\ queue' = Tail(queue) /\ asked' = asked /\ last' = last
      /\ queue \in Lines /\ c \in Controls /\ c # "center" /\ c # "hf_agc"
    BY Names DEF Handle, ui, Types, LineType, Lines, Followed
<1>1. PICK m : m = Head(queue)
    OBVIOUS
<1>2. m \in Orders
    BY <1>0, <1>1, Taking
<1>3. PICK P, Q : P = About(c) /\ Q = Says(c)
    OBVIOUS
<1>4. Says(c)' = Q
    BY <1>0, <1>3 DEF Says, Wants
<1>5. CASE LastIn(queue', P, Q)
    BY <1>3, <1>4, <1>5 DEF Follows
<1>6. CASE m \in Q /\ NoneIn(queue', P)
    <2>1. Agrees(c)'
        <3>1. CASE HandleConnect(m)
            <4>1. /\ conn' = NoConn
                  /\ \A i \in 1..Len(opening') :
                        opening'[i].req.ask = asked => opening'[i].req = m.req
                BY <1>1, <3>1, ConnectHandled
            <4>2. Wants(m.req, c)
                BY <1>2, <1>3, <1>6, <3>1, OrderIs DEF Says, HandleConnect
            <4>3. OpeningAgrees(c)'
                BY <1>0, <4>1, <4>2 DEF OpeningAgrees, Wants
            <4>4. DeviceAgrees(c)'
                BY <4>1 DEF DeviceAgrees
            <4> QED BY <4>3, <4>4 DEF Agrees
        <3>2. CASE HandleSet(m)
            <4>1. m.control = c /\ m.value = last.c[c] /\ m.live = TRUE
                BY <1>2, <1>3, <1>6, <3>2, OrderIs DEF Says, HandleSet
            <4>2. opening' = opening
                BY <3>2 DEF HandleSet
            <4>3. CASE c \notin excused'
                <5>1. conn # NoConn
                    BY <3>2, <4>1, <4>3 DEF HandleSet
                <5>2. \A i \in 1..Len(opening') : opening'[i].req.ask # asked
                    BY <4>2, <5>1, OneAtATime
                <5>3. conn.c \in [Controls -> Values] /\ conn'.kind = conn.kind
                    BY <3>2, <5>1 DEF HandleSet, Types, EngineType, Receivers
                <5>4. c \in Of(conn.kind) => conn'.c[c] = last.c[c]
                    <6>1. ASSUME c \in Of(conn.kind)
                          PROVE  conn' = [conn EXCEPT !.c[c] = last.c[c]]
                        BY <1>0, <3>2, <4>1, <5>1, <6>1 DEF HandleSet
                    <6>2. conn \in Receivers
                        BY <5>1 DEF Types, EngineType
                    <6> QED BY <1>0, <5>3, <6>1, <6>2 DEF Receivers
                <5>5. DeviceAgrees(c)'
                    BY <1>0, <5>3, <5>4 DEF DeviceAgrees
                <5>6. OpeningAgrees(c)'
                    BY <1>0, <5>2 DEF OpeningAgrees
                <5> QED BY <5>5, <5>6 DEF Agrees
            <4> QED BY <4>3 DEF Agrees
        <3>3. ~HandleDisconnect(m) /\ ~HandleTune(m)
            BY <1>2, <1>3, <1>6, OrderIs DEF HandleDisconnect, HandleTune, Says
        <3> QED BY <1>1, <3>1, <3>2, <3>3 DEF Handle
    <2> QED BY <1>3, <1>6, <2>1 DEF Follows
<1>7. CASE m \notin P /\ NoneIn(queue', P) /\ Agrees(c)
    <2>1. ~HandleConnect(m)
        BY <1>2, <1>3, <1>7, OrderIs DEF HandleConnect, About
    <2>2. CASE HandleDisconnect(m)
        <3>1. Agrees(c)'
            BY <1>0, <1>7, <2>2
            DEF HandleDisconnect, Agrees, DeviceAgrees, OpeningAgrees, Wants
        <3> QED BY <1>3, <1>7, <3>1 DEF Follows
    <2>3. CASE HandleTune(m)
        <3>1. c \in excused' <=> c \in excused
            BY <1>0, <2>3 DEF HandleTune
        <3>2. conn' # NoConn => /\ conn # NoConn /\ conn'.ask = conn.ask
                                /\ conn'.again = conn.again /\ conn'.kind = conn.kind
                                /\ conn'.c = conn.c
            BY <2>3 DEF HandleTune, Types, EngineType, Receivers
        <3>3. opening' = opening
            BY <2>3 DEF HandleTune
        <3>4. DeviceAgrees(c) => DeviceAgrees(c)'
            BY <1>0, <3>2 DEF DeviceAgrees
        <3>5. OpeningAgrees(c) => OpeningAgrees(c)'
            BY <1>0, <3>3 DEF OpeningAgrees, Wants
        <3> QED BY <1>3, <1>7, <3>1, <3>4, <3>5 DEF Follows, Agrees
    <2>4. CASE HandleSet(m)
        <3>1. m.control # c /\ m.control \in Controls
            BY <1>2, <1>3, <1>7, <2>4, OrderIs DEF HandleSet, About
        <3>2. c \in excused' <=> c \in excused
            BY <1>0, <2>4, <3>1 DEF HandleSet
        <3>3. conn' # NoConn => /\ conn # NoConn /\ conn'.ask = conn.ask
                                /\ conn'.again = conn.again /\ conn'.kind = conn.kind
                                /\ conn'.c[c] = conn.c[c]
            BY <1>0, <2>4, <3>1 DEF HandleSet, Types, EngineType, Receivers
        <3>4. opening' = opening
            BY <2>4 DEF HandleSet
        <3>5. DeviceAgrees(c) => DeviceAgrees(c)'
            BY <1>0, <3>3 DEF DeviceAgrees
        <3>6. OpeningAgrees(c) => OpeningAgrees(c)'
            BY <1>0, <3>4 DEF OpeningAgrees, Wants
        <3> QED BY <1>3, <1>7, <3>2, <3>5, <3>6 DEF Follows, Agrees
    <2> QED BY <1>1, <2>1, <2>2, <2>3, <2>4 DEF Handle
<1>8. \/ LastIn(queue', P, Q)
      \/ m \in Q /\ NoneIn(queue', P)
      \/ m \notin P /\ NoneIn(queue', P) /\ Agrees(c)
    BY <1>0, <1>1, <1>3, Taken DEF Follows
<1> QED BY <1>5, <1>6, <1>7, <1>8

LEMMA ControlEngine ==
    ASSUME Types, AskInv, NEW c \in Followed, Follows(c),
           Open \/ AttnKnown \/ LinkLost \/ Retry
    PROVE  Follows(c)'
<1>0. /\ queue' = queue /\ asked' = asked /\ request' = request /\ last' = last
      /\ c \in Controls
    BY DEF Open, AttnKnown, LinkLost, Retry, ui, Followed
<1>1. Says(c)' = Says(c)
    BY <1>0 DEF Says, Wants
<1> SUFFICES ASSUME Agrees(c) PROVE Agrees(c)'
    BY <1>0, <1>1 DEF Follows
<1>2. CASE Open
    <2>1. opening \in Seq(Openings) /\ opening # <<>> /\ opening' = Front(opening)
        BY <1>2 DEF Open, Types, EngineType
    <2>2. PICK o : o = Last(opening)
        OBVIOUS
    <2>3. /\ o \in Openings /\ o = opening[Len(opening)] /\ Len(opening) \in 1..Len(opening)
          /\ \A i \in 1..Len(opening') :
                i \in 1..Len(opening) /\ i # Len(opening) /\ opening'[i] = opening[i]
        BY <2>1, <2>2, FrontAndLast
    <2>4. conn' = conn \/ conn' = Opened(o)
        BY <1>2, <2>2 DEF Open
    <2>5. /\ Opened(o).ask = o.req.ask /\ Opened(o).again = o.again
          /\ Opened(o).c[c] \in {o.req.c[c], Unset}
        BY <1>0, <2>3, OpenedType
    <2>6. excused' = excused
        BY <1>2 DEF Open
    <2>7. OpeningAgrees(c) => OpeningAgrees(c)'
        BY <1>0, <2>3 DEF OpeningAgrees, Wants
    <2>8. ASSUME OpeningAgrees(c), DeviceAgrees(c) PROVE DeviceAgrees(c)'
        <3>1. CASE conn' = conn
            BY <1>0, <2>8, <3>1 DEF DeviceAgrees
        <3>2. CASE conn' = Opened(o)
            <4>1. conn'.ask = asked /\ ~conn'.again => Wants(o.req, c)
                BY <2>3, <2>5, <2>8, <3>2 DEF OpeningAgrees
            <4> QED BY <1>0, <2>5, <3>2, <4>1 DEF DeviceAgrees, Wants
        <3> QED BY <2>4, <3>1, <3>2
    <2> QED BY <2>6, <2>7, <2>8 DEF Agrees
<1>3. CASE AttnKnown
    <2>1. conn # NoConn /\ conn \in Receivers
        BY <1>3, NoneOpen DEF AttnKnown, Types, EngineType
    <2>2. /\ conn'.ask = conn.ask /\ conn'.again = conn.again /\ conn'.kind = conn.kind
          /\ c # "rf_attn" => conn'.c[c] = conn.c[c]
        BY <1>0, <1>3, <2>1 DEF AttnKnown, Receivers
    <2>3. opening' = opening
        BY <1>3 DEF AttnKnown
    <2>4. OpeningAgrees(c) => OpeningAgrees(c)'
        BY <1>0, <2>3 DEF OpeningAgrees, Wants
    <2>5. CASE c # "rf_attn"
        <3>1. c \in excused' <=> c \in excused
            BY <1>3, <2>5 DEF AttnKnown
        <3>2. DeviceAgrees(c) => DeviceAgrees(c)'
            BY <1>0, <2>1, <2>2, <2>5 DEF DeviceAgrees
        <3> QED BY <2>4, <3>1, <3>2 DEF Agrees
    <2>6. CASE c = "rf_attn"
        <3>1. CASE conn.c[c] = Unset
            <4>1. excused' = excused
                BY <1>3, <2>6, <3>1 DEF AttnKnown
            <4>2. last.c[c] # Unset
                BY <1>0 DEF Types, PanelType, OnOff, Unset
            <4>3. DeviceAgrees(c) => DeviceAgrees(c)'
                BY <1>0, <2>1, <2>2, <2>6, <3>1, <4>2 DEF DeviceAgrees
            <4> QED BY <2>4, <4>1, <4>3 DEF Agrees
        <3>2. CASE conn.c[c] # Unset
            BY <1>3, <2>6, <3>2 DEF AttnKnown, Agrees
        <3> QED BY <3>1, <3>2
    <2> QED BY <2>5, <2>6
<1>4. CASE LinkLost
    BY <1>0, <1>4 DEF LinkLost, Agrees, DeviceAgrees, OpeningAgrees, Wants
<1>5. CASE Retry
    <2>1. PICK o : o = [req |-> request, again |-> TRUE]
        OBVIOUS
    <2>2. o \in Openings /\ o.again = TRUE
        BY <1>5, <2>1 DEF Openings, Retry, Types, EngineType
    <2>3. /\ opening' = Append(opening, o) /\ opening = <<>> /\ conn' = NoConn
          /\ excused' = excused
        BY <1>5, <2>1 DEF Retry, StartConnect
    <2>4. Len(opening') = 1 /\ opening'[1] = o
        <3>1. opening \in Seq(Openings) /\ Len(opening) = 0
            BY <2>3, EmptySeq DEF Types, EngineType
        <3> QED BY <2>2, <2>3, <3>1, AppendProperties
    <2>5. \A i \in 1..Len(opening') : i = 1
        BY <2>4
    <2> QED BY <2>2, <2>3, <2>4, <2>5 DEF Agrees, DeviceAgrees, OpeningAgrees
<1> QED BY <1>2, <1>3, <1>4, <1>5
-----------------------------------------------------------------------------
LEMMA InitControls == Init => ControlsInv
<1> SUFFICES ASSUME Init PROVE ControlsInv
    OBVIOUS
<1>1. <<>> \in Seq(Orders) /\ <<>> \in Seq(Openings) /\ Len(<<>>) = 0
    BY EmptySeq
<1>2. PICK k \in Kinds, c \in [Controls -> {"off"}] :
        /\ form = [kind |-> k, c |-> c, center |-> 0]
        /\ last = [c |-> c, center |-> 0, attn |-> FALSE]
    BY DEF Init
<1>3. c \in [Controls -> OnOff]
    BY DEF OnOff
<1>4. Types
    <2>1. PanelType
        BY <1>2, <1>3 DEF Init, PanelType, Snapshots, States
    <2>2. EngineType
        BY <1>1 DEF Init, EngineType, States
    <2> QED BY <1>1, <2>1, <2>2 DEF Types, LineType, Init
<1>5. NoneIn(queue, Future) /\ NoneIn(queue, Connects) /\ NoneIn(queue, CenterOrders)
      /\ OnlyLast(queue, Connects, Newest) /\ \A d : NoneIn(queue, About(d))
    BY Nothing DEF Init
<1>6. AskInv
    BY <1>1, <1>5 DEF Init, AskInv
<1>7. CenterInv
    BY <1>1, <1>5 DEF Init, CenterInv, CenterKept
<1>8. ControlInv
    BY <1>1, <1>5 DEF Init, ControlInv, Follows, Agrees, DeviceAgrees, OpeningAgrees
<1> QED BY <1>4, <1>6, <1>7, <1>8 DEF ControlsInv

LEMMA ControlsStep == ControlsInv /\ [Next]_vars => ControlsInv'
<1> SUFFICES ASSUME ControlsInv, [Next]_vars PROVE ControlsInv'
    OBVIOUS
<1>0. Types /\ AskInv /\ CenterInv /\ ControlInv
    BY DEF ControlsInv
<1>1. PanelType' /\ EngineType'
    BY <1>0, PanelTypeStep, EngineTypeStep
<1> SUFFICES LineType' /\ AskInv' /\ CenterInv' /\ ControlInv'
    BY <1>1 DEF ControlsInv, Types
<1>2. queue \in Lines
    BY <1>0 DEF Types, LineType, Lines
<1>3. CASE UiPoll \/ UiEdit \/ UiApply \/ UiCancel \/ FirstIq \/ UNCHANGED vars
    <2>1. PanelSends /\ Same
        BY <1>0, <1>3, PanelStep
    <2>2. PICK t \in Lines : queue' = Cat(queue, t)
        BY <2>1 DEF PanelSends
    <2>3. LineType'
        BY <1>2, <2>2, CatProperties DEF LineType, Lines
    <2> QED BY <2>1, <2>3, Sending
<1>4. CASE UiConnect \/ UiQuickConnect
    BY <1>4, Connecting
<1>5. CASE Handle
    <2>1. queue # <<>> /\ queue' = Tail(queue)
        BY <1>5 DEF Handle
    <2>2. LineType'
        BY <1>2, <2>1, Taken DEF LineType, Lines
    <2>3. ControlInv'
        BY <1>0, <1>5, ControlHandles DEF ControlInv
    <2> QED BY <1>0, <1>5, <2>2, <2>3, AskHandles, CenterHandles
<1>6. CASE Open \/ AttnKnown \/ LinkLost \/ Retry
    <2>1. LineType'
        BY <1>0, <1>6 DEF Types, LineType, Open, AttnKnown, LinkLost, Retry
    <2>2. ControlInv'
        BY <1>0, <1>6, ControlEngine DEF ControlInv
    <2> QED BY <1>0, <1>6, <2>1, <2>2, AskEngine, CenterEngine
<1> QED BY <1>3, <1>4, <1>5, <1>6 DEF Next, User, Engine

THEOREM ControlsInvariant == Spec => []ControlsInv
<1> QED BY InitControls, ControlsStep, PTL DEF Spec

(* The centre follows the dial: the engine's own request always carries the *)
(* last Tune, so that an automatic reconnect cannot bring an old one back.  *)
THEOREM DialStays == Spec => []TuneStays
<1>1. ControlsInv => TuneStays
    <2> SUFFICES ASSUME ControlsInv, Quiet PROVE TuneStays
        BY DEF TuneStays
    <2>1. ~LastIn(queue, CenterOrders, CenterSent)
        BY Nothing DEF Quiet
    <2>2. CenterKept
        BY <2>1 DEF ControlsInv, CenterInv
    <2> QED BY <2>2 DEF TuneStays, CenterKept, Quiet
<1> QED BY <1>1, ControlsInvariant, PTL

(* What the panel shows is what the receiver has, once all is sent.         *)
THEOREM PanelFollowed == Spec => []ControlsFollow
<1>1. ControlsInv => ControlsFollow
    <2> SUFFICES ASSUME ControlsInv, Settled, conn.ask = asked, ~conn.again,
                        NEW c \in Of(form.kind) \ (excused \cup {"hf_agc", "rf_agc"}),
                        Shown(c), c = "rf_attn" => conn.attn
                 PROVE  conn.c[c] \in {form.c[c], Unset}
        BY DEF ControlsFollow
    <2>1. /\ queue = <<>> /\ conn # NoConn /\ state = "Streaming" /\ conn.kind = form.kind
          /\ ~Due(Snapshot, c)
        BY DEF Settled, Quiet
    <2>2. c \in Controls /\ c \in Followed
        BY Names DEF ControlsInv, Types, PanelType, Followed
    <2>3. Agrees(c)
        BY <2>1, <2>2, Nothing DEF ControlsInv, ControlInv, Follows
    <2>4. Live(Snapshot) /\ (c = "rf_attn" => Snapshot.attn)
        <3>1. c = "rf_attn" => form.kind = "kiwi"
            BY PanelIs, KindAssumption DEF ControlsInv, Types, PanelType, SourceKind
        <3> QED BY <2>1, <3>1 DEF Live, Snapshot, IsKiwi
    <2>5. form.c[c] = last.c[c] /\ (c = "rf_attn" => last.attn)
        BY <2>1, <2>4 DEF Due, Shown
    <2>6. DeviceAgrees(c)
        BY <2>3 DEF Agrees
    <2> QED BY <2>1, <2>5, <2>6 DEF DeviceAgrees
<1> QED BY <1>1, ControlsInvariant, PTL
=============================================================================
