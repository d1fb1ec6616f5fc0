---------------------------- MODULE AudioOut_proofs ----------------------------
(***************************************************************************)
(* Proofs about AudioOut: what skip_seconds asks for is neither lost nor   *)
(* skipped twice, and what is queued follows the source at the servo's     *)
(* pace, for every ring, quantum, block and gap, and for both outputs.     *)
(***************************************************************************)
EXTENDS AudioOut, TLAPS, SequenceTheorems

(* The budget is in one of four places, and each step moves some of it.    *)
(* Between two calls of the callback nothing is left with it, and what is  *)
(* on its way to the worklet is a number of samples.                       *)
BudgetInv ==
    /\ asked \in Int /\ posted \in Int /\ discarded \in Int
    /\ skip \in Nat /\ rem \in Nat
    /\ gap \in Nat
    /\ ring \in Seq(Int)
    /\ out \in Seq(Int)
    /\ port \in Seq(Samples \cup Skip)
    /\ pos \in Int /\ step \in Int /\ src \in Int /\ len \in Int
    /\ be = "web" => cpc = "idle"
    /\ cpc \in {"idle", "drain"}
    /\ cpc = "idle" => rem = 0

IInv == BudgetInv /\ SkipsAddUp

LEMMA InitIInv == Init => IInv
<1> SUFFICES ASSUME Init PROVE IInv
    OBVIOUS
<1>1. <<>> \in Seq(Int) /\ <<>> \in Seq(Samples \cup Skip)
    BY EmptySeq
<1> QED BY <1>1, AudioAssumption DEF Init, IInv, BudgetInv, SkipsAddUp

(* The engine's steps: only skip_seconds adds to the budget. *)
LEMMA EngineStep ==
    ASSUME IInv, Push
    PROVE  IInv'
<1>0. BudgetInv /\ SkipsAddUp /\ Steps \subseteq Int
    BY AudioAssumption DEF IInv
<1>1. ASSUME NEW g \in 0..MaxGap, NEW u \in 0..MaxGap, NEW n \in 0..MaxBlock,
             NextBlock(g, u, n), step' \in Steps
      PROVE  IInv'
    <2>1. g \in Nat /\ u \in Int /\ n \in Int /\ <<>> \in Seq(Int)
        BY AudioAssumption, EmptySeq
    <2> QED BY <1>0, <1>1, <2>1
            DEF NextBlock, IInv, BudgetInv, SkipsAddUp, portVars
<1>2. CASE PushBegin
    <2>1. PICK g \in 0..MaxGap, u \in 0..MaxGap, n \in 1..MaxBlock :
              NextBlock(g, u, n) /\ step' \in Steps
        BY <1>2 DEF PushBegin
    <2>2. n \in 0..MaxBlock
        BY AudioAssumption
    <2> QED BY <1>1, <2>1, <2>2
<1>3. CASE PushMuted
    <2>1. PICK g \in 0..MaxGap, u \in 0..MaxGap, n \in 0..MaxBlock :
              NextBlock(g, u, n) /\ step' = step
        BY <1>3 DEF PushMuted
    <2>2. g \in Nat /\ u \in Int /\ n \in Int /\ <<>> \in Seq(Int)
        BY AudioAssumption, EmptySeq
    <2> QED BY <1>0, <2>1, <2>2
            DEF NextBlock, IInv, BudgetInv, SkipsAddUp, portVars
<1>4. CASE PushSample
    <2>1. Place \in Int
        BY <1>0, AudioAssumption DEF BudgetInv, Place
    <2>2. ring' \in Seq(Int) /\ out' \in Seq(Int) /\ pos' \in Int
        <3>1. ring \in Seq(Int) /\ out \in Seq(Int) /\ pos + step \in Int
            BY <1>0 DEF BudgetInv
        <3>2. Append(ring, Place) \in Seq(Int) /\ Append(out, Place) \in Seq(Int)
            BY <2>1, <3>1, AppendProperties
        <3>3. /\ ring' = Append(ring, Place) \/ ring' = ring
              /\ out' = Append(out, Place) \/ out' = out
              /\ pos' = pos + step
            BY <1>4 DEF PushSample
        <3> QED BY <3>1, <3>2, <3>3
    <2> QED BY <1>0, <1>4, <2>2
            DEF PushSample, IInv, BudgetInv, SkipsAddUp, portVars
<1>5. CASE PushEnd
    <2>1. pos' \in Int
        <3>1. len * Unit \in Int /\ -Unit \in Int /\ pos \in Int
            BY <1>0, AudioAssumption DEF BudgetInv
        <3>2. Carried \in Int
            BY <3>1 DEF Carried, AtLeast
        <3> QED BY <1>5, <3>2 DEF PushEnd
    <2>2. [kind |-> "samples", data |-> out] \in Samples \cup Skip
        BY <1>0 DEF BudgetInv, Samples
    <2>3. port' \in Seq(Samples \cup Skip)
        BY <1>0, <1>5, <2>2, AppendProperties DEF PushEnd, BudgetInv
    <2> QED BY <1>0, <1>5, <2>1, <2>3
            DEF PushEnd, IInv, BudgetInv, SkipsAddUp
<1>6. CASE SkipSeconds
    <2> DEFINE n == (gap * Unit) \div Nominal
    <2>1. n \in Nat
        <3>1. gap * Unit \in Nat /\ Nominal \in Nat \ {0}
            BY <1>0, AudioAssumption DEF BudgetInv
        <3> QED BY <3>1
    <2>2. UNCHANGED <<be, len, src, pos, step, gap, out, ring, cpc, rem, discarded>>
        BY <1>6 DEF SkipSeconds
    <2>3. \/ skip' = skip + n /\ asked' = asked + n /\ UNCHANGED <<port, posted>>
          \/ /\ n > 0 /\ port' = Append(port, [kind |-> "skip", n |-> n])
             /\ asked' = asked + n /\ posted' = posted + n /\ UNCHANGED skip
          \/ UNCHANGED <<port, asked, posted, skip>>
        BY <1>6 DEF SkipSeconds
    <2> HIDE DEF n
    <2>4. port' \in Seq(Samples \cup Skip)
        <3>1. [kind |-> "skip", n |-> n] \in Samples \cup Skip
            BY <2>1 DEF Skip
        <3>2. port \in Seq(Samples \cup Skip)
            BY <1>0 DEF BudgetInv
        <3>3. Append(port, [kind |-> "skip", n |-> n]) \in Seq(Samples \cup Skip)
            BY <3>1, <3>2, AppendProperties
        <3> QED BY <2>3, <3>2, <3>3
    <2>5. asked' \in Int /\ posted' \in Int /\ skip' \in Nat
          /\ asked' = discarded + skip' + rem + posted'
        BY <1>0, <2>1, <2>3 DEF BudgetInv, SkipsAddUp
    <2> QED BY <1>0, <2>2, <2>4, <2>5 DEF IInv, BudgetInv, SkipsAddUp
<1> QED BY <1>2, <1>3, <1>4, <1>5, <1>6 DEF Push

(* The callback takes the budget as a whole, skips sample by sample and    *)
(* gives the rest back on top of what was added in the meantime.           *)
LEMMA CallbackStep ==
    ASSUME IInv, Callback
    PROVE  IInv'
<1>0. BudgetInv /\ SkipsAddUp
    BY DEF IInv
<1>1. CASE CbSwap
    BY <1>0, <1>1
    DEF CbSwap, IInv, BudgetInv, SkipsAddUp, pushVars, portVars, histVars
<1>2. CASE CbDrain
    <2>1. Tail(ring) \in Seq(Int)
        BY <1>0, <1>2, HeadTailProperties DEF CbDrain, BudgetInv
    <2> QED BY <1>0, <1>2, <2>1
            DEF CbDrain, Discard, IInv, BudgetInv, SkipsAddUp, pushVars, portVars
<1>3. CASE CbGiveBack
    BY <1>0, <1>3
    DEF CbGiveBack, IInv, BudgetInv, SkipsAddUp, pushVars, portVars, histVars
<1>4. CASE CbPlay
    <2>1. ring' \in Seq(Int)
        BY <1>0, <1>4, HeadTailProperties DEF CbPlay, BudgetInv
    <2> QED BY <1>0, <1>4, <2>1
            DEF CbPlay, IInv, BudgetInv, SkipsAddUp, pushVars, portVars, histVars
<1> QED BY <1>1, <1>2, <1>3, <1>4 DEF Callback

(* The worklet takes it from a message and pays it from its queue. *)
LEMMA WorkletStep ==
    ASSUME IInv, Worklet
    PROVE  IInv'
<1>0. BudgetInv /\ SkipsAddUp
    BY DEF IInv
<1>1. CASE WorkletMessage
    <2>1. Head(port) \in Samples \cup Skip /\ Tail(port) \in Seq(Samples \cup Skip)
        BY <1>0, <1>1, HeadTailProperties DEF WorkletMessage, BudgetInv
    <2>2. UNCHANGED <<be, pushVars, cpc, rem, asked, discarded>>
          /\ port' = Tail(port)
        BY <1>1 DEF WorkletMessage
    <2>3. CASE Head(port).kind = "samples"
        <3>1. Head(port).data \in Seq(Int)
            BY <2>1, <2>3 DEF Samples, Skip
        <3>2. ring' \in Seq(Int) /\ UNCHANGED <<skip, posted>>
            BY <1>0, <1>1, <2>3, <3>1, ConcatProperties DEF WorkletMessage, BudgetInv
        <3> QED BY <1>0, <2>1, <2>2, <3>2
                DEF IInv, BudgetInv, SkipsAddUp, pushVars
    <2>4. CASE Head(port).kind # "samples"
        <3>1. PICK n \in Nat : n = Head(port).n
            BY <2>1, <2>4 DEF Samples, Skip
        <3>2. skip' = skip + n /\ posted' = posted - n /\ ring' = ring
            BY <1>1, <2>4, <3>1 DEF WorkletMessage
        <3>3. skip' \in Nat /\ posted' \in Int /\ SkipsAddUp'
            BY <1>0, <2>2, <3>2 DEF BudgetInv, SkipsAddUp
        <3>4. BudgetInv'
            BY <1>0, <2>1, <2>2, <3>2, <3>3 DEF BudgetInv, pushVars
        <3> QED BY <3>3, <3>4 DEF IInv
    <2> QED BY <2>3, <2>4
<1>2. CASE WorkletProcess
    <2> DEFINE k == AtMost(skip, Len(ring))
    <2>1. k \in Nat /\ skip - k \in Nat
        BY <1>0 DEF AtMost, BudgetInv
    <2>2. /\ ring' = Beyond(Beyond(ring, k), Quantum)
          /\ skip' = skip - k /\ discarded' = discarded + k
          /\ UNCHANGED <<be, pushVars, cpc, rem, port, asked, posted>>
        BY <1>2 DEF WorkletProcess, Discard
    <2>3. ASSUME NEW s \in Seq(Int), NEW d \in Nat
          PROVE  Beyond(s, d) \in Seq(Int)
        <3>1. AtMost(d, Len(s)) + 1 \in 1..(Len(s) + 1) /\ Len(s) \in Nat
            BY DEF AtMost
        <3> QED BY <3>1 DEF Beyond
    <2> HIDE DEF k
    <2>4. ring' \in Seq(Int)
        BY <1>0, <2>1, <2>2, <2>3, AudioAssumption DEF BudgetInv
    <2> QED BY <1>0, <2>1, <2>2, <2>4
            DEF IInv, BudgetInv, SkipsAddUp, pushVars
<1> QED BY <1>1, <1>2 DEF Worklet

(* SkipsAddUp: whatever push, the callback and the worklet do at the same  *)
(* time, what was asked for is skipped, to be skipped or on its way.       *)
THEOREM NoSkipLost == Spec => []SkipsAddUp
<1>1. IInv /\ [Next]_vars => IInv'
    <2> SUFFICES ASSUME IInv, [Next]_vars PROVE IInv'
        OBVIOUS
    <2>1. CASE ReadReport \/ NodeReady \/ Resume \/ DropWeb \/ UNCHANGED vars
        BY <2>1
        DEF ReadReport, NodeReady, Resume, DropWeb, vars, pushVars, portVars,
            histVars, IInv, BudgetInv, SkipsAddUp
    <2> QED BY <2>1, EngineStep, CallbackStep, WorkletStep DEF Next
<1>2. IInv => SkipsAddUp
    BY DEF IInv
<1> QED BY InitIInv, <1>1, <1>2, PTL DEF Spec
-----------------------------------------------------------------------------
(* What is queued is in pace with the source. *)

Load(m) == IF m.kind = "samples" THEN m.data ELSE <<>>
Made == IF epc = "push" THEN out ELSE <<>>

(* Where push goes on: the place of the next output sample. *)
Upcoming == (IF epc = "push" THEN src - len ELSE src) * Unit + pos

(* The sample at a may be followed by the next one that push makes. *)
Leads(a) == a < Upcoming /\ (seam \/ Upcoming - a \in Steps)

(* s is the part of w that ends at place e. *)
Slice(s, w, e) ==
    /\ Len(s) <= e /\ e <= Len(w)
    /\ \A i \in 1..Len(s) : s[i] = w[e - Len(s) + i]

(* The output samples w, in the order they were made: the queue, then the  *)
(* messages to the worklet, then the block being made; cut[k] is where the *)
(* k-th message ends.                                                      *)
Pieces(w, cut) ==
    /\ w \in Seq(Int) /\ InPace(w)
    /\ w # <<>> => Leads(w[Len(w)])
    /\ cut \in [0..Len(port) -> Nat]
    /\ Slice(ring, w, cut[0])
    /\ \A k \in 1..Len(port) : /\ cut[k] = cut[k - 1] + Len(Load(port[k]))
                               /\ Slice(Load(port[k]), w, cut[k])
    /\ Len(w) = cut[Len(port)] + Len(Made)
    /\ Slice(Made, w, Len(w))

(* A worklet that is not there yet has nothing queued; the ring of cpal is *)
(* written to directly.                                                    *)
PlaceInv ==
    /\ step \in Steps /\ node \in {"pending", "ready"}
    /\ InPace(out)
    /\ be = "cpal" => out = <<>> /\ port = <<>> /\ node = "ready"
    /\ node = "pending" => ring = <<>> /\ port = <<>>

PaceInv == IInv /\ PlaceInv /\ \E w, cut : Pieces(w, cut)

(* A part of a sequence in pace is in pace. *)
LEMMA SliceInPace ==
    ASSUME NEW s \in Seq(Int), NEW w \in Seq(Int), NEW e \in Int,
           InPace(w), Slice(s, w, e)
    PROVE  InPace(s)
<1> SUFFICES ASSUME NEW i \in 1..(Len(s) - 1)
             PROVE  /\ s[i] < s[i + 1]
                    /\ s[i + 1] - s[i] \in Steps \/ s[i + 1] \in seams
    BY DEF InPace
<1> DEFINE j == e - Len(s) + i
<1>1. Len(s) \in Nat /\ Len(w) \in Nat
    BY LenProperties
<1>2. i \in 1..Len(s) /\ i + 1 \in 1..Len(s) /\ j \in 1..(Len(w) - 1)
      /\ e - Len(s) + (i + 1) = j + 1
    BY <1>1 DEF Slice
<1>3. s[i] = w[j] /\ s[i + 1] = w[j + 1]
    BY <1>2 DEF Slice
<1> HIDE DEF j
<1> QED BY <1>2, <1>3 DEF InPace

(* What is left of a part when its beginning is taken away. *)
LEMMA SliceDrop ==
    ASSUME NEW s \in Seq(Int), NEW t \in Seq(Int), NEW w \in Seq(Int), NEW e \in Int,
           Slice(s, w, e), Len(t) <= Len(s),
           \A i \in 1..Len(t) : t[i] = s[Len(s) - Len(t) + i]
    PROVE  Slice(t, w, e)
<1>1. Len(s) \in Nat /\ Len(t) \in Nat /\ Len(w) \in Nat
    BY LenProperties
<1>2. ASSUME NEW i \in 1..Len(t)
      PROVE  t[i] = w[e - Len(t) + i]
    <2>1. Len(s) - Len(t) + i \in 1..Len(s)
          /\ e - Len(s) + (Len(s) - Len(t) + i) = e - Len(t) + i
        BY <1>1
    <2> QED BY <2>1 DEF Slice
<1>3. Len(t) <= e /\ e <= Len(w)
    BY <1>1 DEF Slice
<1> QED BY <1>2, <1>3, Zenon DEF Slice

(* Two parts next to each other. *)
LEMMA SliceJoin ==
    ASSUME NEW s \in Seq(Int), NEW t \in Seq(Int), NEW w \in Seq(Int),
           NEW d \in Int, NEW e \in Int, e = d + Len(t),
           Slice(s, w, d), Slice(t, w, e)
    PROVE  s \o t \in Seq(Int) /\ Slice(s \o t, w, e)
<1>1. Len(s) \in Nat /\ Len(t) \in Nat /\ Len(w) \in Nat
    BY LenProperties
<1>2. /\ s \o t \in Seq(Int) /\ Len(s \o t) = Len(s) + Len(t)
      /\ \A i \in 1..(Len(s) + Len(t)) :
            (s \o t)[i] = IF i <= Len(s) THEN s[i] ELSE t[i - Len(s)]
    BY ConcatProperties
<1>3. ASSUME NEW i \in 1..Len(s \o t)
      PROVE  (s \o t)[i] = w[e - Len(s \o t) + i]
    <2>1. CASE i <= Len(s)
        <3>1. i \in 1..Len(s) /\ e - Len(s \o t) + i = d - Len(s) + i
            BY <1>1, <1>2, <2>1
        <3> QED BY <1>2, <2>1, <3>1 DEF Slice
    <2>2. CASE ~(i <= Len(s))
        <3>1. i - Len(s) \in 1..Len(t)
              /\ e - Len(s \o t) + i = e - Len(t) + (i - Len(s))
            BY <1>1, <1>2, <2>2
        <3> QED BY <1>2, <2>2, <3>1 DEF Slice
    <2> QED BY <2>1, <2>2
<1> QED BY <1>1, <1>2, <1>3 DEF Slice

(* One more sample at the end: parts that do not reach it stay, and the    *)
(* last part grows by it.                                                  *)
LEMMA SliceAppend ==
    ASSUME NEW s \in Seq(Int), NEW w \in Seq(Int), NEW e \in Int, NEW a \in Int,
           Slice(s, w, e)
    PROVE  /\ Slice(s, Append(w, a), e)
           /\ e = Len(w) => Slice(Append(s, a), Append(w, a), e + 1)
<1>1. Len(s) \in Nat /\ Len(w) \in Nat
    BY LenProperties
<1>2. /\ Len(Append(w, a)) = Len(w) + 1 /\ Append(w, a)[Len(w) + 1] = a
      /\ \A i \in 1..Len(w) : Append(w, a)[i] = w[i]
      /\ Len(Append(s, a)) = Len(s) + 1 /\ Append(s, a)[Len(s) + 1] = a
      /\ \A i \in 1..Len(s) : Append(s, a)[i] = s[i]
    BY AppendProperties
<1>3. \A i \in 1..Len(s) : e - Len(s) + i \in 1..Len(w)
    BY <1>1 DEF Slice
<1>4. Slice(s, Append(w, a), e)
    BY <1>1, <1>2, <1>3 DEF Slice
<1>5. ASSUME e = Len(w)
      PROVE  Slice(Append(s, a), Append(w, a), e + 1)
    <2>1. PICK sa, wa, f : sa = Append(s, a) /\ wa = Append(w, a) /\ f = e + 1
        OBVIOUS
    <2>2. /\ Len(sa) = Len(s) + 1 /\ sa[Len(s) + 1] = a
          /\ \A i \in 1..Len(s) : sa[i] = s[i]
          /\ f \in Int /\ Len(wa) = f /\ wa[f] = a
          /\ \A i \in 1..Len(w) : wa[i] = w[i]
        BY <1>1, <1>2, <1>5, <2>1
    <2>3. ASSUME NEW i \in 1..Len(sa)
          PROVE  sa[i] = wa[f - Len(sa) + i]
        <3>1. i \in Int /\ f - Len(sa) + i = e - Len(s) + i
            BY <1>1, <2>1, <2>2
        <3>2. CASE i = Len(s) + 1
            <4>1. e - Len(s) + i = f
                BY <1>1, <2>1, <3>2
            <4> QED BY <2>2, <3>1, <3>2, <4>1
        <3>3. CASE i # Len(s) + 1
            <4>1. i \in 1..Len(s)
                BY <1>1, <2>2, <3>3
            <4> QED BY <1>3, <2>2, <3>1, <4>1 DEF Slice
        <3> QED BY <3>2, <3>3
    <2>4. Len(sa) <= f /\ f <= Len(wa)
        BY <1>1, <1>5, <2>1, <2>2 DEF Slice
    <2>5. Slice(sa, wa, f)
        BY <2>3, <2>4, Zenon DEF Slice
    <2> QED BY <2>1, <2>5
<1> QED BY <1>4, <1>5

(* What the proofs below use of the state. *)
LEMMA PaceTypes ==
    ASSUME PaceInv
    PROVE  /\ ring \in Seq(Int) /\ out \in Seq(Int) /\ Made \in Seq(Int)
           /\ port \in Seq(Samples \cup Skip)
           /\ \A m \in Samples \cup Skip : Load(m) \in Seq(Int)
           /\ \A k \in 1..Len(port) : Load(port[k]) \in Seq(Int)
           /\ src \in Int /\ len \in Int /\ pos \in Int /\ step \in Steps
           /\ Unit \in Nat \ {0} /\ src * Unit \in Int /\ len * Unit \in Int
           /\ Upcoming \in Int
<1>1. /\ ring \in Seq(Int) /\ out \in Seq(Int) /\ port \in Seq(Samples \cup Skip)
      /\ src \in Int /\ len \in Int /\ pos \in Int /\ step \in Steps
    BY DEF PaceInv, IInv, BudgetInv, PlaceInv
<1>2. <<>> \in Seq(Int)
    BY EmptySeq
<1>3. \A m \in Samples \cup Skip : Load(m) \in Seq(Int)
    BY <1>2 DEF Load, Samples, Skip
<1>4. \A k \in 1..Len(port) : Load(port[k]) \in Seq(Int)
    BY <1>1, <1>3, ElementOfSeq
<1>5. Made \in Seq(Int)
    BY <1>1, <1>2 DEF Made
<1>6. Unit \in Nat \ {0} /\ src * Unit \in Int /\ len * Unit \in Int
    BY <1>1, AudioAssumption
<1>7. (src - len) * Unit \in Int
    BY <1>1, <1>6
<1>8. Upcoming \in Int
    BY <1>1, <1>6, <1>7 DEF Upcoming
<1> QED BY <1>1, <1>3, <1>4, <1>5, <1>6, <1>8

(* Breaks are only ever added. *)
LEMMA PaceStays ==
    ASSUME NEW s, InPace(s), seams \subseteq seams'
    PROVE  InPace(s)'
BY DEF InPace

(* A step that makes no output sample and moves none but from the queue:   *)
(* what it takes is the oldest.                                            *)
LEMMA PiecesKept ==
    ASSUME PaceInv,
           ring' \in Seq(Int), Len(ring') <= Len(ring),
           \A i \in 1..Len(ring') : ring'[i] = ring[Len(ring) - Len(ring') + i],
           port' = port, Made' = Made, seams \subseteq seams',
           \A a \in Int : Leads(a) => Leads(a)'
    PROVE  \E w, cut : Pieces(w, cut)'
<1>1. PICK w, cut : Pieces(w, cut)
    BY DEF PaceInv
<1>2. PICK r : r = ring'
    OBVIOUS
<1>3. w \in Seq(Int) /\ InPace(w)' /\ Len(w) \in Nat
    BY <1>1, PaceStays, LenProperties DEF Pieces
<1>4. w # <<>> => Leads(w[Len(w)])'
    <2>1. w # <<>> => w[Len(w)] \in Int
        <3>1. w # <<>> => Len(w) \in 1..Len(w)
            BY <1>3, EmptySeq
        <3> QED BY <1>3, <3>1, ElementOfSeq
    <2> QED BY <1>1, <2>1 DEF Pieces
<1>5. Slice(r, w, cut[0])
    <2>1. Slice(ring, w, cut[0]) /\ cut[0] \in Int
        <3>1. Len(port) \in Nat
            BY PaceTypes
        <3> QED BY <1>1, <3>1 DEF Pieces
    <2>2. ring \in Seq(Int)
        BY PaceTypes
    <2> QED BY <1>2, <1>3, <2>1, <2>2, SliceDrop
<1>6. Pieces(w, cut)'
    BY <1>1, <1>2, <1>3, <1>4, <1>5 DEF Pieces
<1> QED BY <1>6

(* A message goes to the worklet with what was made, or with nothing when  *)
(* nothing was.                                                            *)
LEMMA PiecesPosted ==
    ASSUME PaceInv,
           NEW m \in Samples \cup Skip, port' = Append(port, m), Made = Load(m),
           Made' = <<>>, ring' = ring, seams \subseteq seams',
           \A a \in Int : Leads(a) => Leads(a)'
    PROVE  \E w, cut : Pieces(w, cut)'
<1>1. PICK w, cut : Pieces(w, cut)
    BY DEF PaceInv
<1>2. w \in Seq(Int) /\ InPace(w)' /\ Len(w) \in Nat
    BY <1>1, PaceStays, LenProperties DEF Pieces
<1>3. w # <<>> => Leads(w[Len(w)])'
    <2>1. w # <<>> => w[Len(w)] \in Int
        <3>1. w # <<>> => Len(w) \in 1..Len(w)
            BY <1>2, EmptySeq
        <3> QED BY <1>2, <3>1, ElementOfSeq
    <2> QED BY <1>1, <2>1 DEF Pieces
<1>4. /\ Len(port) \in Nat /\ Len(port') = Len(port) + 1
      /\ \A k \in 1..Len(port) : port'[k] = port[k]
      /\ port'[Len(port) + 1] = m
    BY PaceTypes, AppendProperties
<1>5. PICK c : c = [k \in 0..Len(port') |-> IF k <= Len(port) THEN cut[k] ELSE Len(w)]
    OBVIOUS
<1>6. /\ c \in [0..Len(port') -> Nat] /\ c[Len(port')] = Len(w)
      /\ \A k \in 0..Len(port) : c[k] = cut[k]
    BY <1>1, <1>2, <1>4, <1>5 DEF Pieces
<1>7. Slice(ring, w, c[0])
    BY <1>1, <1>4, <1>6 DEF Pieces
<1>8. ASSUME NEW k \in 1..Len(port')
      PROVE  c[k] = c[k - 1] + Len(Load(port'[k])) /\ Slice(Load(port'[k]), w, c[k])
    <2>1. CASE k \in 1..Len(port)
        <3>1. k - 1 \in 0..Len(port) /\ k \in 0..Len(port)
            BY <1>4, <2>1
        <3> QED BY <1>1, <1>4, <1>6, <2>1, <3>1 DEF Pieces
    <2>2. CASE k \notin 1..Len(port)
        <3>1. k = Len(port) + 1 /\ k - 1 = Len(port) /\ k - 1 \in 0..Len(port)
            BY <1>4, <2>2
        <3> QED BY <1>1, <1>4, <1>6, <3>1 DEF Pieces
    <2> QED BY <2>1, <2>2
<1>9. Len(w) = c[Len(port')] + Len(Made') /\ Slice(Made', w, Len(w))
    <2>1. PICK z : z = Made' /\ Len(z) = 0
        BY EmptySeq
    <2>2. Slice(z, w, Len(w))
        BY <1>2, <2>1 DEF Slice
    <2> QED BY <1>2, <1>6, <2>1, <2>2
<1>10. Pieces(w, c)'
    <2>1. Slice(ring', w, c[0])
        BY <1>7
    <2>2. \A k \in 1..Len(port') : Slice(Load(port'[k]), w, c[k])
        BY <1>8
    <2> QED BY <1>2, <1>3, <1>6, <1>8, <1>9, <2>1, <2>2 DEF Pieces, Load
<1> QED BY <1>10

(* The worklet puts the load of its first message behind its queue. *)
LEMMA PiecesTaken ==
    ASSUME PaceInv,
           port # <<>>, port' = Tail(port), ring' = ring \o Load(Head(port)),
           Made' = Made, seams \subseteq seams',
           \A a \in Int : Leads(a) => Leads(a)'
    PROVE  \E w, cut : Pieces(w, cut)'
<1>1. PICK w, cut : Pieces(w, cut)
    BY DEF PaceInv
<1>2. w \in Seq(Int) /\ InPace(w)' /\ Len(w) \in Nat
    BY <1>1, PaceStays, LenProperties DEF Pieces
<1>3. w # <<>> => Leads(w[Len(w)])'
    <2>1. w # <<>> => w[Len(w)] \in Int
        <3>1. w # <<>> => Len(w) \in 1..Len(w)
            BY <1>2, EmptySeq
        <3> QED BY <1>2, <3>1, ElementOfSeq
    <2> QED BY <1>1, <2>1 DEF Pieces
<1>4. /\ Len(port) \in Nat \ {0} /\ Head(port) = port[1] /\ 1 \in 1..Len(port)
      /\ Len(port') = Len(port) - 1
      /\ \A k \in 1..Len(port') : port'[k] = port[k + 1]
    BY PaceTypes, HeadTailProperties, EmptySeq
<1>5. PICK c : c = [k \in 0..Len(port') |-> cut[k + 1]]
    OBVIOUS
<1>6. /\ c \in [0..Len(port') -> Nat]
      /\ \A k \in 0..Len(port') : c[k] = cut[k + 1]
      /\ c[0] = cut[1] /\ c[Len(port')] = cut[Len(port)]
    BY <1>1, <1>4, <1>5 DEF Pieces
<1>7. PICK r : r = ring'
    OBVIOUS
<1>8. Slice(r, w, c[0])
    <2>1. ring \in Seq(Int) /\ Load(port[1]) \in Seq(Int)
        BY <1>4, PaceTypes
    <2>2. /\ cut[0] \in Int /\ cut[1] \in Int
          /\ cut[1] = cut[0] + Len(Load(port[1]))
          /\ Slice(ring, w, cut[0]) /\ Slice(Load(port[1]), w, cut[1])
        <3>1. 1 - 1 = 0
            OBVIOUS
        <3> QED BY <1>1, <1>4, <3>1 DEF Pieces
    <2>3. Slice(ring \o Load(port[1]), w, cut[1])
        BY <1>2, <2>1, <2>2, SliceJoin
    <2> QED BY <1>4, <1>6, <1>7, <2>3
<1>9. ASSUME NEW k \in 1..Len(port')
      PROVE  c[k] = c[k - 1] + Len(Load(port'[k])) /\ Slice(Load(port'[k]), w, c[k])
    <2>1. k + 1 \in 1..Len(port) /\ k \in 0..Len(port') /\ k - 1 \in 0..Len(port')
          /\ (k - 1) + 1 = k /\ (k + 1) - 1 = k
        BY <1>4
    <2> QED BY <1>1, <1>4, <1>6, <2>1 DEF Pieces
<1>10. Pieces(w, c)'
    <2>1. Len(w) = c[Len(port')] + Len(Made') /\ Slice(Made', w, Len(w))
        BY <1>1, <1>6 DEF Pieces
    <2> QED BY <1>2, <1>3, <1>6, <1>7, <1>8, <1>9, <2>1 DEF Pieces, Load
<1> QED BY <1>10

(* resample_push puts one more sample at the end of everything: a servo's  *)
(* step after the one before it, or behind a break.                        *)
LEMMA PiecesMade ==
    ASSUME PaceInv, PushSample
    PROVE  InPace(out)' /\ \E w, cut : Pieces(w, cut)'
<1>0. /\ UNCHANGED <<be, epc, src, len, step, port>> /\ epc = "push"
      /\ pos' = pos + step /\ seam' = FALSE
      /\ seams' = IF seam THEN seams \cup {Place} ELSE seams
      /\ IF be = "cpal" THEN ring' = Append(ring, Place) /\ out' = out
                        ELSE out' = Append(out, Place) /\ ring' = ring
    BY DEF PushSample, portVars
<1>1. PICK w, cut : Pieces(w, cut)
    BY DEF PaceInv
<1>2. PICK a : a = Place
    OBVIOUS
<1>3. a \in Int /\ a = Upcoming /\ Upcoming' = a + step /\ step \in Steps /\ step \in Nat \ {0}
    <2>1. (src - len) * Unit \in Int /\ pos \in Int /\ step \in Steps /\ step \in Nat \ {0}
        <3>1. src \in Int /\ len \in Int /\ pos \in Int /\ step \in Steps /\ Unit \in Int
            BY PaceTypes
        <3>2. src - len \in Int
            BY <3>1
        <3>3. (src - len) * Unit \in Int
            BY <3>1, <3>2
        <3> QED BY <3>1, <3>3, AudioAssumption
    <2>2. Upcoming' = ((src - len) * Unit) + (pos + step)
        BY <1>0 DEF Upcoming
    <2> QED BY <1>0, <1>2, <2>1, <2>2 DEF Upcoming, Place
<1>4. Leads(a)'
    <2>1. a < Upcoming' /\ Upcoming' - a = step
        BY <1>3
    <2> QED BY <1>3, <2>1 DEF Leads
<1>5. PICK v : v = Append(w, a)
    OBVIOUS
<1>6. /\ w \in Seq(Int) /\ Len(w) \in Nat
      /\ v \in Seq(Int) /\ Len(v) = Len(w) + 1 /\ v[Len(w) + 1] = a
      /\ \A i \in 1..Len(w) : v[i] = w[i]
    BY <1>1, <1>3, <1>5, AppendProperties DEF Pieces
<1>7. InPace(v)'
    <2> SUFFICES ASSUME NEW i \in 1..(Len(v) - 1)
                 PROVE  /\ v[i] < v[i + 1]
                        /\ v[i + 1] - v[i] \in Steps \/ v[i + 1] \in seams'
        BY DEF InPace
    <2>1. CASE i < Len(w)
        <3>1. i \in 1..(Len(w) - 1) /\ i \in 1..Len(w) /\ i + 1 \in 1..Len(w)
            BY <1>6, <2>1
        <3>2. w[i] < w[i + 1] /\ (w[i + 1] - w[i] \in Steps \/ w[i + 1] \in seams)
            BY <1>1, <3>1 DEF Pieces, InPace
        <3> QED BY <1>0, <1>6, <3>1, <3>2
    <2>2. CASE ~(i < Len(w))
        <3>1. i = Len(w) /\ i \in 1..Len(w)
            BY <1>6, <2>2
        <3>2. w # <<>>
            BY <3>1, EmptySeq
        <3>3. w[i] < a /\ (seam \/ a - w[i] \in Steps)
            BY <1>1, <1>3, <3>1, <3>2 DEF Pieces, Leads
        <3> QED BY <1>0, <1>2, <1>6, <3>1, <3>3
    <2> QED BY <2>1, <2>2
<1>8. v # <<>> /\ v[Len(v)] = a
    BY <1>6, EmptySeq
<1>9. CASE be = "cpal"
    <2>1. port = <<>> /\ out = <<>> /\ InPace(out) /\ Made = <<>> /\ Len(port) = 0
          /\ out' = out /\ Made' = <<>>
        BY <1>0, <1>9, EmptySeq DEF PaceInv, PlaceInv, Made
    <2>2. Len(w) = cut[0] /\ cut[0] \in Nat /\ Slice(ring, w, cut[0])
        <3>1. Len(Made) = 0
            BY <2>1, EmptySeq
        <3> QED BY <1>1, <1>6, <2>1, <3>1 DEF Pieces
    <2>3. PICK r : r = ring' /\ r = Append(ring, a)
        BY <1>0, <1>2, <1>9
    <2>4. Slice(r, v, cut[0] + 1)
        <3>1. ring \in Seq(Int) /\ w \in Seq(Int) /\ cut[0] \in Int /\ a \in Int
              /\ Slice(ring, w, cut[0]) /\ cut[0] = Len(w)
            BY <1>3, <1>6, <2>2, PaceTypes
        <3>2. Slice(Append(ring, a), Append(w, a), cut[0] + 1)
            BY <3>1, SliceAppend
        <3> QED BY <1>5, <2>3, <3>2
    <2>5. PICK c : c = [k \in 0..0 |-> cut[0] + 1]
        OBVIOUS
    <2>6. c \in [0..0 -> Nat] /\ c[0] = cut[0] + 1
        BY <2>2, <2>5
    <2>7. PICK z : z = Made' /\ Len(z) = 0 /\ Slice(z, v, Len(v))
        BY <1>6, <2>1, EmptySeq DEF Slice
    <2>8. Pieces(v, c)'
        <3>1. Len(v) = c[0] + Len(Made') /\ Len(port') = 0
            BY <1>0, <1>6, <2>1, <2>2, <2>6, <2>7
        <3> QED BY <1>4, <1>6, <1>7, <1>8, <2>3, <2>4, <2>6, <2>7, <3>1 DEF Pieces
    <2>9. InPace(out)'
        BY <2>1 DEF InPace
    <2> QED BY <2>8, <2>9
<1>10. CASE be # "cpal"
    <2>1. PICK o : o = Append(out, a) /\ o = out' /\ o = Made' /\ Made = out /\ ring' = ring
        BY <1>0, <1>2, <1>10 DEF Made
    <2>2. Len(w) = cut[Len(port)] + Len(out) /\ Slice(out, w, Len(w))
        BY <1>1, <2>1 DEF Pieces
    <2>3. out \in Seq(Int) /\ ring \in Seq(Int) /\ Len(out) \in Nat /\ Len(o) = Len(out) + 1
        <3>1. out \in Seq(Int) /\ ring \in Seq(Int) /\ a \in Int
            BY <1>3, PaceTypes
        <3>2. Len(Append(out, a)) = Len(out) + 1 /\ Len(out) \in Nat
            BY <3>1, AppendProperties, LenProperties
        <3> QED BY <2>1, <3>1, <3>2
    <2>4. Slice(o, v, Len(v))
        <3>1. out \in Seq(Int) /\ w \in Seq(Int) /\ Len(w) \in Int /\ a \in Int
              /\ Slice(out, w, Len(w))
            BY <1>3, <1>6, <2>2, <2>3
        <3>2. Slice(Append(out, a), Append(w, a), Len(w) + 1)
            BY <3>1, SliceAppend
        <3> QED BY <1>5, <1>6, <2>1, <3>2
    <2>5. Len(port) \in Nat /\ cut \in [0..Len(port) -> Nat]
        BY <1>1, PaceTypes DEF Pieces
    <2>6. Slice(ring, v, cut[0])
        <3>1. Slice(ring, w, cut[0]) /\ cut[0] \in Int
            BY <1>1, <2>5 DEF Pieces
        <3> QED BY <1>3, <1>5, <1>6, <2>3, <3>1, SliceAppend
    <2>7. ASSUME NEW k \in 1..Len(port)
          PROVE  Slice(Load(port[k]), v, cut[k])
        <3>1. Load(port[k]) \in Seq(Int) /\ cut[k] \in Int
            <4>1. \A j \in 1..Len(port) : Load(port[j]) \in Seq(Int)
                BY PaceTypes
            <4>2. k \in 0..Len(port)
                BY <2>5
            <4> QED BY <2>5, <4>1, <4>2
        <3>2. Slice(Load(port[k]), w, cut[k])
            BY <1>1 DEF Pieces
        <3>3. w \in Seq(Int) /\ a \in Int
            BY <1>3, <1>6
        <3>4. Slice(Load(port[k]), Append(w, a), cut[k])
            BY <3>1, <3>2, <3>3, SliceAppend
        <3> QED BY <1>5, <3>4
    <2>8. cut[Len(port)] \in Nat
        BY <2>5
    <2>9. Len(v) = cut[Len(port)] + Len(o)
        <3>1. cut[Len(port)] \in Nat /\ Len(out) \in Nat /\ Len(w) = cut[Len(port)] + Len(out)
            BY <2>2, <2>3, <2>8
        <3>2. Len(v) = Len(w) + 1 /\ Len(o) = Len(out) + 1
            BY <1>6, <2>3
        <3> QED BY <3>1, <3>2
    <2>10. Pieces(v, cut)'
        <3>1. Len(v) = cut[Len(port')] + Len(Made') /\ Slice(Made', v, Len(v))
            BY <1>0, <2>1, <2>4, <2>9
        <3> QED BY <1>0, <1>1, <1>4, <1>6, <1>7, <1>8, <2>1, <2>5, <2>6, <2>7, <3>1
                DEF Pieces, Load
    <2>11. InPace(o)'
        <3> SUFFICES ASSUME NEW i \in 1..(Len(o) - 1)
                     PROVE  /\ o[i] < o[i + 1]
                            /\ o[i + 1] - o[i] \in Steps \/ o[i + 1] \in seams'
            BY DEF InPace
        <3>1. PICK j : j = Len(v) - Len(o) + i
            OBVIOUS
        <3>2. Len(o) \in Nat /\ Len(v) \in Nat /\ Len(o) <= Len(v)
            BY <1>6, <2>3, <2>4 DEF Slice
        <3>3. i \in 1..Len(o) /\ i + 1 \in 1..Len(o) /\ j \in 1..(Len(v) - 1)
              /\ Len(v) - Len(o) + (i + 1) = j + 1
            BY <3>1, <3>2
        <3>4. o[i] = v[j] /\ o[i + 1] = v[j + 1]
            BY <2>4, <3>1, <3>3 DEF Slice
        <3> QED BY <1>7, <3>3, <3>4 DEF InPace
    <2> QED BY <2>1, <2>10, <2>11 DEF InPace
<1> QED BY <1>9, <1>10

(* The next place is the same as long as push goes on from where it was,   *)
(* and a later one only behind a break.                                    *)
LEMMA LeadsKept ==
    ASSUME PaceInv, Upcoming' \in Int, Upcoming <= Upcoming',
           seam => seam', seam' \/ Upcoming' = Upcoming
    PROVE  \A a \in Int : Leads(a) => Leads(a)'
<1>1. Upcoming \in Int
    BY PaceTypes
<1> QED BY <1>1 DEF Leads

(* The engine's steps. *)
LEMMA EnginePace ==
    ASSUME PaceInv, Push
    PROVE  PaceInv'
<1>0. IInv' /\ IInv /\ PlaceInv
    BY EngineStep DEF PaceInv
<1>1. /\ ring \in Seq(Int) /\ out \in Seq(Int) /\ Made \in Seq(Int)
      /\ src \in Int /\ len \in Int /\ pos \in Int /\ Unit \in Nat \ {0}
      /\ src * Unit \in Int /\ len * Unit \in Int
    BY PaceTypes
<1>2. ring \in Seq(Int) /\ Len(ring) <= Len(ring)
      /\ \A i \in 1..Len(ring) : ring[i] = ring[Len(ring) - Len(ring) + i]
    BY <1>1
<1>3. ASSUME NEW g \in 0..MaxGap, NEW u \in 0..MaxGap, NEW n \in 0..MaxBlock,
             NextBlock(g, u, n), step' \in Steps, seam => seam',
             \/ epc' = "push" /\ (seam' \/ g + u = 0)
             \/ epc' = "skip" /\ seam'
      PROVE  PaceInv'
    <2>1. g \in Nat /\ u \in Nat /\ n \in Nat
        BY AudioAssumption
    <2>2. /\ epc = "idle" /\ src' = src + g + u + n /\ len' = n /\ out' = <<>>
          /\ UNCHANGED <<be, pos, ring, port, node, seams>>
        BY <1>3 DEF NextBlock, portVars
    <2>3. Made = <<>> /\ Made' = <<>> /\ InPace(out)'
        BY <2>2, EmptySeq DEF Made, InPace
    <2>4. Upcoming' \in Int /\ Upcoming <= Upcoming' /\ (seam' \/ Upcoming' = Upcoming)
        <3>1. PICK d \in Nat : d = g + u
            BY <2>1
        <3>2. PICK e \in Nat : e = d + n
            BY <2>1, <3>1
        <3>3. d * Unit \in Nat /\ e * Unit \in Nat
            BY <1>1, <3>1, <3>2
        <3>4. (src + d) * Unit = src * Unit + d * Unit
              /\ (src + e) * Unit = src * Unit + e * Unit
            BY <1>1, <3>1, <3>2
        <3>5. src' = src + e /\ src' - len' = src + d
            BY <1>1, <2>1, <2>2, <3>1, <3>2
        <3>6. Upcoming = src * Unit + pos
            BY <2>2 DEF Upcoming
        <3>7. CASE epc' = "push"
            <4>1. Upcoming' = (src + d) * Unit + pos
                BY <2>2, <3>5, <3>7 DEF Upcoming
            <4>2. d = 0 => d * Unit = 0
                BY <1>1, <3>1
            <4> QED BY <1>1, <1>3, <3>1, <3>3, <3>4, <3>6, <3>7, <4>1, <4>2
        <3>8. CASE epc' = "skip"
            <4>1. Upcoming' = (src + e) * Unit + pos
                BY <2>2, <3>5, <3>8 DEF Upcoming
            <4> QED BY <1>1, <1>3, <3>3, <3>4, <3>6, <3>8, <4>1
        <3> QED BY <1>3, <3>7, <3>8
    <2>5. \A a \in Int : Leads(a) => Leads(a)'
        BY <1>3, <2>4, LeadsKept
    <2>6. \E w, cut : Pieces(w, cut)'
        BY <1>2, <2>2, <2>3, <2>5, PiecesKept
    <2> QED BY <1>0, <1>3, <2>2, <2>3, <2>6 DEF PaceInv, PlaceInv
<1>4. CASE PushBegin
    <2>1. PICK g \in 0..MaxGap, u \in 0..MaxGap, n \in 1..MaxBlock :
              /\ NextBlock(g, u, n) /\ step' \in Steps /\ epc' = "push"
              /\ seam' = (seam \/ g + u > 0)
        BY <1>4 DEF PushBegin
    <2>2. n \in 0..MaxBlock /\ g \in Nat /\ u \in Nat
        BY AudioAssumption
    <2>3. (seam => seam') /\ (seam' \/ g + u = 0)
        <3>1. g + u > 0 \/ g + u = 0
            BY <2>2
        <3> QED BY <2>1, <3>1, Zenon
    <2> QED BY <1>3, <2>1, <2>2, <2>3
<1>5. CASE PushMuted
    <2>1. PICK g \in 0..MaxGap, u \in 0..MaxGap, n \in 0..MaxBlock :
              NextBlock(g, u, n) /\ step' = step /\ epc' = "skip" /\ seam' = TRUE
        BY <1>5 DEF PushMuted
    <2>2. step' \in Steps
        BY <1>0, <2>1 DEF PlaceInv
    <2> QED BY <1>3, <2>1, <2>2
<1>6. CASE PushSample
    <2>1. InPace(out)' /\ \E w, cut : Pieces(w, cut)'
        BY <1>6, PiecesMade
    <2>2. /\ UNCHANGED <<be, step, port, node>>
          /\ be = "cpal" => out' = out
          /\ be # "cpal" => ring' = ring
        BY <1>6 DEF PushSample, portVars
    <2>3. PlaceInv'
        BY <1>0, <2>1, <2>2 DEF PlaceInv
    <2> QED BY <1>0, <2>1, <2>3 DEF PaceInv
<1>7. CASE PushEnd
    <2>1. /\ UNCHANGED <<be, src, len, step, out, ring, node, seams>>
          /\ epc = "push" /\ epc' = "skip" /\ pos' = Carried
          /\ pos >= Limit \/ Full
          /\ seam' = (seam \/ pos < Limit \/ (out # <<>> /\ node = "pending"))
          /\ port' = IF out # <<>> /\ node = "ready"
                     THEN Append(port, [kind |-> "samples", data |-> out]) ELSE port
        BY <1>7 DEF PushEnd
    <2>2. Made = out /\ Made' = <<>>
        BY <2>1 DEF Made
    <2>3. InPace(out)'
        BY <1>0, <2>1 DEF PlaceInv, InPace
    <2>4. Upcoming' \in Int /\ Upcoming <= Upcoming' /\ (pos < Limit \/ Upcoming' = Upcoming)
        <3>1. (src - len) * Unit = src * Unit - len * Unit
              /\ (len - 1) * Unit = len * Unit - Unit
            BY <1>1
        <3>2. PICK s \in Int, l \in Int : s = src * Unit /\ l = len * Unit
            BY <1>1
        <3>3. Upcoming = s - l + pos /\ Limit = l - Unit
            BY <2>1, <3>1, <3>2 DEF Upcoming, Limit
        <3>4. pos' = AtLeast(pos - l, -Unit) /\ Upcoming' = s + pos'
            BY <2>1, <3>2 DEF Upcoming, Carried
        <3> QED BY <1>1, <3>2, <3>3, <3>4 DEF AtLeast
    <2>5. \A a \in Int : Leads(a) => Leads(a)'
        <3>1. Limit \in Int /\ (pos < Limit \/ Upcoming' = Upcoming)
            BY <1>1, <2>4 DEF Limit
        <3> QED BY <2>1, <2>4, <3>1, LeadsKept
    <2>6. CASE out = <<>>
        <3>1. \E w, cut : Pieces(w, cut)'
            BY <1>2, <2>1, <2>2, <2>5, <2>6, PiecesKept
        <3> QED BY <1>0, <2>1, <2>3, <2>6, <3>1 DEF PaceInv, PlaceInv
    <2>7. CASE out # <<>> /\ node = "ready"
        <3>1. PICK m : m = [kind |-> "samples", data |-> out]
            OBVIOUS
        <3>2. m \in Samples \cup Skip /\ Load(m) = out
            BY <1>1, <3>1 DEF Samples, Load
        <3>3. port' = Append(port, m)
            BY <2>1, <2>7, <3>1
        <3>4. \E w, cut : Pieces(w, cut)'
            BY <2>1, <2>2, <2>5, <3>2, <3>3, PiecesPosted
        <3> QED BY <1>0, <2>1, <2>3, <2>7, <3>4 DEF PaceInv, PlaceInv
    <2>8. CASE out # <<>> /\ node # "ready"
        <3>1. ring' = <<>> /\ port' = <<>> /\ ring = <<>> /\ port = <<>> /\ node = "pending"
            <4>1. node = "pending"
                BY <1>0, <2>8 DEF PlaceInv
            <4> QED BY <1>0, <2>1, <2>8, <4>1 DEF PlaceInv
        <3>2. PICK w, c : w = <<>> /\ c = [k \in 0..0 |-> 0]
            OBVIOUS
        <3>3. Pieces(w, c)'
            <4>1. w \in Seq(Int) /\ Len(w) = 0 /\ c \in [0..0 -> Nat] /\ c[0] = 0
                BY <3>2, EmptySeq
            <4>2. PICK z : z = ring' /\ z = Made' /\ z = port' /\ Len(z) = 0
                BY <2>2, <3>1, EmptySeq
            <4>3. Slice(z, w, 0)
                BY <4>1, <4>2 DEF Slice
            <4>4. InPace(w)'
                BY <4>1 DEF InPace
            <4> QED BY <3>2, <4>1, <4>2, <4>3, <4>4 DEF Pieces
        <3> QED BY <1>0, <2>1, <2>3, <3>1, <3>3 DEF PaceInv, PlaceInv
    <2> QED BY <2>6, <2>7, <2>8
<1>8. CASE SkipSeconds
    <2>1. /\ UNCHANGED <<be, src, len, pos, step, out, ring, node, seam, seams>>
          /\ epc = "skip" /\ epc' = "idle"
        BY <1>8 DEF SkipSeconds
    <2>2. Made = <<>> /\ Made' = <<>> /\ InPace(out)'
        BY <1>0, <2>1 DEF Made, PlaceInv, InPace
    <2>3. \A a \in Int : Leads(a) => Leads(a)'
        BY <2>1 DEF Leads, Upcoming
    <2> DEFINE n == (gap * Unit) \div Nominal
    <2>4. \/ port' = port
          \/ be # "cpal" /\ node = "ready" /\ port' = Append(port, [kind |-> "skip", n |-> n])
        BY <1>8 DEF SkipSeconds
    <2>5. n \in Nat
        <3>1. gap * Unit \in Nat /\ Nominal \in Nat \ {0}
            BY <1>0, AudioAssumption DEF IInv, BudgetInv
        <3> QED BY <3>1
    <2> HIDE DEF n
    <2>6. CASE port' = port
        <3>1. \E w, cut : Pieces(w, cut)'
            BY <1>2, <2>1, <2>2, <2>3, <2>6, PiecesKept
        <3> QED BY <1>0, <2>1, <2>2, <2>6, <3>1 DEF PaceInv, PlaceInv
    <2>7. CASE port' # port
        <3>1. PICK m : m = [kind |-> "skip", n |-> n]
            OBVIOUS
        <3>2. m \in Samples \cup Skip /\ Load(m) = <<>>
            BY <2>5, <3>1 DEF Skip, Load
        <3>3. \E w, cut : Pieces(w, cut)'
            BY <2>1, <2>2, <2>3, <2>4, <2>7, <3>1, <3>2, PiecesPosted
        <3> QED BY <1>0, <2>1, <2>2, <2>4, <2>7, <3>3 DEF PaceInv, PlaceInv
    <2> QED BY <2>6, <2>7
<1> QED BY <1>4, <1>5, <1>6, <1>7, <1>8 DEF Push

(* The callback only takes from the front of the ring. *)
LEMMA CallbackPace ==
    ASSUME PaceInv, Callback
    PROVE  PaceInv'
<1>0. IInv' /\ IInv /\ PlaceInv /\ ring \in Seq(Int)
    BY CallbackStep, PaceTypes DEF PaceInv
<1>1. /\ UNCHANGED <<be, pushVars, portVars, seam, seams>>
      /\ ring' = ring \/ (ring # <<>> /\ ring' = Tail(ring))
    <2>1. CASE CbSwap
        BY <2>1 DEF CbSwap, histVars
    <2>2. CASE CbDrain
        BY <2>2 DEF CbDrain, Discard
    <2>3. CASE CbGiveBack
        BY <2>3 DEF CbGiveBack, histVars
    <2>4. CASE CbPlay
        BY <2>4 DEF CbPlay, histVars
    <2> QED BY <2>1, <2>2, <2>3, <2>4 DEF Callback
<1>2. Made' = Made /\ \A a \in Int : Leads(a) => Leads(a)'
    BY <1>1 DEF Made, Leads, Upcoming, pushVars
<1>3. /\ ring' \in Seq(Int) /\ Len(ring') <= Len(ring)
      /\ \A i \in 1..Len(ring') : ring'[i] = ring[Len(ring) - Len(ring') + i]
    <2>1. CASE ring' = ring
        <3>1. Len(ring) \in Nat
            BY <1>0
        <3> QED BY <1>0, <2>1, <3>1
    <2>2. CASE ring # <<>> /\ ring' = Tail(ring)
        <3>1. /\ Tail(ring) \in Seq(Int) /\ Len(Tail(ring)) = Len(ring) - 1
              /\ Len(ring) \in Nat
              /\ \A i \in 1..Len(Tail(ring)) : Tail(ring)[i] = ring[i + 1]
            BY <1>0, <2>2, HeadTailProperties, LenProperties
        <3>2. \A i \in 1..Len(Tail(ring)) : Len(ring) - (Len(ring) - 1) + i = i + 1
            BY <3>1
        <3> QED BY <2>2, <3>1, <3>2
    <2> QED BY <1>1, <2>1, <2>2
<1>4. \E w, cut : Pieces(w, cut)'
    BY <1>1, <1>2, <1>3, PiecesKept DEF portVars
<1>5. InPace(out)'
    BY <1>0, <1>1 DEF PlaceInv, InPace, pushVars
<1>6. ring = <<>> => ring' = <<>>
    BY <1>1
<1> QED BY <1>0, <1>1, <1>4, <1>5, <1>6 DEF PaceInv, PlaceInv, pushVars, portVars

(* What lies beyond the first d samples is the end of the sequence. *)
LEMMA BeyondIsEnd ==
    ASSUME NEW s \in Seq(Int), NEW d \in Nat
    PROVE  /\ Beyond(s, d) \in Seq(Int)
           /\ Len(s) \in Nat /\ Len(Beyond(s, d)) \in 0..Len(s)
           /\ \A i \in 1..Len(Beyond(s, d)) :
                  Beyond(s, d)[i] = s[Len(s) - Len(Beyond(s, d)) + i]
<1>1. PICK m \in Int : m = AtMost(d, Len(s)) + 1 /\ m \in 1..(Len(s) + 1)
    BY DEF AtMost
<1>2. Len(s) \in Nat /\ \A i \in m..Len(s) : s[i] \in Int
    BY <1>1
<1>3. PICK t : t = Beyond(s, d) /\ t = SubSeq(s, m, Len(s))
    BY <1>1 DEF Beyond
<1>4. /\ t \in Seq(Int)
      /\ Len(t) = IF m <= Len(s) THEN Len(s) - m + 1 ELSE 0
      /\ \A i \in 1..(Len(s) - m + 1) : t[i] = s[m + i - 1]
    BY <1>1, <1>2, <1>3, SubSeqProperties
<1>5. Len(t) = Len(s) - m + 1
    BY <1>1, <1>2, <1>4
<1>6. \A i \in 1..Len(t) : m + i - 1 = Len(s) - Len(t) + i
    BY <1>1, <1>2, <1>5
<1> QED BY <1>1, <1>2, <1>3, <1>4, <1>5, <1>6

(* The worklet takes messages in order and plays from the front. *)
LEMMA WorkletPace ==
    ASSUME PaceInv, Worklet
    PROVE  PaceInv'
<1>0. IInv' /\ IInv /\ PlaceInv /\ ring \in Seq(Int) /\ port \in Seq(Samples \cup Skip)
    BY WorkletStep, PaceTypes DEF PaceInv
<1>1. CASE WorkletMessage
    <2>1. /\ UNCHANGED <<be, pushVars, node, seam, seams>>
          /\ port # <<>> /\ port' = Tail(port)
          /\ IF Head(port).kind = "samples" THEN ring' = ring \o Head(port).data
                                            ELSE ring' = ring
        BY <1>1 DEF WorkletMessage
    <2>2. ring' = ring \o Load(Head(port))
        BY <1>0, <2>1, ConcatEmptySeq DEF Load
    <2>3. Made' = Made /\ (\A a \in Int : Leads(a) => Leads(a)') /\ InPace(out)'
        BY <1>0, <2>1 DEF Made, Leads, Upcoming, pushVars, PlaceInv, InPace
    <2>4. \E w, cut : Pieces(w, cut)'
        BY <2>1, <2>2, <2>3, PiecesTaken
    <2>5. PlaceInv'
        BY <1>0, <2>1, <2>3 DEF PlaceInv, pushVars
    <2> QED BY <1>0, <2>4, <2>5 DEF PaceInv
<1>2. CASE WorkletProcess
    <2> DEFINE k == AtMost(skip, Len(ring))
    <2>1. /\ ring' = Beyond(Beyond(ring, k), Quantum)
          /\ UNCHANGED <<be, pushVars, port, node, seam, seams>>
          /\ be = "web" /\ node = "ready"
        BY <1>2 DEF WorkletProcess, Discard
    <2>2. k \in Nat /\ Quantum \in Nat
        BY <1>0, AudioAssumption DEF AtMost, IInv, BudgetInv
    <2> HIDE DEF k
    <2>4. PICK b : b = Beyond(ring, k)
        OBVIOUS
    <2>5. /\ b \in Seq(Int) /\ Len(b) \in 0..Len(ring) /\ Len(ring) \in Nat
          /\ \A i \in 1..Len(b) : b[i] = ring[Len(ring) - Len(b) + i]
        BY <1>0, <2>2, <2>4, BeyondIsEnd
    <2>6. PICK r : r = ring' /\ r = Beyond(b, Quantum)
        BY <2>1, <2>4
    <2>7. /\ r \in Seq(Int) /\ Len(r) \in 0..Len(b)
          /\ \A i \in 1..Len(r) : r[i] = b[Len(b) - Len(r) + i]
        <3>1. b \in Seq(Int) /\ Quantum \in Nat
            BY <2>2, <2>5
        <3>2. /\ Beyond(b, Quantum) \in Seq(Int) /\ Len(Beyond(b, Quantum)) \in 0..Len(b)
              /\ \A i \in 1..Len(Beyond(b, Quantum)) :
                     Beyond(b, Quantum)[i] = b[Len(b) - Len(Beyond(b, Quantum)) + i]
            BY <3>1, BeyondIsEnd
        <3> QED BY <2>6, <3>2
    <2>8. ASSUME NEW i \in 1..Len(r)
          PROVE  r[i] = ring[Len(ring) - Len(r) + i]
        <3>1. Len(b) - Len(r) + i \in 1..Len(b)
              /\ Len(ring) - Len(b) + (Len(b) - Len(r) + i) = Len(ring) - Len(r) + i
            BY <2>5, <2>7
        <3> QED BY <2>5, <2>7, <3>1
    <2>9. Made' = Made /\ (\A a \in Int : Leads(a) => Leads(a)') /\ InPace(out)'
        BY <1>0, <2>1 DEF Made, Leads, Upcoming, pushVars, PlaceInv, InPace
    <2>10. \E w, cut : Pieces(w, cut)'
        <3>1. Len(r) <= Len(ring)
            BY <2>5, <2>7
        <3> QED BY <2>1, <2>6, <2>7, <2>8, <2>9, <3>1, PiecesKept
    <2>11. PlaceInv'
        BY <1>0, <2>1, <2>9 DEF PlaceInv, pushVars
    <2> QED BY <1>0, <2>10, <2>11 DEF PaceInv
<1> QED BY <1>1, <1>2 DEF Worklet

LEMMA InitPace == Init => PaceInv
<1> SUFFICES ASSUME Init PROVE PaceInv
    OBVIOUS
<1>1. IInv
    BY InitIInv
<1>2. InPace(out)
    <2>1. out = <<>> /\ Len(out) = 0
        BY EmptySeq DEF Init
    <2> QED BY <2>1 DEF InPace
<1>3. PlaceInv
    BY <1>2, AudioAssumption DEF Init, PlaceInv
<1>4. PICK w, c : w = <<>> /\ c = [k \in 0..0 |-> 0]
    OBVIOUS
<1>5. Pieces(w, c)
    <2>1. w \in Seq(Int) /\ Len(w) = 0 /\ c \in [0..0 -> Nat] /\ c[0] = 0
        BY <1>4, EmptySeq
    <2>2. PICK z : z = ring /\ z = Made /\ z = port /\ Len(z) = 0
        BY EmptySeq DEF Init, Made
    <2>3. Slice(z, w, 0) /\ InPace(w)
        BY <2>1, <2>2 DEF Slice, InPace
    <2> QED BY <1>4, <2>1, <2>2, <2>3 DEF Pieces
<1> QED BY <1>1, <1>3, <1>5 DEF PaceInv

(* EvenlySpaced: across blocks, messages and what was played or skipped,   *)
(* two neighbours in the queue are a servo's step apart in the source      *)
(* unless the second follows a break.                                      *)
THEOREM QueueEvenlySpaced == Spec => []EvenlySpaced
<1>1. PaceInv /\ [Next]_vars => PaceInv'
    <2> SUFFICES ASSUME PaceInv, [Next]_vars PROVE PaceInv'
        OBVIOUS
    <2>1. CASE ReadReport \/ NodeReady \/ Resume \/ DropWeb \/ UNCHANGED vars
        <3>1. /\ UNCHANGED <<be, pushVars, ring, skip, cpc, rem, port, histVars>>
              /\ node' = node \/ node' = "ready"
            BY <2>1 DEF ReadReport, NodeReady, Resume, DropWeb, vars, portVars
        <3>2. ring \in Seq(Int) /\ Len(ring) \in Nat /\ IInv /\ PlaceInv
            BY PaceTypes DEF PaceInv
        <3>3. /\ ring' \in Seq(Int) /\ Len(ring') <= Len(ring)
              /\ \A i \in 1..Len(ring') : ring'[i] = ring[Len(ring) - Len(ring') + i]
            BY <3>1, <3>2
        <3>4. Made' = Made /\ (\A a \in Int : Leads(a) => Leads(a)') /\ InPace(out)'
            BY <3>1, <3>2 DEF Made, Leads, Upcoming, pushVars, histVars, PlaceInv, InPace
        <3>5. \E w, cut : Pieces(w, cut)'
            BY <3>1, <3>3, <3>4, PiecesKept DEF histVars
        <3>6. PlaceInv'
            BY <3>1, <3>2, <3>4 DEF PlaceInv, pushVars
        <3>7. IInv'
            BY <3>1, <3>2 DEF IInv, BudgetInv, SkipsAddUp, pushVars, histVars
        <3> QED BY <3>5, <3>6, <3>7 DEF PaceInv
    <2> QED BY <2>1, EnginePace, CallbackPace, WorkletPace DEF Next
<1>2. PaceInv => EvenlySpaced
    <2> SUFFICES ASSUME PaceInv PROVE EvenlySpaced
        OBVIOUS
    <2>1. PICK w, cut : Pieces(w, cut)
        BY DEF PaceInv
    <2>2. /\ ring \in Seq(Int) /\ w \in Seq(Int) /\ cut[0] \in Int
          /\ Slice(ring, w, cut[0]) /\ InPace(w)
        <3>1. Len(port) \in Nat
            BY PaceTypes
        <3> QED BY <2>1, <3>1, PaceTypes DEF Pieces
    <2>3. InPace(ring)
        BY <2>2, SliceInPace
    <2> QED BY <2>3 DEF EvenlySpaced, PaceInv, PlaceInv
<1> QED BY InitPace, <1>1, <1>2, PTL DEF Spec
=============================================================================
