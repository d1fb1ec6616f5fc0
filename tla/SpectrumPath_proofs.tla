------------------------- MODULE SpectrumPath_proofs -------------------------
(***************************************************************************)
(* Proofs about SpectrumPath for every size of the window, of the rings    *)
(* and of a pump: the circular buffer implements the sliding window.       *)
(***************************************************************************)
EXTENDS SpectrumPath, SequenceTheorems, TLAPS

(* A pump goes on to the analyzer with something to feed, and to a row     *)
(* with enough samples and a row to spare.                                 *)
PumpInv ==
    /\ epc \in {"decim", "slice"} => drain # <<>>
    /\ epc = "push" => feed # <<>>
    /\ epc = "emit" => count >= N /\ rowsLeft > 0

(* The slots the ring counts as waiting have been written. *)
WaitInv == Waiting \in Seq(Item)

IInv == TypeOK /\ PumpInv /\ WaitInv

BridgeType ==
    /\ dual \in BOOLEAN
    /\ produced \in 0..MaxSample
    /\ left \in Seq(Item)
    /\ iq \in Seq(Item) /\ Len(iq) <= RawCap
    /\ iqDecim \in Seq(Item) /\ Len(iqDecim) <= DecimCap
    /\ overflow \subseteq Item

PumpType ==
    /\ epc \in {"loop", "drain", "decim", "slice", "push", "emit"}
    /\ full \in BOOLEAN
    /\ drain \in Seq(Item) /\ Len(drain) <= DrainCap
    /\ drainDecim \in Seq(Item)
    /\ skipped \subseteq Item
    /\ feed \in Seq(Item)
    /\ rowsLeft \in Nat

Entry == Item \cup {Blank}

RingType ==
    /\ data \in [0..(Cap - 1) -> Entry]
    /\ head \in 0..(Cap - 1)
    /\ count \in 0..Cap
    /\ dropped \in Nat

LEMMA TypeParts ==
    TypeOK <=> BridgeType /\ PumpType /\ RingType /\ row \in Seq(Item)
BY DEF TypeOK, BridgeType, PumpType, RingType, Entry
-----------------------------------------------------------------------------
(* Arithmetic. *)

LEMMA Wraps ==
    ASSUME NEW M \in Nat \ {0}, NEW x \in Nat, x < 2 * M
    PROVE  x % M = IF x < M THEN x ELSE x - M
OBVIOUS

LEMMA Floor ==
    ASSUME NEW a \in Nat, NEW d \in Nat \ {0}
    PROVE  a \div d \in Nat /\ (a \div d) * d <= a /\ a < (a \div d) * d + d
OBVIOUS

LEMMA Whole ==
    ASSUME NEW a \in Nat, NEW d \in Nat \ {0}, a % d = 0
    PROVE  \E q \in Nat : a = q * d
<1>1. PICK q \in Nat : q = a \div d
    OBVIOUS
<1>2. a = d * q + (a % d)
    BY <1>1
<1>3. d * q = q * d /\ q * d \in Nat
    OBVIOUS
<1> QED BY <1>2, <1>3

LEMMA Stretch ==
    ASSUME NEW a \in Nat, NEW b \in Nat, NEW d \in Nat \ {0}
    PROVE  a < b <=> a * d < b * d
OBVIOUS

LEMMA CapBounds == Cap \in Nat \ {0} /\ N \in 1..Cap /\ Hop \in 1..N
<1>1. N \in Nat \ {0} /\ Hop \in 1..N /\ Pending \in Nat
    BY WindowAssumption
<1>2. Hop * Pending \in Nat
    BY <1>1
<1> QED BY <1>1, <1>2 DEF Cap
-----------------------------------------------------------------------------
(* The circular buffer. *)

(* The slot of the i-th sample from slot h on. *)
Slot(h, i) == (h + i - 1) % Cap

LEMMA SlotIs ==
    ASSUME NEW h \in 0..(Cap - 1), NEW i \in 1..(Cap + 1)
    PROVE  Slot(h, i) = IF h + i - 1 < Cap THEN h + i - 1 ELSE h + i - 1 - Cap
<1>1. Cap \in Nat \ {0} /\ h + i - 1 \in Nat /\ h + i - 1 < 2 * Cap
    BY CapBounds
<1>2. \A y \in Nat : y < 2 * Cap => y % Cap = IF y < Cap THEN y ELSE y - Cap
    BY <1>1, Wraps
<1>3. PICK y \in Nat : y = h + i - 1 /\ y < 2 * Cap
    BY <1>1
<1>4. y % Cap = IF y < Cap THEN y ELSE y - Cap
    BY <1>2, <1>3
<1>5. Slot(h, i) = y % Cap
    BY <1>3, Zenon DEF Slot
<1> QED BY <1>1, <1>3, <1>4, <1>5

LEMMA SlotRange ==
    ASSUME NEW h \in 0..(Cap - 1), NEW i \in 1..(Cap + 1)
    PROVE  Slot(h, i) \in 0..(Cap - 1)
BY SlotIs, CapBounds

(* The c samples from slot h on, as a sequence. *)
FromSlot(d, h, c) == [i \in 1..c |-> d[Slot(h, i)]]

LEMMA Shape ==
    ASSUME NEW d \in [0..(Cap - 1) -> Entry], NEW h \in 0..(Cap - 1),
           NEW c \in 0..Cap
    PROVE  /\ FromSlot(d, h, c) \in Seq(Entry) /\ Len(FromSlot(d, h, c)) = c
           /\ \A i \in 1..c : FromSlot(d, h, c)[i] = d[Slot(h, i)]
<1>1. ASSUME NEW i \in 1..c PROVE d[Slot(h, i)] \in Entry
    <2>1. i \in 1..(Cap + 1)
        BY CapBounds
    <2> QED BY <2>1, SlotRange
<1>2. c \in Nat /\ FromSlot(d, h, c) \in [1..c -> Entry]
    BY <1>1, CapBounds DEF FromSlot
<1>3. FromSlot(d, h, c) \in Seq(Entry)
    BY <1>2, SeqDef
<1>4. Len(FromSlot(d, h, c)) = c
    BY <1>2, <1>3, LenProperties
<1> QED BY <1>3, <1>4 DEF FromSlot

LEMMA WaitingIs ==
    Waiting = FromSlot(data, head, count) /\ Waiting' = FromSlot(data', head', count')
BY DEF Waiting, FromSlot, Slot

(* A sample pushed while there is room joins the end. *)
LEMMA PushRoom ==
    ASSUME RingType, count < Cap, NEW x \in Entry,
           data' = [data EXCEPT ![Slot(head, count + 1)] = x],
           count' = count + 1, head' = head
    PROVE  /\ data' \in [0..(Cap - 1) -> Entry]
           /\ Waiting' = Append(Waiting, x)
<1> USE CapBounds DEF RingType
<1> DEFINE last == Slot(head, count + 1)
<1>1. last \in 0..(Cap - 1)
      /\ last = IF head + count < Cap THEN head + count ELSE head + count - Cap
    <2>1. count + 1 \in 1..(Cap + 1)
        OBVIOUS
    <2>2. head + (count + 1) - 1 = head + count
        OBVIOUS
    <2> QED BY <2>1, <2>2, SlotIs, SlotRange
<1> HIDE DEF last
<1>2. data' = [data EXCEPT ![last] = x]
    BY DEF last
<1>3. data' \in [0..(Cap - 1) -> Entry]
    <2>1. [data EXCEPT ![last] = x] \in [0..(Cap - 1) -> Entry]
        BY Zenon
    <2> QED BY <1>2, <2>1, Zenon
<1>9. count + 1 \in 0..Cap /\ head \in 0..(Cap - 1)
    OBVIOUS
<1>4. /\ Waiting \in Seq(Entry) /\ Len(Waiting) = count
      /\ \A i \in 1..count : Waiting[i] = data[Slot(head, i)]
    BY Shape, WaitingIs
<1>5. /\ Waiting' \in Seq(Entry) /\ Len(Waiting') = count + 1
      /\ \A i \in 1..(count + 1) : Waiting'[i] = data'[Slot(head, i)]
    <2>1. Waiting' = FromSlot(data', head, count + 1)
        BY WaitingIs
    <2>2. data' \in [0..(Cap - 1) -> Entry] /\ head \in 0..(Cap - 1)
          /\ count + 1 \in 0..Cap
        BY <1>3, <1>9
    <2> HIDE DEF RingType
    <2>3. LET w == FromSlot(data', head, count + 1)
          IN  /\ w \in Seq(Entry) /\ Len(w) = count + 1
              /\ \A i \in 1..(count + 1) : w[i] = data'[Slot(head, i)]
        BY ONLY <2>2, Shape
    <2> QED BY ONLY <2>1, <2>3
<1> DEFINE t == Append(Waiting, x)
<1>6. /\ t \in Seq(Entry) /\ Len(t) = count + 1
      /\ \A i \in 1..count : t[i] = Waiting[i]
      /\ t[count + 1] = x
    BY <1>4, AppendProperties
<1> HIDE DEF t
<1>7. ASSUME NEW i \in 1..(count + 1) PROVE Waiting'[i] = t[i]
    <2>1. i \in 1..(Cap + 1)
        OBVIOUS
    <2>2. Slot(head, i) = IF head + i - 1 < Cap THEN head + i - 1 ELSE head + i - 1 - Cap
        BY <2>1, SlotIs
    <2>3. Slot(head, i) \in 0..(Cap - 1) /\ (Slot(head, i) = last <=> i = count + 1)
        BY <1>1, <2>2
    <2>4. data'[Slot(head, i)] = IF i = count + 1 THEN x ELSE data[Slot(head, i)]
        BY <1>1, <1>2, <2>3
    <2> QED BY <1>4, <1>5, <1>6, <2>4
<1>8. Waiting' = t
    BY <1>5, <1>6, <1>7, SeqEqual
<1> QED BY <1>3, <1>8 DEF t

(* A sample pushed into a full ring takes the place of the oldest. *)
LEMMA PushFull ==
    ASSUME RingType, count = Cap, NEW x \in Entry,
           data' = [data EXCEPT ![head] = x],
           head' = Slot(head, 2), count' = count
    PROVE  /\ data' \in [0..(Cap - 1) -> Entry] /\ head' \in 0..(Cap - 1)
           /\ Waiting' = Append(Tail(Waiting), x)
<1> USE CapBounds DEF RingType
<1>1. head' = IF head + 1 < Cap THEN head + 1 ELSE 0
    <2>1. 2 \in 1..(Cap + 1) /\ head + 2 - 1 = head + 1
        OBVIOUS
    <2>2. Slot(head, 2) = IF head + 1 < Cap THEN head + 1 ELSE head + 1 - Cap
        BY <2>1, SlotIs
    <2> QED BY <2>2
<1>2. data' \in [0..(Cap - 1) -> Entry] /\ head' \in 0..(Cap - 1)
    BY <1>1
<1>3. /\ Waiting \in Seq(Entry) /\ Len(Waiting) = Cap
      /\ \A i \in 1..Cap : Waiting[i] = data[Slot(head, i)]
    BY Shape, WaitingIs
<1>4. /\ Waiting' \in Seq(Entry) /\ Len(Waiting') = Cap
      /\ \A i \in 1..Cap : Waiting'[i] = data'[Slot(head', i)]
    <2>1. Waiting' = FromSlot(data', head', Cap) /\ Cap \in 0..Cap
        BY WaitingIs
    <2>2. data' \in [0..(Cap - 1) -> Entry] /\ head' \in 0..(Cap - 1)
        BY <1>2
    <2>3. LET w == FromSlot(data', head', Cap)
          IN  /\ w \in Seq(Entry) /\ Len(w) = Cap
              /\ \A i \in 1..Cap : w[i] = data'[Slot(head', i)]
        BY ONLY <2>1, <2>2, Shape
    <2> QED BY ONLY <2>1, <2>3
<1>5. /\ Tail(Waiting) \in Seq(Entry) /\ Len(Tail(Waiting)) = Cap - 1
      /\ \A i \in 1..(Cap - 1) : Tail(Waiting)[i] = Waiting[i + 1]
    <2>1. Waiting # <<>>
        BY <1>3, EmptySeq
    <2> QED BY <1>3, <2>1, HeadTailProperties
<1> DEFINE t == Append(Tail(Waiting), x)
<1>6. /\ t \in Seq(Entry) /\ Len(t) = Cap
      /\ \A i \in 1..(Cap - 1) : t[i] = Waiting[i + 1]
      /\ t[Cap] = x
    BY <1>5, AppendProperties
<1> HIDE DEF t
<1>7. ASSUME NEW i \in 1..Cap PROVE Waiting'[i] = t[i]
    <2>1. i \in 1..(Cap + 1)
        OBVIOUS
    <2>2. Slot(head', i) = IF head' + i - 1 < Cap THEN head' + i - 1
                                                  ELSE head' + i - 1 - Cap
        BY <1>2, <2>1, SlotIs
    <2>3. CASE i = Cap
        <3>1. Slot(head', i) = head
            BY <1>1, <2>2, <2>3
        <3>2. data'[head] = x
            OBVIOUS
        <3> QED BY <1>4, <1>6, <2>3, <3>1, <3>2
    <2>4. CASE i < Cap
        <3>1. i + 1 \in 1..(Cap + 1) /\ i + 1 \in 1..Cap /\ i \in 1..(Cap - 1)
            BY <2>4
        <3>2. Slot(head, i + 1) = IF head + i < Cap THEN head + i ELSE head + i - Cap
            <4>1. head + (i + 1) - 1 = head + i
                OBVIOUS
            <4> QED BY <3>1, <4>1, SlotIs
        <3>3. /\ Slot(head', i) = Slot(head, i + 1)
              /\ Slot(head', i) # head /\ Slot(head', i) \in 0..(Cap - 1)
            BY <1>1, <2>2, <2>4, <3>2
        <3>4. data'[Slot(head', i)] = data[Slot(head', i)]
            BY <3>3
        <3> QED BY <1>3, <1>4, <1>6, <3>1, <3>3, <3>4
    <2> QED BY <2>3, <2>4
<1>8. Waiting' = t
    BY <1>4, <1>6, <1>7, SeqEqual
<1> QED BY <1>2, <1>8 DEF t

(* Advancing drops the samples in front. *)
LEMMA Advance ==
    ASSUME RingType, NEW k \in 0..count,
           head' = Slot(head, k + 1), count' = count - k, data' = data
    PROVE  /\ head' \in 0..(Cap - 1)
           /\ Waiting' = SubSeq(Waiting, k + 1, Len(Waiting))
<1> USE CapBounds DEF RingType
<1>1. head' = IF head + k < Cap THEN head + k ELSE head + k - Cap
    <2>1. k + 1 \in 1..(Cap + 1) /\ head + (k + 1) - 1 = head + k
        OBVIOUS
    <2> QED BY <2>1, SlotIs
<1>2. head' \in 0..(Cap - 1) /\ count' \in 0..Cap
    BY <1>1
<1>3. /\ Waiting \in Seq(Entry) /\ Len(Waiting) = count
      /\ \A i \in 1..count : Waiting[i] = data[Slot(head, i)]
    BY Shape, WaitingIs
<1>4. /\ Waiting' \in Seq(Entry) /\ Len(Waiting') = count - k
      /\ \A i \in 1..(count - k) : Waiting'[i] = data[Slot(head', i)]
    BY <1>2, Shape, WaitingIs
<1> DEFINE t == SubSeq(Waiting, k + 1, count)
<1>5. \A i \in (k + 1)..count : Waiting[i] \in Entry
    <2>1. ASSUME NEW i \in (k + 1)..count PROVE Waiting[i] \in Entry
        <3>1. i \in 1..Len(Waiting)
            BY <1>3
        <3> QED BY <1>3, <3>1, ElementOfSeq
    <2> QED BY <2>1
<1>6. /\ t \in Seq(Entry) /\ Len(t) = count - k
      /\ \A i \in 1..(count - k) : t[i] = Waiting[k + i]
    <2>1. k + 1 \in Int /\ count \in Int
        OBVIOUS
    <2>2. /\ t \in Seq(Entry)
          /\ Len(t) = IF k + 1 <= count THEN count - (k + 1) + 1 ELSE 0
          /\ \A i \in 1..(count - (k + 1) + 1) : t[i] = Waiting[(k + 1) + i - 1]
        BY <1>5, <2>1, SubSeqProperties
    <2> HIDE DEF t
    <2>3. count - (k + 1) + 1 = count - k
        OBVIOUS
    <2>4. \A i \in 1..(count - k) : (k + 1) + i - 1 = k + i
        OBVIOUS
    <2> QED BY <2>2, <2>3, <2>4
<1> HIDE DEF t
<1>7. ASSUME NEW i \in 1..(count - k) PROVE Waiting'[i] = t[i]
    <2>1. i \in 1..(Cap + 1) /\ k + i \in 1..(Cap + 1) /\ k + i \in 1..count
        OBVIOUS
    <2>2. Slot(head', i) = IF head' + i - 1 < Cap THEN head' + i - 1
                                                  ELSE head' + i - 1 - Cap
        BY <1>2, <2>1, SlotIs
    <2>3. Slot(head, k + i) = IF head + (k + i) - 1 < Cap THEN head + (k + i) - 1
                                                        ELSE head + (k + i) - 1 - Cap
        BY <2>1, SlotIs
    <2>4. Slot(head', i) = Slot(head, k + i)
        BY <1>1, <2>2, <2>3
    <2> QED BY <1>3, <1>4, <1>6, <2>1, <2>4
<1>8. Waiting' = t
    BY <1>4, <1>6, <1>7, SeqEqual
<1> QED BY <1>2, <1>3, <1>8 DEF t
-----------------------------------------------------------------------------
(* Types. *)

(* What is cut off a sequence at its front, behind it and at its end. *)
LEMMA Cut ==
    ASSUME NEW s \in Seq(Item), NEW n \in 0..Len(s)
    PROVE  /\ First(s, n) \in Seq(Item) /\ Len(First(s, n)) = n
           /\ Items(First(s, n)) \subseteq Item
           /\ Rest(s, n) \in Seq(Item) /\ Len(Rest(s, n)) = Len(s) - n
           /\ Last_(s, n) \in Seq(Item) /\ Len(Last_(s, n)) = n
<1>0. Len(s) \in Nat /\ n \in Nat /\ n <= Len(s)
    BY LenProperties
<1>1. \A i \in 1..Len(s) : s[i] \in Item
    BY ElementOfSeq
<1>2. First(s, n) \in Seq(Item) /\ Len(First(s, n)) = n
    <2>1. \A i \in 1..n : s[i] \in Item
        BY <1>0, <1>1
    <2>2. SubSeq(s, 1, n) \in Seq(Item)
          /\ Len(SubSeq(s, 1, n)) = IF 1 <= n THEN n - 1 + 1 ELSE 0
        BY <1>0, <2>1, SubSeqProperties
    <2> QED BY <1>0, <2>2 DEF First
<1>3. Rest(s, n) \in Seq(Item) /\ Len(Rest(s, n)) = Len(s) - n
    <2>1. \A i \in (n + 1)..Len(s) : s[i] \in Item
        BY <1>0, <1>1
    <2>2. SubSeq(s, n + 1, Len(s)) \in Seq(Item)
          /\ Len(SubSeq(s, n + 1, Len(s))) =
                 IF n + 1 <= Len(s) THEN Len(s) - (n + 1) + 1 ELSE 0
        BY <1>0, <2>1, SubSeqProperties
    <2> QED BY <1>0, <2>2 DEF Rest
<1>4. Last_(s, n) \in Seq(Item) /\ Len(Last_(s, n)) = n
    <2>1. \A i \in (Len(s) - n + 1)..Len(s) : s[i] \in Item
        BY <1>0, <1>1
    <2>2. SubSeq(s, Len(s) - n + 1, Len(s)) \in Seq(Item)
          /\ Len(SubSeq(s, Len(s) - n + 1, Len(s))) =
                 IF Len(s) - n + 1 <= Len(s) THEN Len(s) - (Len(s) - n + 1) + 1 ELSE 0
        BY <1>0, <2>1, SubSeqProperties
    <2> QED BY <1>0, <2>2 DEF Last_
<1>5. Items(First(s, n)) \subseteq Item
    <2>1. \A k \in 1..Len(First(s, n)) : First(s, n)[k] \in Item
        BY <1>2, ElementOfSeq
    <2> QED BY <2>1 DEF Items
<1> QED BY <1>2, <1>3, <1>4, <1>5

(* What the bridge makes of a chunk are samples of the device. *)
LEMMA ChunkType ==
    ASSUME NEW from \in Nat, NEW n \in Nat, from + n <= MaxSample
    PROVE  [k \in 1..n |-> Raw(from + k)] \o Decimated(from, n) \in Seq(Item)
<1> USE SizeAssumption, WindowAssumption
<1> DEFINE first == from \div Decim
           last == (from + n) \div Decim
<1>1. /\ Decim \in Nat \ {0}
      /\ first \in Nat /\ last \in Nat /\ last * Decim <= from + n
      /\ first * Decim <= from /\ from + n < last * Decim + Decim
    BY Floor
<1> HIDE DEF first, last
<1>2. ASSUME NEW k \in 1..(last - first) PROVE Dec((first + k) * Decim) \in Item
    <2>1. first + k \in 1..last
        BY <1>1
    <2>2. (first + k) * Decim \in Nat /\ (first + k) * Decim >= 1
          /\ (first + k) * Decim <= last * Decim
        BY <1>1, <2>1
    <2>3. (first + k) * Decim \in 1..MaxSample
        BY <1>1, <2>2
    <2> QED BY <2>3 DEF Dec, Item
<1>3. Decimated(from, n) = [k \in 1..(last - first) |-> Dec((first + k) * Decim)]
    BY DEF Decimated, first, last
<1>4. last - first \in Nat
    <2>1. first < last + 1
        <3>1. first * Decim < (last + 1) * Decim
            BY <1>1
        <3> QED BY <1>1, <3>1
    <2> QED BY <1>1, <2>1
<1>5. Decimated(from, n) \in Seq(Item)
    BY <1>2, <1>3, <1>4, SeqDef
<1>6. [k \in 1..n |-> Raw(from + k)] \in Seq(Item)
    <2>1. ASSUME NEW k \in 1..n PROVE Raw(from + k) \in Item
        BY DEF Raw, Item
    <2> QED BY <2>1, SeqDef
<1> QED BY <1>5, <1>6, ConcatProperties

LEMMA InitIInv == Init => IInv
<1> SUFFICES ASSUME Init PROVE IInv
    OBVIOUS
<1> USE CapBounds, SizeAssumption, WindowAssumption
<1>0. <<>> \in Seq(Item) /\ Len(<<>>) = 0
    BY EmptySeq
<1>1. BridgeType /\ row \in Seq(Item)
    BY <1>0 DEF Init, BridgeType
<1>2. PumpType
    BY <1>0 DEF Init, PumpType
<1>3. RingType
    BY DEF Init, RingType, Entry
<1>4. PumpInv
    BY DEF Init, PumpInv
<1>5. WaitInv
    <2>1. count = 0 /\ data \in [0..(Cap - 1) -> Entry] /\ head \in 0..(Cap - 1)
        BY <1>3 DEF RingType, Init
    <2>2. Waiting \in Seq(Entry) /\ Len(Waiting) = 0
        BY <2>1, Shape, WaitingIs
    <2>3. Waiting = <<>>
        BY <2>2, EmptySeq
    <2> QED BY <1>0, <2>3 DEF WaitInv
<1> QED BY <1>1, <1>2, <1>3, <1>4, <1>5, TypeParts DEF IInv

(* A push into a bounded ring of the bridge. *)
LEMMA PushType ==
    ASSUME NEW r \in Seq(Item), NEW c \in Nat, Len(r) <= c, NEW x \in Item, NEW r_,
           overflow \subseteq Item, Push(r, c, x, r_)
    PROVE  r_ \in Seq(Item) /\ Len(r_) <= c /\ overflow' \subseteq Item
<1>1. Append(r, x) \in Seq(Item) /\ Len(Append(r, x)) = Len(r) + 1 /\ Len(r) \in Nat
    BY AppendProperties, LenProperties
<1> QED BY <1>1 DEF Push

(* The bridge and its rings. *)
LEMMA BridgeStep ==
    ASSUME TypeOK, [Next]_vars
    PROVE  BridgeType'
<1>0. BridgeType
    BY TypeParts
<1> USE <1>0, SizeAssumption, WindowAssumption DEF BridgeType
<1>1. CASE Deliver
    <2>1. Raw(produced') \in Item /\ produced' \in 0..MaxSample
        BY <1>1 DEF Deliver, Raw, Item
    <2>2. Push(iq, RawCap, Raw(produced'), iq')
        BY <1>1 DEF Deliver
    <2>3. iq' \in Seq(Item) /\ Len(iq') <= RawCap /\ overflow' \subseteq Item
        BY <2>1, <2>2, PushType
    <2> QED BY <1>1, <2>1, <2>3 DEF Deliver
<1>2. CASE BridgeTake
    <2>1. PICK n \in 1..Chunk :
              /\ produced + n <= MaxSample
              /\ produced' = produced + n
              /\ left' = [k \in 1..n |-> Raw(produced + k)] \o Decimated(produced, n)
        BY <1>2 DEF BridgeTake
    <2>2. n \in Nat /\ produced \in Nat /\ produced' \in 0..MaxSample
        BY <2>1
    <2>3. left' \in Seq(Item)
        BY <2>1, <2>2, ChunkType
    <2> QED BY <1>2, <2>2, <2>3 DEF BridgeTake
<1>3. CASE BridgePush
    <2>1. Head(left) \in Item /\ left' \in Seq(Item)
        BY <1>3, HeadTailProperties DEF BridgePush
    <2>2. CASE Head(left).kind = "raw"
        <3>1. Push(iq, RawCap, Head(left), iq') /\ iqDecim' = iqDecim
            BY <1>3, <2>2 DEF BridgePush
        <3>2. iq' \in Seq(Item) /\ Len(iq') <= RawCap /\ overflow' \subseteq Item
            BY <2>1, <3>1, PushType
        <3> QED BY <1>3, <2>1, <3>1, <3>2 DEF BridgePush
    <2>3. CASE Head(left).kind # "raw"
        <3>1. Push(iqDecim, DecimCap, Head(left), iqDecim') /\ iq' = iq
            BY <1>3, <2>3 DEF BridgePush
        <3>2. iqDecim' \in Seq(Item) /\ Len(iqDecim') <= DecimCap
              /\ overflow' \subseteq Item
            BY <2>1, <3>1, PushType
        <3> QED BY <1>3, <2>1, <3>1, <3>2 DEF BridgePush
    <2> QED BY <2>2, <2>3
<1>4. CASE PumpStart
    <2>1. PICK n \in {Len(iq) - AtMost(Len(iq), CatchUpTo(Len(iq)))} : iq' = Rest(iq, n)
        BY <1>4 DEF PumpStart
    <2>2. n \in 0..Len(iq)
        <3>1. Len(iq) \in Nat
            BY LenProperties
        <3>2. CatchUpTo(Len(iq)) \in Nat
            BY <3>1, Floor DEF CatchUpTo
        <3> QED BY <2>1, <3>1, <3>2 DEF AtMost
    <2>3. iq' \in Seq(Item) /\ Len(iq') = Len(iq) - n
        BY <2>1, <2>2, Cut
    <2>4. UNCHANGED <<dual, produced, left, iqDecim, overflow>>
        BY <1>4 DEF PumpStart, bridgeVars
    <2>5. Len(iq') <= RawCap
        <3>1. Len(iq) \in Nat
            BY LenProperties
        <3> QED BY <2>2, <2>3, <3>1
    <2> QED BY <2>3, <2>4, <2>5
<1>5. CASE PumpDrain
    <2>1. PICK n \in {AtMost(Len(iq), DrainCap)} : iq' = Rest(iq, n)
        BY <1>5 DEF PumpDrain
    <2>2. Len(iq) \in Nat
        BY LenProperties
    <2>3. n \in 0..Len(iq)
        BY <2>1, <2>2 DEF AtMost
    <2>4. iq' \in Seq(Item) /\ Len(iq') = Len(iq) - n
        BY <2>1, <2>3, Cut
    <2>5. UNCHANGED <<dual, produced, left, iqDecim, overflow>>
        BY <1>5 DEF PumpDrain, bridgeVars
    <2>6. Len(iq') <= RawCap
        BY <2>2, <2>3, <2>4
    <2> QED BY <2>4, <2>5, <2>6
<1>6. CASE PumpDecim
    <2>1. PICK n \in {AtMost(Len(iqDecim), Want(Len(drain)))} : iqDecim' = Rest(iqDecim, n)
        BY <1>6 DEF PumpDecim
    <2>2. Len(iqDecim) \in Nat /\ Len(drain) \in Nat
        BY TypeParts, LenProperties DEF PumpType
    <2>3. n \in 0..Len(iqDecim)
        <3>1. Want(Len(drain)) \in Nat
            BY <2>2, CapBounds, Floor DEF Want, AtLeast
        <3> QED BY <2>1, <2>2, <3>1 DEF AtMost
    <2>4. iqDecim' \in Seq(Item) /\ Len(iqDecim') = Len(iqDecim) - n
        BY <2>1, <2>3, Cut
    <2>5. UNCHANGED <<dual, produced, left, iq, overflow>>
        BY <1>6 DEF PumpDecim
    <2>6. Len(iqDecim') <= DecimCap
        BY <2>2, <2>3, <2>4
    <2> QED BY <2>4, <2>5, <2>6
<1>7. CASE PumpSlice \/ AnalyzerPush \/ AnalyzerEmit \/ UNCHANGED vars
    BY <1>7 DEF PumpSlice, AnalyzerPush, AnalyzerEmit, bridgeVars, vars
<1> QED BY <1>1, <1>2, <1>3, <1>4, <1>5, <1>6, <1>7 DEF Next

(* The part of the batch that the analyzer gets: some of it, and its end. *)
LEMMA SliceBounds ==
    ASSUME TypeOK, PumpInv, epc = "slice"
    PROVE  /\ Base \in Seq(Item) /\ Base # <<>> /\ Len(Base) \in Nat \ {0}
           /\ SliceLen \in 1..Len(Base)
<1>1. drain \in Seq(Item) /\ drainDecim \in Seq(Item) /\ drain # <<>>
    BY TypeParts DEF PumpType, PumpInv
<1>2. Base \in Seq(Item) /\ Base # <<>>
    BY <1>1 DEF Base
<1>3. Len(Base) \in Nat \ {0} /\ Len(drain) \in Nat \ {0}
    BY <1>1, <1>2, EmptySeq
<1>4. AtMost(Len(drain), TailMax) \in Nat \ {0}
    BY <1>3, SizeAssumption DEF AtMost
<1>5. AtLeast(AtMost(Len(drain), TailMax) \div Decim, 1) \in Nat \ {0}
    BY <1>4, SizeAssumption, Floor DEF AtLeast
<1> DEFINE m == IF dual THEN AtLeast(AtMost(Len(drain), TailMax) \div Decim, 1)
                        ELSE AtMost(Len(drain), TailMax)
<1>6. m \in Nat \ {0}
    BY <1>4, <1>5
<1>7. AlignedLen = AtMost(m, Len(Base))
    BY DEF AlignedLen
<1> HIDE DEF m
<1>8. AlignedLen \in 1..Len(Base)
    BY <1>3, <1>6, <1>7 DEF AtMost
<1> QED BY <1>2, <1>3, <1>8 DEF SliceLen

(* What a pump has in hand. *)
LEMMA PumpStep ==
    ASSUME TypeOK, PumpInv, [Next]_vars
    PROVE  PumpType' /\ PumpInv'
<1>0. PumpType /\ BridgeType /\ RingType
    BY TypeParts
<1>a. /\ Len(iq) \in Nat /\ Len(iqDecim) \in Nat /\ Len(drain) \in Nat
      /\ Len(feed) \in Nat /\ Len(drainDecim) \in Nat
    BY <1>0, LenProperties DEF PumpType, BridgeType
<1>b. <<>> \in Seq(Item) /\ Len(<<>>) = 0
    BY EmptySeq
<1> USE <1>0, SizeAssumption, WindowAssumption DEF PumpType, PumpInv
<1>1. CASE Deliver \/ BridgeTake \/ BridgePush \/ UNCHANGED vars
    BY <1>1 DEF Deliver, BridgeTake, BridgePush, ringVars, vars
<1>2. CASE PumpStart
    <2>1. PICK n \in {Len(iq) - AtMost(Len(iq), CatchUpTo(Len(iq)))} :
              skipped' = skipped \cup Items(First(iq, n))
        BY <1>2 DEF PumpStart
    <2>2. n \in 0..Len(iq)
        <3>1. CatchUpTo(Len(iq)) \in Nat
            BY <1>a, Floor DEF CatchUpTo
        <3> QED BY <2>1, <1>a, <3>1 DEF AtMost
    <2>3. skipped' \subseteq Item
        BY <2>1, <2>2, Cut DEF BridgeType
    <2> QED BY <1>2, <2>3 DEF PumpStart
<1>3. CASE PumpDrain
    <2>1. PICK n \in {AtMost(Len(iq), DrainCap)} :
              /\ drain' = First(iq, n)
              /\ epc' = IF n = 0 THEN "loop" ELSE IF dual THEN "decim" ELSE "slice"
        BY <1>3 DEF PumpDrain
    <2>2. n \in 0..Len(iq) /\ n <= DrainCap
        BY <2>1, <1>a DEF AtMost
    <2>3. drain' \in Seq(Item) /\ Len(drain') = n
        BY <2>1, <2>2, Cut DEF BridgeType
    <2>4. epc' \in {"decim", "slice"} => drain' # <<>>
        BY <1>b, <2>1, <2>3
    <2>5. epc' \in {"loop", "decim", "slice"}
        BY <2>1
    <2>6. UNCHANGED <<full, drainDecim, skipped, feed, rowsLeft>>
        BY <1>3 DEF PumpDrain
    <2> QED BY <2>2, <2>3, <2>4, <2>5, <2>6
<1>4. CASE PumpDecim
    <2>1. PICK n \in {AtMost(Len(iqDecim), Want(Len(drain)))} :
              drainDecim' = First(iqDecim, n)
        BY <1>4 DEF PumpDecim
    <2>2. n \in 0..Len(iqDecim)
        <3>1. Want(Len(drain)) \in Nat
            BY <1>a, CapBounds, Floor DEF Want, AtLeast
        <3> QED BY <2>1, <1>a, <3>1 DEF AtMost
    <2>3. drainDecim' \in Seq(Item)
        BY <2>1, <2>2, Cut DEF BridgeType
    <2> QED BY <1>4, <2>3 DEF PumpDecim
<1>5. CASE PumpSlice
    <2>1. epc = "slice"
        BY <1>5 DEF PumpSlice
    <2>4. Base \in Seq(Item) /\ Len(Base) \in Nat \ {0} /\ SliceLen \in 1..Len(Base)
        BY <2>1, SliceBounds
    <2>5. feed' = Last_(Base, SliceLen)
        BY <1>5 DEF PumpSlice
    <2>6. SliceLen \in 0..Len(Base)
        BY <2>4
    <2>7. feed' \in Seq(Item) /\ Len(feed') = SliceLen
        BY <2>4, <2>5, <2>6, Cut
    <2>8. feed' # <<>>
        BY <1>b, <2>4, <2>7
    <2>9. /\ epc' = "push" /\ rowsLeft' \in Nat /\ drain' = <<>>
          /\ UNCHANGED <<full, drainDecim, skipped>>
        BY <1>5 DEF PumpSlice
    <2> QED BY <1>b, <2>7, <2>8, <2>9
<1>6. CASE AnalyzerPush
    <2>1. feed' \in Seq(Item) /\ epc' = NextStep(rowsLeft, count', feed')
        BY <1>6, HeadTailProperties DEF AnalyzerPush
    <2>2. UNCHANGED <<full, drain, drainDecim, skipped, rowsLeft>>
        BY <1>6 DEF AnalyzerPush
    <2> QED BY <2>1, <2>2 DEF NextStep
<1>7. CASE AnalyzerEmit
    <2>1. rowsLeft' = rowsLeft - 1 /\ epc = "emit"
          /\ epc' = NextStep(rowsLeft', count', feed)
          /\ UNCHANGED <<full, drain, drainDecim, skipped, feed>>
        BY <1>7 DEF AnalyzerEmit
    <2> QED BY <2>1 DEF NextStep
<1> QED BY <1>1, <1>2, <1>3, <1>4, <1>5, <1>6, <1>7 DEF Next

(* The analyzer's buffer is the window: a push is a feed, a row an emit, a *)
(* reset a reset, and nothing else moves it.                               *)
LEMMA FeedStep ==
    ASSUME TypeOK, PumpInv, WaitInv, AnalyzerPush
    PROVE  /\ RingType' /\ row' \in Seq(Item) /\ WaitInv'
           /\ Head(feed) \in Item /\ Window!Feed(Head(feed))
<1>0. PumpType /\ RingType /\ row \in Seq(Item)
    BY TypeParts
<1> DEFINE x == Head(feed)
<1>1. x \in Item
    BY <1>0, HeadTailProperties DEF AnalyzerPush, PumpInv, PumpType
<1> HIDE DEF x
<1>2. x \in Entry
    BY <1>1 DEF Entry
<1>3. Len(Waiting) = count /\ count \in 0..Cap /\ head \in 0..(Cap - 1)
    BY <1>0, Shape, WaitingIs DEF RingType
<1>4. CASE count < Cap
    <2>1. /\ data' = [data EXCEPT ![(head + count) % Cap] = x]
          /\ count' = count + 1 /\ head' = head /\ dropped' = dropped
          /\ row' = row
        BY <1>4 DEF AnalyzerPush, x
    <2>2. Slot(head, count + 1) = (head + count) % Cap
        <3>1. head + (count + 1) - 1 = head + count
            BY <1>3, CapBounds
        <3> QED BY <3>1, Zenon DEF Slot
    <2>3. data' = [data EXCEPT ![Slot(head, count + 1)] = x]
        BY <2>1, <2>2, Zenon
    <2>4. data' \in [0..(Cap - 1) -> Entry] /\ Waiting' = Append(Waiting, x)
        BY <1>0, <1>2, <1>4, <2>1, <2>3, PushRoom
    <2>5. RingType'
        BY <1>0, <1>4, <2>1, <2>4, CapBounds DEF RingType
    <2>6. WaitInv'
        BY <1>1, <2>4, AppendProperties DEF WaitInv
    <2>7. Window!Feed(x)
        BY <1>3, <1>4, <2>1, <2>4 DEF Window!Feed
    <2> QED BY <1>0, <1>1, <2>1, <2>5, <2>6, <2>7 DEF x
<1>5. CASE count = Cap
    <2>1. /\ data' = [data EXCEPT ![head] = x]
          /\ head' = (head + 1) % Cap /\ dropped' = dropped + 1
          /\ count' = count /\ row' = row
        <3>1. ~(count < Cap)
            BY <1>3, <1>5, CapBounds
        <3> QED BY <3>1 DEF AnalyzerPush, x
    <2>2. Slot(head, 2) = (head + 1) % Cap
        <3>1. head + 2 - 1 = head + 1
            BY <1>3, CapBounds
        <3> QED BY <3>1, Zenon DEF Slot
    <2>3. head' = Slot(head, 2)
        BY <2>1, <2>2, Zenon
    <2>4. /\ data' \in [0..(Cap - 1) -> Entry] /\ head' \in 0..(Cap - 1)
          /\ Waiting' = Append(Tail(Waiting), x)
        BY <1>0, <1>2, <1>5, <2>1, <2>3, PushFull
    <2>5. RingType'
        <3>1. dropped' \in Nat /\ count' \in 0..Cap
            BY <1>0, <2>1 DEF RingType
        <3> QED BY <2>4, <3>1 DEF RingType
    <2>6. WaitInv'
        <3>1. Waiting \in Seq(Item) /\ Waiting # <<>>
            BY <1>3, <1>5, CapBounds, EmptySeq DEF WaitInv
        <3>2. Tail(Waiting) \in Seq(Item)
            BY <3>1, HeadTailProperties
        <3> QED BY <1>1, <2>4, <3>2, AppendProperties DEF WaitInv
    <2>7. Window!Feed(x)
        <3>1. ~(Len(Waiting) < Cap)
            BY <1>3, <1>5, CapBounds
        <3> QED BY <3>1, <2>1, <2>4 DEF Window!Feed
    <2> QED BY <1>0, <1>1, <2>1, <2>5, <2>6, <2>7 DEF x
<1> QED BY <1>3, <1>4, <1>5, CapBounds

LEMMA EmitStep ==
    ASSUME TypeOK, PumpInv, WaitInv, AnalyzerEmit
    PROVE  RingType' /\ row' \in Seq(Item) /\ WaitInv' /\ Window!Emit
<1>0. PumpType /\ RingType /\ row \in Seq(Item)
    BY TypeParts
<1>1. /\ Len(Waiting) = count /\ count \in N..Cap /\ head \in 0..(Cap - 1)
      /\ \A i \in 1..count : Waiting[i] = data[Slot(head, i)]
      /\ data \in [0..(Cap - 1) -> Entry]
    <2>1. epc = "emit"
        BY DEF AnalyzerEmit
    <2>2. count >= N
        BY <2>1 DEF PumpInv
    <2>3. /\ data \in [0..(Cap - 1) -> Entry] /\ head \in 0..(Cap - 1)
          /\ count \in 0..Cap
        BY <1>0 DEF RingType
    <2>4. count \in N..Cap
        BY <2>2, <2>3, CapBounds
    <2>5. /\ Len(Waiting) = count
          /\ \A i \in 1..count : Waiting[i] = data[Slot(head, i)]
        BY ONLY <2>3, Shape, WaitingIs
    <2> QED BY <2>3, <2>4, <2>5
<1>2. AtMost(Hop, count) = Hop /\ Hop \in 0..count
    BY <1>1, CapBounds DEF AtMost
<1>3. /\ head' = (head + Hop) % Cap /\ count' = count - Hop
      /\ UNCHANGED <<data, dropped>>
    BY <1>2 DEF AnalyzerEmit
<1>4. head' = Slot(head, Hop + 1)
    <2>1. head + (Hop + 1) - 1 = head + Hop
        BY <1>1, CapBounds
    <2> QED BY <1>3, <2>1, Zenon DEF Slot
<1>5. head' \in 0..(Cap - 1)
      /\ Waiting' = SubSeq(Waiting, Hop + 1, Len(Waiting))
    BY <1>0, <1>2, <1>3, <1>4, Advance
<1>6. Waiting \in Seq(Item)
    BY DEF WaitInv
<1>7. \A i \in 1..Len(Waiting) : Waiting[i] \in Item
    BY <1>6, ElementOfSeq
<1>8. row' = FromSlot(data, head, N)
    BY DEF AnalyzerEmit, FromSlot, Slot
<1>9. /\ row' \in Seq(Entry) /\ Len(row') = N
      /\ \A i \in 1..N : row'[i] = data[Slot(head, i)]
    <2>1. N \in 0..Cap
        BY CapBounds
    <2> QED BY ONLY <1>1, <1>8, <2>1, Shape
<1> DEFINE w == SubSeq(Waiting, 1, N)
<1>10. w \in Seq(Item) /\ Len(w) = N /\ \A i \in 1..N : w[i] = Waiting[i]
    <2>1. \A i \in 1..N : Waiting[i] \in Item
        BY <1>1, <1>7, CapBounds
    <2>2. /\ w \in Seq(Item) /\ Len(w) = IF 1 <= N THEN N - 1 + 1 ELSE 0
          /\ \A i \in 1..(N - 1 + 1) : w[i] = Waiting[1 + i - 1]
        BY <2>1, CapBounds, SubSeqProperties
    <2> HIDE DEF w
    <2>3. \A i \in 1..N : 1 + i - 1 = i
        BY CapBounds
    <2>4. N - 1 + 1 = N /\ 1 <= N
        BY CapBounds
    <2> QED BY <2>2, <2>3, <2>4
<1> HIDE DEF w
<1>11. w = row'
    <2>1. \A i \in 1..N : w[i] = row'[i]
        BY <1>1, <1>9, <1>10, CapBounds
    <2>2. w \in Seq(Entry)
        BY <1>10, SeqMonotonic DEF Entry
    <2> QED BY <1>9, <1>10, <2>1, <2>2, SeqEqual
<1>12. RingType'
    <2>1. dropped' \in Nat /\ count' \in 0..Cap
        BY <1>0, <1>1, <1>2, <1>3, CapBounds DEF RingType
    <2> QED BY <1>1, <1>3, <1>5, <2>1 DEF RingType
<1>13. WaitInv'
    <2>1. Hop + 1 \in Int /\ Len(Waiting) \in Int
          /\ \A i \in (Hop + 1)..Len(Waiting) : Waiting[i] \in Item
        BY <1>1, <1>7, CapBounds
    <2>2. SubSeq(Waiting, Hop + 1, Len(Waiting)) \in Seq(Item)
        BY <2>1, SubSeqProperties
    <2> QED BY <1>5, <2>2, Zenon DEF WaitInv
<1>14. Window!Emit
    <2>1. Len(Waiting) >= N
        BY <1>1, CapBounds
    <2> QED BY <1>3, <1>5, <1>11, <2>1 DEF Window!Emit, w
<1> QED BY <1>10, <1>11, <1>12, <1>13, <1>14 DEF Window!Next

LEMMA SliceStep ==
    ASSUME TypeOK, PumpInv, WaitInv, PumpSlice
    PROVE  /\ RingType' /\ row' = row /\ row \in Seq(Item) /\ WaitInv'
           /\ dropped' = dropped
           /\ IF SliceLen < Len(Base) THEN Waiting' = <<>> ELSE Waiting' = Waiting
<1>0. PumpType /\ RingType /\ row \in Seq(Item)
    BY TypeParts
<1>1. UNCHANGED <<data, dropped, row>>
    BY DEF PumpSlice
<1>2. CASE SliceLen < Len(Base)
    <2>0. head' = 0 /\ count' = 0
        BY <1>2 DEF PumpSlice
    <2>1. RingType'
        BY <1>0, <1>1, <2>0, CapBounds DEF RingType
    <2>2. Waiting' = <<>>
        <3>1. data' \in [0..(Cap - 1) -> Entry] /\ 0 \in 0..(Cap - 1) /\ 0 \in 0..Cap
            BY <2>1, CapBounds DEF RingType
        <3>2. Waiting' = FromSlot(data', 0, 0)
            BY <2>0, WaitingIs
        <3>3. Waiting' \in Seq(Entry) /\ Len(Waiting') = 0
            BY ONLY <3>1, <3>2, Shape
        <3> QED BY <3>3, EmptySeq
    <2>3. WaitInv'
        BY <2>2, EmptySeq DEF WaitInv
    <2> QED BY <1>0, <1>1, <1>2, <2>1, <2>2, <2>3
<1>3. CASE ~(SliceLen < Len(Base))
    <2>1. UNCHANGED <<head, count>>
        BY <1>3 DEF PumpSlice
    <2> QED BY <1>0, <1>1, <1>3, <2>1 DEF RingType, WaitInv, Waiting
<1> QED BY <1>2, <1>3

LEMMA RingStep ==
    ASSUME TypeOK, PumpInv, WaitInv, [Next]_vars
    PROVE  RingType' /\ row' \in Seq(Item) /\ WaitInv'
           /\ [Window!Next]_Window!vars
<1>0. PumpType /\ RingType /\ row \in Seq(Item)
    BY TypeParts
<1>1. CASE AnalyzerPush
    BY <1>1, FeedStep DEF Window!Next
<1>2. CASE AnalyzerEmit
    BY <1>2, EmitStep DEF Window!Next
<1>3. CASE PumpSlice
    BY <1>3, SliceStep DEF Window!Next, Window!Reset, Window!vars
<1>4. CASE \/ Deliver \/ BridgeTake \/ BridgePush \/ PumpStart \/ PumpDrain \/ PumpDecim
           \/ UNCHANGED vars
    <2>1. UNCHANGED ringVars
        BY <1>4 DEF Deliver, BridgeTake, BridgePush, PumpStart, PumpDrain, PumpDecim, vars
    <2> QED BY <1>0, <2>1 DEF ringVars, RingType, WaitInv, Waiting, Window!vars
<1> QED BY <1>1, <1>2, <1>3, <1>4 DEF Next

-----------------------------------------------------------------------------
(* The inductive invariant. *)
LEMMA StepIInv == IInv /\ [Next]_vars => IInv'
<1> SUFFICES ASSUME IInv, [Next]_vars PROVE IInv'
    OBVIOUS
<1>1. BridgeType' /\ PumpType' /\ PumpInv' /\ RingType' /\ row' \in Seq(Item)
      /\ WaitInv'
    BY BridgeStep, PumpStep, RingStep DEF IInv
<1>2. TypeOK'
    BY <1>1 DEF TypeOK, BridgeType, PumpType, RingType, Entry
<1> QED BY <1>1, <1>2 DEF IInv

THEOREM AlwaysIInv == Spec => []IInv
BY InitIInv, StepIInv, PTL DEF Spec

(* Types: the rings, a pump and the analyzer's buffer keep their bounds.   *)
THEOREM TypeCorrect == Spec => []TypeOK
<1>1. IInv => TypeOK
    BY DEF IInv
<1> QED BY AlwaysIInv, <1>1, PTL

(* The circular buffer, with its head, count, row cap and overwriting of   *)
(* the oldest, implements the sliding window, whatever the pump feeds it.  *)
THEOREM Refinement == Spec => RefinesWindow
<1>1. Init => Window!Init
    <2> SUFFICES ASSUME Init PROVE Window!Init
        OBVIOUS
    <2>1. IInv
        BY InitIInv
    <2>2. Len(Waiting) = 0 /\ Waiting \in Seq(Item)
        <3>1. count = 0 /\ RingType
            BY <2>1, TypeParts DEF Init, IInv
        <3> QED BY <2>1, <3>1, Shape, WaitingIs DEF RingType, IInv, WaitInv
    <2>3. Waiting = <<>>
        BY <2>2, EmptySeq
    <2> QED BY <2>3 DEF Init, Window!Init
<1>2. IInv /\ [Next]_vars => [Window!Next]_Window!vars
    BY RingStep DEF IInv
<1> QED
    BY <1>1, <1>2, AlwaysIInv, PTL DEF Spec, RefinesWindow, Window!Spec
-----------------------------------------------------------------------------
(* Nothing is missing but what was lost. *)

Gone == overflow \cup skipped

(* What the pump holds before it goes to the analyzer. *)
Drained == IF epc \in {"decim", "slice"} THEN drain ELSE <<>>
DrainedDecim == IF epc = "slice" THEN drainDecim ELSE <<>>

OnWay ==
    Items(Drained) \cup Items(DrainedDecim) \cup Items(iq) \cup Items(iqDecim)
        \cup Items(left)

(* The two streams, told apart by their kind, are in order wherever they   *)
(* are, and what is further on its way is older.                           *)
Ascends(s) ==
    \A i, j \in 1..Len(s) : i < j /\ s[i].kind = s[j].kind => s[i].at < s[j].at
Before(S, T) == \A x \in S, y \in T : x.kind = y.kind => x.at < y.at

OrderInv ==
    /\ Ascends(Drained) /\ Ascends(DrainedDecim)
    /\ Ascends(iq) /\ Ascends(iqDecim) /\ Ascends(left)
    /\ Before(Items(Drained), Items(iq)) /\ Before(Items(Drained), Items(left))
    /\ Before(Items(DrainedDecim), Items(iqDecim))
    /\ Before(Items(DrainedDecim), Items(left))
    /\ Before(Items(iq), Items(left)) /\ Before(Items(iqDecim), Items(left))
    /\ \A x \in OnWay : x.at <= produced

KindInv ==
    /\ \A x \in Items(Drained) \cup Items(iq) : x.kind = "raw"
    /\ \A x \in Items(DrainedDecim) \cup Items(iqDecim) : x.kind = "dec"
    /\ ~dual => left = <<>> /\ iqDecim = <<>> /\ drainDecim = <<>> /\ epc # "decim"

(* The samples there are: every Decim-th makes a decimated one. *)
Made(x) == x.kind = "dec" => dual /\ x.at % Decim = 0

(* The engine is done with the samples up to f, of either kind: what has   *)
(* been delivered since is on its way or lost.                             *)
Passed(f) ==
    /\ f \in [{"raw", "dec"} -> Nat]
    /\ f["raw"] <= produced /\ f["dec"] <= produced
    /\ \A x \in OnWay : f[x.kind] < x.at
    /\ \A x \in Item : Made(x) /\ f[x.kind] < x.at /\ x.at <= produced
                       => x \in Gone \cup OnWay

(* What the analyzer was fed and has not passed yet. *)
Fed == Waiting \o feed

Linked(a, b) == a.kind = b.kind => a.at < b.at /\ Between(a, b) \subseteq Gone
Seamless(s) == \A i \in 1..(Len(s) - 1) : Linked(s[i], s[i + 1])

(* z is the newest sample of its kind the engine is done with, the lost    *)
(* ones aside.                                                             *)
Newest(f, z) ==
    /\ z.kind = "dec" => dual
    /\ z.at <= f[z.kind]
    /\ \A x \in Item : Made(x) /\ x.kind = z.kind /\ z.at < x.at /\ x.at <= f[z.kind]
                       => x \in Gone

PathInv ==
    /\ IInv /\ OrderInv /\ KindInv
    /\ epc \in {"loop", "drain", "decim", "slice"} => feed = <<>>
    /\ Seamless(Fed) /\ Seamless(row)
    /\ \E f : Passed(f) /\ (Fed # <<>> => Newest(f, Fed[Len(Fed)]))

(* Parts of a sequence. *)
LEMMA CutParts ==
    ASSUME NEW s \in Seq(Item), NEW n \in 0..Len(s)
    PROVE  /\ \A i \in 1..n : First(s, n)[i] = s[i]
           /\ \A i \in 1..(Len(s) - n) : Rest(s, n)[i] = s[n + i]
           /\ \A i \in 1..n : Last_(s, n)[i] = s[Len(s) - n + i]
<1>0. Len(s) \in Nat /\ n \in Nat /\ n <= Len(s) /\ \A i \in 1..Len(s) : s[i] \in Item
    BY LenProperties, ElementOfSeq
<1>1. \A i \in 1..n : First(s, n)[i] = s[i]
    <2>1. \A i \in 1..n : s[i] \in Item
        BY <1>0
    <2>2. \A i \in 1..(n - 1 + 1) : SubSeq(s, 1, n)[i] = s[1 + i - 1]
        BY <1>0, <2>1, SubSeqProperties
    <2>3. \A i \in 1..n : 1 + i - 1 = i /\ i \in 1..(n - 1 + 1)
        BY <1>0
    <2> QED BY <2>2, <2>3 DEF First
<1>2. \A i \in 1..(Len(s) - n) : Rest(s, n)[i] = s[n + i]
    <2>1. \A i \in (n + 1)..Len(s) : s[i] \in Item
        BY <1>0
    <2>2. \A i \in 1..(Len(s) - (n + 1) + 1) : SubSeq(s, n + 1, Len(s))[i] = s[(n + 1) + i - 1]
        BY <1>0, <2>1, SubSeqProperties
    <2>3. \A i \in 1..(Len(s) - n) : (n + 1) + i - 1 = n + i
                                     /\ i \in 1..(Len(s) - (n + 1) + 1)
        BY <1>0
    <2> QED BY <2>2, <2>3 DEF Rest
<1>3. \A i \in 1..n : Last_(s, n)[i] = s[Len(s) - n + i]
    <2>1. \A i \in (Len(s) - n + 1)..Len(s) : s[i] \in Item
        BY <1>0
    <2>2. \A i \in 1..(Len(s) - (Len(s) - n + 1) + 1) :
              SubSeq(s, Len(s) - n + 1, Len(s))[i] = s[(Len(s) - n + 1) + i - 1]
        BY <1>0, <2>1, SubSeqProperties
    <2>3. \A i \in 1..n : (Len(s) - n + 1) + i - 1 = Len(s) - n + i
                          /\ i \in 1..(Len(s) - (Len(s) - n + 1) + 1)
        BY <1>0
    <2> QED BY <2>2, <2>3 DEF Last_
<1> QED BY <1>1, <1>2, <1>3

(* A sequence in order is cut in two that are, one before the other. *)
LEMMA CutOrder ==
    ASSUME NEW s \in Seq(Item), NEW n \in 0..Len(s)
    PROVE  /\ Items(s) = Items(First(s, n)) \cup Items(Rest(s, n))
           /\ Ascends(s) => /\ Ascends(First(s, n)) /\ Ascends(Rest(s, n))
                            /\ Before(Items(First(s, n)), Items(Rest(s, n)))
<1>0. Len(s) \in Nat /\ n \in Nat /\ n <= Len(s)
    BY LenProperties
<1>1. PICK a, b : a = First(s, n) /\ b = Rest(s, n)
    OBVIOUS
<1>2. /\ Len(a) = n /\ Len(b) = Len(s) - n
      /\ \A i \in 1..n : a[i] = s[i]
      /\ \A i \in 1..(Len(s) - n) : b[i] = s[n + i]
    BY <1>1, Cut, CutParts
<1>3. Items(s) = Items(a) \cup Items(b)
    <2>1. ASSUME NEW i \in 1..Len(s) PROVE s[i] \in Items(a) \cup Items(b)
        <3>1. CASE i <= n
            BY <1>0, <1>2, <3>1 DEF Items
        <3>2. CASE ~(i <= n)
            <4>1. i - n \in 1..(Len(s) - n) /\ n + (i - n) = i
                BY <1>0, <3>2
            <4> QED BY <1>2, <4>1 DEF Items
        <3> QED BY <3>1, <3>2
    <2>2. ASSUME NEW i \in 1..Len(a) PROVE a[i] \in Items(s)
        <3>1. i \in 1..Len(s) /\ i \in 1..n
            BY <1>0, <1>2
        <3> QED BY <1>2, <3>1 DEF Items
    <2>3. ASSUME NEW i \in 1..Len(b) PROVE b[i] \in Items(s)
        <3>1. n + i \in 1..Len(s) /\ i \in 1..(Len(s) - n)
            BY <1>0, <1>2
        <3> QED BY <1>2, <3>1 DEF Items
    <2> QED BY <2>1, <2>2, <2>3 DEF Items
<1>4. ASSUME Ascends(s) PROVE Ascends(a) /\ Ascends(b) /\ Before(Items(a), Items(b))
    <2>1. Ascends(a)
        <3>1. \A i \in 1..Len(a) : i \in 1..Len(s) /\ a[i] = s[i]
            BY <1>0, <1>2
        <3> QED BY <1>4, <3>1 DEF Ascends
    <2>2. Ascends(b)
        <3>1. \A i \in 1..Len(b) : n + i \in 1..Len(s) /\ b[i] = s[n + i]
            BY <1>0, <1>2
        <3>2. \A i, j \in 1..Len(b) : i < j => n + i < n + j
            BY <1>0, <1>2
        <3> QED BY <1>4, <3>1, <3>2 DEF Ascends
    <2>3. ASSUME NEW i \in 1..Len(a), NEW j \in 1..Len(b), a[i].kind = b[j].kind
          PROVE  a[i].at < b[j].at
        <3>1. i \in 1..Len(s) /\ n + j \in 1..Len(s) /\ i < n + j
              /\ a[i] = s[i] /\ b[j] = s[n + j]
            BY <1>0, <1>2
        <3> QED BY <1>4, <2>3, <3>1 DEF Ascends
    <2>4. Before(Items(a), Items(b))
        BY <2>3 DEF Before, Items
    <2> QED BY <2>1, <2>2, <2>4
<1> QED BY <1>1, <1>3, <1>4

(* The first of a sequence in order is taken away. *)
LEMMA TailOrder ==
    ASSUME NEW s \in Seq(Item), s # <<>>
    PROVE  /\ Items(s) = {Head(s)} \cup Items(Tail(s))
           /\ Ascends(s) => Ascends(Tail(s)) /\ Before({Head(s)}, Items(Tail(s)))
<1>0. Len(s) \in Nat \ {0} /\ Head(s) = s[1] /\ Len(Tail(s)) = Len(s) - 1
      /\ \A i \in 1..Len(Tail(s)) : Tail(s)[i] = s[i + 1]
    BY HeadTailProperties, EmptySeq
<1>1. PICK t : t = Tail(s) /\ Len(t) = Len(s) - 1 /\ \A i \in 1..Len(t) : t[i] = s[i + 1]
    BY <1>0
<1>2. ASSUME NEW i \in 1..Len(s) PROVE s[i] \in {s[1]} \cup Items(t)
    <2>1. CASE i # 1
        <3>1. i - 1 \in 1..Len(t) /\ (i - 1) + 1 = i
            BY <1>0, <1>1, <2>1
        <3> QED BY <1>1, <3>1 DEF Items
    <2> QED BY <2>1
<1>3. \A i \in 1..Len(t) : i + 1 \in 1..Len(s) /\ t[i] = s[i + 1] /\ 1 < i + 1
    BY <1>0, <1>1
<1>4. 1 \in 1..Len(s)
    BY <1>0
<1>5. Items(s) = {s[1]} \cup Items(t)
    BY <1>2, <1>3, <1>4 DEF Items
<1>6. ASSUME Ascends(s) PROVE Ascends(t) /\ Before({s[1]}, Items(t))
    <2>1. \A i, j \in 1..Len(t) : i < j => i + 1 < j + 1
        BY <1>0, <1>1
    <2>2. Ascends(t)
        BY <1>3, <1>6, <2>1 DEF Ascends
    <2>3. \A i \in 1..Len(t) : s[1].kind = t[i].kind => s[1].at < t[i].at
        BY <1>3, <1>4, <1>6 DEF Ascends
    <2> QED BY <2>2, <2>3 DEF Before, Items
<1> QED BY <1>0, <1>1, <1>5, <1>6

(* One more at its end. *)
LEMMA AppendOrder ==
    ASSUME NEW s \in Seq(Item), NEW x \in Item
    PROVE  /\ Items(Append(s, x)) = Items(s) \cup {x}
           /\ Ascends(s) /\ Before(Items(s), {x}) => Ascends(Append(s, x))
<1>0. /\ Len(Append(s, x)) = Len(s) + 1 /\ Append(s, x)[Len(s) + 1] = x
      /\ \A i \in 1..Len(s) : Append(s, x)[i] = s[i]
    BY AppendProperties
<1>1. PICK t : /\ t = Append(s, x) /\ Len(t) = Len(s) + 1 /\ t[Len(s) + 1] = x
               /\ \A i \in 1..Len(s) : t[i] = s[i]
    BY <1>0, Zenon
<1>2. Len(s) \in Nat
    BY LenProperties
<1>3. \A i \in 1..Len(t) : i \in 1..Len(s) \/ i = Len(s) + 1
    BY <1>1, <1>2
<1>4. \A i \in 1..Len(s) : i \in 1..Len(t)
    BY <1>1, <1>2
<1>5. Len(s) + 1 \in 1..Len(t)
    BY <1>1, <1>2
<1>6. Items(t) = Items(s) \cup {x}
    BY <1>1, <1>3, <1>4, <1>5 DEF Items
<1>7. ASSUME Ascends(s), Before(Items(s), {x}), NEW i \in 1..Len(t), NEW j \in 1..Len(t),
             i < j, t[i].kind = t[j].kind
      PROVE  t[i].at < t[j].at
    <2>1. i \in 1..Len(s) /\ t[i] = s[i] /\ s[i] \in Items(s)
        BY <1>1, <1>2, <1>7 DEF Items
    <2>2. CASE j \in 1..Len(s)
        BY <1>1, <1>7, <2>1, <2>2 DEF Ascends
    <2>3. CASE j = Len(s) + 1
        BY <1>1, <1>7, <2>1, <2>3 DEF Before
    <2> QED BY <1>3, <2>2, <2>3
<1> QED BY <1>1, <1>6, <1>7 DEF Ascends

LEMMA ItemsType ==
    ASSUME NEW s \in Seq(Item)
    PROVE  Items(s) \subseteq Item
BY ElementOfSeq DEF Items

LEMMA NoItems == Items(<<>>) = {} /\ Ascends(<<>>)
<1>1. Len(<<>>) = 0
    BY EmptySeq
<1> QED BY <1>1 DEF Items, Ascends

(* What the proofs below use of the state. *)
LEMMA PathTypes ==
    ASSUME PathInv
    PROVE  /\ Drained \in Seq(Item) /\ DrainedDecim \in Seq(Item)
           /\ iq \in Seq(Item) /\ iqDecim \in Seq(Item) /\ left \in Seq(Item)
           /\ OnWay \subseteq Item /\ produced \in 0..MaxSample
           /\ MaxSample \in Nat
           /\ \A x \in Item : x.kind \in {"raw", "dec"} /\ x.at \in Nat
<1>1. BridgeType /\ PumpType
    BY TypeParts DEF PathInv, IInv
<1>2. /\ iq \in Seq(Item) /\ iqDecim \in Seq(Item) /\ left \in Seq(Item)
      /\ produced \in 0..MaxSample
      /\ Drained \in Seq(Item) /\ DrainedDecim \in Seq(Item)
    BY <1>1, EmptySeq DEF BridgeType, PumpType, Drained, DrainedDecim
<1>3. OnWay \subseteq Item
    BY <1>2, ItemsType DEF OnWay
<1>4. \A x \in Item : x.kind \in {"raw", "dec"} /\ x.at \in Nat
    BY WindowAssumption DEF Item
<1> QED BY <1>2, <1>3, <1>4, WindowAssumption

(* Samples may join the way and move along it, or be lost: the engine is   *)
(* done with the same ones as before.                                      *)
LEMMA PassedKept ==
    ASSUME PathInv, NEW f, Passed(f), NEW New \in SUBSET Item,
           dual' = dual, produced' \in Nat, produced <= produced',
           OnWay' \subseteq OnWay \cup New, OnWay \cup New \subseteq Gone' \cup OnWay',
           Gone \subseteq Gone',
           \A x \in New : produced < x.at,
           \A x \in Item : Made(x) /\ produced < x.at /\ x.at <= produced' => x \in New
    PROVE  Passed(f)'
<1>1. /\ produced \in Nat /\ f \in [{"raw", "dec"} -> Nat]
      /\ f["raw"] <= produced /\ f["dec"] <= produced
      /\ \A x \in Item : x.kind \in {"raw", "dec"} /\ x.at \in Nat
    BY PathTypes DEF Passed
<1>2. ASSUME NEW x \in OnWay' PROVE f[x.kind] < x.at
    <2>1. CASE x \in OnWay
        BY <2>1 DEF Passed
    <2>2. CASE x \in New
        <3>1. x \in Item /\ x.kind \in {"raw", "dec"} /\ produced < x.at /\ x.at \in Nat
            BY <1>1, <2>2
        <3>2. f[x.kind] \in Nat /\ f[x.kind] <= produced
            BY <1>1, <3>1
        <3> QED BY <1>1, <3>1, <3>2
    <2> QED BY <1>2, <2>1, <2>2
<1>3. ASSUME NEW x \in Item, Made(x), f[x.kind] < x.at, x.at <= produced'
      PROVE  x \in Gone' \cup OnWay'
    <2>1. CASE x.at <= produced
        BY <1>3, <2>1 DEF Passed
    <2>2. CASE ~(x.at <= produced)
        BY <1>1, <1>3, <2>2
    <2> QED BY <2>1, <2>2
<1>4. \A x : Made(x)' <=> Made(x)
    BY DEF Made
<1> QED BY <1>1, <1>2, <1>3, <1>4 DEF Passed

(* A chunk and what the decimator makes of it, from one chunk to the next. *)
LEMMA ChunkIs ==
    ASSUME NEW from \in Nat, NEW n \in Nat, from + n <= MaxSample,
           NEW t, t = [k \in 1..n |-> Raw(from + k)] \o Decimated(from, n)
    PROVE  /\ t \in Seq(Item) /\ Ascends(t)
           /\ \A x \in Items(t) : from < x.at /\ x.at <= from + n
           /\ \A x \in Item :
                  (x.kind = "dec" => x.at % Decim = 0) /\ from < x.at /\ x.at <= from + n
                      => x \in Items(t)
<1> USE SizeAssumption, WindowAssumption
<1> DEFINE first == from \div Decim
           last == (from + n) \div Decim
<1>1. /\ Decim \in Nat \ {0}
      /\ first \in Nat /\ last \in Nat /\ last * Decim <= from + n
      /\ first * Decim <= from /\ from < first * Decim + Decim
      /\ from + n < last * Decim + Decim
    <2>1. Decim \in Nat \ {0} /\ from + n \in Nat
        OBVIOUS
    <2>2. first \in Nat /\ first * Decim <= from /\ from < first * Decim + Decim
        BY <2>1, Floor
    <2>3. last \in Nat /\ last * Decim <= from + n /\ from + n < last * Decim + Decim
        BY <2>1, Floor
    <2> QED BY <2>1, <2>2, <2>3
<1> HIDE DEF first, last
<1>2. last - first \in Nat
    <2>1. first < last + 1
        <3>1. first * Decim < (last + 1) * Decim
            BY <1>1
        <3> QED BY <1>1, <3>1
    <2> QED BY <1>1, <2>1
<1>3. ASSUME NEW k \in 1..(last - first)
      PROVE  (first + k) * Decim \in Nat
             /\ from < (first + k) * Decim /\ (first + k) * Decim <= from + n
    <2>1. first + k \in first + 1..last /\ first + k \in Nat
        BY <1>1, <1>2
    <2>2. (first + k) * Decim >= (first + 1) * Decim /\ (first + k) * Decim <= last * Decim
        BY <1>1, <2>1
    <2>3. (first + 1) * Decim = first * Decim + Decim
        BY <1>1
    <2>4. (first + k) * Decim \in Nat /\ first * Decim \in Nat /\ last * Decim \in Nat
        BY <1>1, <2>1
    <2> QED BY <1>1, <2>2, <2>3, <2>4
<1>4. PICK d : d = [k \in 1..(last - first) |-> Dec((first + k) * Decim)]
    OBVIOUS
<1>5. d = Decimated(from, n)
    BY <1>4 DEF Decimated, first, last
<1>6. PICK r : r = [k \in 1..n |-> Raw(from + k)]
    OBVIOUS
<1>7. \A k \in 1..(last - first) : d[k] = Dec((first + k) * Decim) /\ d[k] \in Item
    <2>1. ASSUME NEW k \in 1..(last - first) PROVE Dec((first + k) * Decim) \in Item
        BY <1>3 DEF Dec, Item
    <2> QED BY <1>4, <2>1
<1>8. \A k \in 1..n : r[k] = Raw(from + k) /\ r[k] \in Item
    <2>1. ASSUME NEW k \in 1..n PROVE Raw(from + k) \in Item
        BY DEF Raw, Item
    <2> QED BY <1>6, <2>1
<1>9. d \in Seq(Item) /\ r \in Seq(Item) /\ Len(r) = n /\ Len(d) = last - first
    <2>1. d \in [1..(last - first) -> Item]
        BY <1>4, <1>7
    <2>2. r \in [1..n -> Item]
        BY <1>6, <1>8
    <2>3. d \in Seq(Item) /\ r \in Seq(Item)
        BY <1>2, <2>1, <2>2, SeqDef
    <2> QED BY <1>2, <2>1, <2>2, <2>3, LenProperties
<1>10. /\ t \in Seq(Item) /\ Len(t) = n + (last - first)
       /\ \A i \in 1..(n + (last - first)) : t[i] = IF i <= n THEN r[i] ELSE d[i - n]
    <2>1. t = r \o d
        BY <1>5, <1>6
    <2>2. /\ r \o d \in Seq(Item) /\ Len(r \o d) = Len(r) + Len(d)
          /\ \A i \in 1..(Len(r) + Len(d)) :
                (r \o d)[i] = IF i <= Len(r) THEN r[i] ELSE d[i - Len(r)]
        BY <1>9, ConcatProperties
    <2> QED BY <1>9, <2>1, <2>2
<1>11. \A i \in 1..n : i \in 1..Len(t) /\ t[i] = Raw(from + i)
    BY <1>2, <1>8, <1>10
<1>12. \A k \in 1..(last - first) : n + k \in 1..Len(t) /\ t[n + k] = Dec((first + k) * Decim)
    <2>1. \A k \in 1..(last - first) :
              n + k \in 1..(n + (last - first)) /\ ~(n + k <= n) /\ (n + k) - n = k
        BY <1>2
    <2> QED BY <1>7, <1>10, <2>1
<1>13. \A i \in 1..Len(t) : i \in 1..n \/ \E k \in 1..(last - first) : i = n + k
    <2>1. ASSUME NEW i \in 1..Len(t), i \notin 1..n
          PROVE  i - n \in 1..(last - first) /\ i = n + (i - n)
        BY <1>2, <1>10, <2>1
    <2> QED BY <2>1
<1>14. \A x \in Items(t) : from < x.at /\ x.at <= from + n
    <2>1. ASSUME NEW i \in 1..Len(t) PROVE from < t[i].at /\ t[i].at <= from + n
        <3>1. CASE i \in 1..n
            BY <1>11, <3>1 DEF Raw
        <3>2. CASE i \notin 1..n
            <4>1. PICK k \in 1..(last - first) : i = n + k
                BY <1>13, <3>2
            <4>2. PICK v : v = (first + k) * Decim /\ from < v /\ v <= from + n
                BY <1>3
            <4>3. t[i] = Dec(v)
                BY <1>12, <4>1, <4>2
            <4> QED BY <4>2, <4>3 DEF Dec
        <3> QED BY <3>1, <3>2
    <2> QED BY <2>1 DEF Items
<1>15. Ascends(t)
    <2> SUFFICES ASSUME NEW i \in 1..Len(t), NEW j \in 1..Len(t),
                        i < j, t[i].kind = t[j].kind
                 PROVE  t[i].at < t[j].at
        BY DEF Ascends
    <2>1. CASE j \in 1..n
        <3>1. i \in 1..n
            BY <1>10, <2>1
        <3> QED BY <1>11, <2>1, <3>1 DEF Raw
    <2>2. CASE j \notin 1..n
        <3>1. PICK l \in 1..(last - first) : j = n + l
            BY <1>13, <2>2
        <3>2. i \notin 1..n
            <4>1. t[j].kind = "dec"
                <5>1. t[j] = Dec((first + l) * Decim)
                    BY <1>12, <3>1
                <5>2. \A v : Dec(v).kind = "dec"
                    BY DEF Dec
                <5> QED BY <5>1, <5>2
            <4>2. \A m \in 1..n : t[m].kind = "raw"
                BY <1>11 DEF Raw
            <4> QED BY <4>1, <4>2
        <3>3. PICK k \in 1..(last - first) : i = n + k
            BY <1>13, <3>2
        <3>4. first + k \in Nat /\ first + l \in Nat /\ first + k < first + l
            BY <1>1, <1>2, <3>1, <3>3
        <3>5. PICK v, u : v = (first + k) * Decim /\ u = (first + l) * Decim /\ v < u
            <4>1. (first + k) * Decim < (first + l) * Decim
                BY <1>1, <3>4, Stretch
            <4> QED BY <4>1
        <3>6. t[i] = Dec(v) /\ t[j] = Dec(u)
            BY <1>12, <3>1, <3>3, <3>5
        <3> QED BY <3>5, <3>6 DEF Dec
    <2> QED BY <2>1, <2>2
<1>16. ASSUME NEW x \in Item, x.kind = "dec" => x.at % Decim = 0,
              from < x.at, x.at <= from + n
       PROVE  x \in Items(t)
    <2>1. x.at \in Nat /\ x.kind \in {"raw", "dec"} /\ x = [kind |-> x.kind, at |-> x.at]
        BY DEF Item
    <2>2. CASE x.kind = "raw"
        <3>1. x.at - from \in 1..n /\ from + (x.at - from) = x.at
            BY <1>16, <2>1
        <3>2. x = t[x.at - from]
            BY <1>11, <2>1, <2>2, <3>1 DEF Raw
        <3> QED BY <1>11, <3>1, <3>2 DEF Items
    <2>3. CASE x.kind = "dec"
        <3>1. PICK q \in Nat : x.at = q * Decim
            BY <1>1, <1>16, <2>1, <2>3, Whole
        <3>2. first < q
            <4>1. first * Decim < q * Decim
                BY <1>1, <1>16, <3>1
            <4> QED BY <1>1, <4>1, Stretch
        <3>3. q < last + 1
            <4>1. (last + 1) * Decim = last * Decim + Decim
                BY <1>1
            <4>2. q * Decim < (last + 1) * Decim
                <5>1. last * Decim \in Nat /\ from + n < last * Decim + Decim
                    BY <1>1
                <5>2. PICK v \in Nat : v = x.at /\ v = q * Decim /\ v <= from + n
                    BY <1>16, <2>1, <3>1
                <5> QED BY <1>1, <4>1, <5>1, <5>2
            <4>3. last + 1 \in Nat
                BY <1>1
            <4> QED BY <1>1, <4>2, <4>3, Stretch
        <3>4. q - first \in 1..(last - first) /\ first + (q - first) = q
            BY <1>1, <1>2, <3>2, <3>3
        <3>5. t[n + (q - first)] = x
            BY <1>12, <2>1, <2>3, <3>1, <3>4 DEF Dec
        <3> QED BY <1>12, <3>4, <3>5 DEF Items
    <2> QED BY <2>1, <2>2, <2>3
<1> QED BY <1>10, <1>14, <1>15, <1>16

(* The device, and the bridge between it and the engine: the streams stay  *)
(* in order, and nothing gets lost that is not counted.                    *)
LEMMA DeliverPath ==
    ASSUME PathInv, Deliver
    PROVE  OrderInv' /\ KindInv' /\ \A f : Passed(f) => Passed(f)'
<1>0. OrderInv /\ KindInv /\ ~dual /\ dual' = dual
    BY DEF PathInv, Deliver
<1>1. PICK x : x = Raw(produced + 1)
    OBVIOUS
<1>2. /\ produced \in Nat /\ produced' = produced + 1 /\ produced' \in Nat
      /\ x.kind = "raw" /\ x.at = produced + 1 /\ x \in Item
    BY <1>1, PathTypes DEF Deliver, Raw, Item
<1>3. /\ UNCHANGED <<left, iqDecim, epc, drain, drainDecim, skipped>>
      /\ \/ iq' = Append(iq, x) /\ overflow' = overflow
         \/ iq' = iq /\ overflow' = overflow \cup {x}
    BY <1>1, <1>2 DEF Deliver, Push
<1>4. Drained' = Drained /\ DrainedDecim' = DrainedDecim
    BY <1>3 DEF Drained, DrainedDecim
<1>5. /\ left = <<>> /\ iqDecim = <<>> /\ DrainedDecim = <<>>
      /\ Items(left) = {} /\ Items(iqDecim) = {} /\ Items(DrainedDecim) = {}
    BY <1>0, NoItems DEF KindInv, DrainedDecim
<1>6. \A y \in Items(iq) \cup Items(Drained) : y.at <= produced /\ y.at \in Nat /\ y \in Item
    <2>1. \A y \in Items(iq) \cup Items(Drained) : y \in OnWay
        BY DEF OnWay
    <2> QED BY <1>0, <2>1, PathTypes DEF OrderInv
<1>7. Before(Items(iq), {x}) /\ Before(Items(Drained), {x})
    BY <1>2, <1>6 DEF Before
<1>8. /\ Items(iq') \subseteq Items(iq) \cup {x} /\ Items(iq) \subseteq Items(iq')
      /\ x \in Items(iq') \cup overflow' /\ Ascends(iq')
    <2>1. iq \in Seq(Item) /\ Ascends(iq)
        BY <1>0, PathTypes DEF OrderInv
    <2>2. Items(Append(iq, x)) = Items(iq) \cup {x} /\ Ascends(Append(iq, x))
        BY <1>2, <1>7, <2>1, AppendOrder
    <2> QED BY <1>3, <2>1, <2>2
<1>9. OrderInv'
    <2>1. Before(Items(Drained), Items(iq'))
        BY <1>0, <1>7, <1>8 DEF OrderInv, Before
    <2>2. \A S : Before(S, Items(left)) /\ Before(S, Items(iqDecim))
        BY <1>5 DEF Before
    <2>3. \A y \in OnWay' : y.at <= produced'
        <3>1. OnWay' \subseteq Items(iq) \cup Items(Drained) \cup {x}
            BY <1>3, <1>4, <1>5, <1>8 DEF OnWay
        <3> QED BY <1>2, <1>6, <3>1
    <2> QED BY <1>0, <1>3, <1>4, <1>8, <2>1, <2>2, <2>3 DEF OrderInv
<1>10. KindInv'
    BY <1>0, <1>2, <1>3, <1>4, <1>5, <1>8 DEF KindInv
<1>11. ASSUME NEW f, Passed(f) PROVE Passed(f)'
    <2>1. PICK New : New = {x} /\ New \in SUBSET Item
        BY <1>2
    <2>2. OnWay' \subseteq OnWay \cup New /\ OnWay \cup New \subseteq Gone' \cup OnWay'
          /\ Gone \subseteq Gone'
        BY <1>3, <1>4, <1>8, <2>1 DEF OnWay, Gone
    <2>3. ASSUME NEW y \in Item, Made(y), produced < y.at, y.at <= produced'
          PROVE  y \in New
        <3>1. y.kind = "raw" /\ y = [kind |-> y.kind, at |-> y.at] /\ y.at \in Nat
            BY <1>0, <2>3, PathTypes DEF Made, Item
        <3>2. y.at = produced + 1
            BY <1>2, <2>3, <3>1
        <3> QED BY <1>1, <2>1, <3>1, <3>2 DEF Raw
    <2>4. \A y \in New : produced < y.at
        BY <1>2, <2>1
    <2> QED BY <1>0, <1>2, <1>11, <2>1, <2>2, <2>3, <2>4, PassedKept
<1> QED BY <1>9, <1>10, <1>11

LEMMA TakePath ==
    ASSUME PathInv, BridgeTake
    PROVE  OrderInv' /\ KindInv' /\ \A f : Passed(f) => Passed(f)'
<1>0. /\ OrderInv /\ KindInv /\ dual /\ left = <<>>
      /\ UNCHANGED <<dual, iq, iqDecim, overflow, epc, drain, drainDecim, skipped>>
    BY DEF PathInv, BridgeTake
<1>1. PICK n \in 1..Chunk :
          /\ produced + n <= MaxSample /\ produced' = produced + n
          /\ left' = [k \in 1..n |-> Raw(produced + k)] \o Decimated(produced, n)
    BY DEF BridgeTake
<1>2. n \in Nat \ {0} /\ produced \in Nat /\ produced' \in Nat /\ produced < produced'
    BY <1>1, PathTypes, SizeAssumption
<1>3. PICK t : t = left'
    OBVIOUS
<1>4. /\ t \in Seq(Item) /\ Ascends(t)
      /\ \A x \in Items(t) : produced < x.at /\ x.at <= produced'
      /\ \A x \in Item : (x.kind = "dec" => x.at % Decim = 0)
                             /\ produced < x.at /\ x.at <= produced'
                         => x \in Items(t)
    <2>1. n \in Nat /\ produced \in Nat /\ produced + n <= MaxSample
          /\ t = [k \in 1..n |-> Raw(produced + k)] \o Decimated(produced, n)
        BY <1>1, <1>2, <1>3
    <2>2. /\ t \in Seq(Item) /\ Ascends(t)
          /\ \A x \in Items(t) : produced < x.at /\ x.at <= produced + n
          /\ \A x \in Item : (x.kind = "dec" => x.at % Decim = 0)
                                 /\ produced < x.at /\ x.at <= produced + n
                             => x \in Items(t)
        BY <2>1, ChunkIs
    <2> QED BY <1>1, <2>2
<1>5. Drained' = Drained /\ DrainedDecim' = DrainedDecim /\ Items(left) = {}
    BY <1>0, NoItems DEF Drained, DrainedDecim
<1>6. /\ OnWay = Items(Drained) \cup Items(DrainedDecim) \cup Items(iq) \cup Items(iqDecim)
      /\ OnWay' = OnWay \cup Items(t)
    BY <1>0, <1>3, <1>5 DEF OnWay
<1>7. \A S \in SUBSET OnWay : Before(S, Items(t))
    <2>1. \A x \in OnWay : x.at <= produced /\ x.at \in Nat
        BY <1>0, PathTypes DEF OrderInv
    <2>2. \A y \in Items(t) : y.at \in Nat
        BY <1>4, ItemsType, PathTypes
    <2> QED BY <1>2, <1>4, <2>1, <2>2 DEF Before
<1>8. OrderInv'
    <2>1. \A x \in OnWay' : x.at <= produced'
        <3>1. \A x \in OnWay : x.at <= produced /\ x.at \in Nat
            BY <1>0, PathTypes DEF OrderInv
        <3> QED BY <1>2, <1>4, <1>6, <3>1
    <2>2. /\ Before(Items(Drained), Items(t)) /\ Before(Items(DrainedDecim), Items(t))
          /\ Before(Items(iq), Items(t)) /\ Before(Items(iqDecim), Items(t))
        BY <1>6, <1>7
    <2> QED BY <1>0, <1>3, <1>4, <1>5, <2>1, <2>2 DEF OrderInv
<1>9. KindInv'
    BY <1>0, <1>5 DEF KindInv
<1>10. ASSUME NEW f, Passed(f) PROVE Passed(f)'
    <2>1. PICK New : New = Items(t) /\ New \in SUBSET Item
        BY <1>4, ItemsType
    <2>2. OnWay' \subseteq OnWay \cup New /\ OnWay \cup New \subseteq Gone' \cup OnWay'
          /\ Gone \subseteq Gone'
        BY <1>0, <1>6, <2>1 DEF Gone
    <2>3. \A y \in Item : Made(y) /\ produced < y.at /\ y.at <= produced' => y \in New
        BY <1>4, <2>1 DEF Made
    <2>4. \A y \in New : produced < y.at
        BY <1>4, <2>1
    <2>5. produced <= produced' /\ dual' = dual
        BY <1>0, <1>2
    <2> QED BY <1>2, <1>10, <2>1, <2>2, <2>3, <2>4, <2>5, PassedKept
<1> QED BY <1>8, <1>9, <1>10

(* Samples only move along their way, or are lost on it. *)
LEMMA PassedMoved ==
    ASSUME PathInv, NEW f, Passed(f), dual' = dual, produced' = produced,
           OnWay' \subseteq OnWay, OnWay \subseteq Gone' \cup OnWay', Gone \subseteq Gone'
    PROVE  Passed(f)'
<1>0. {} \in SUBSET Item
    OBVIOUS
<1>1. PICK New \in SUBSET Item : New = {}
    BY <1>0, Zenon
<1>2. produced \in Nat /\ produced' \in Nat /\ produced <= produced'
      /\ \A y \in Item : y.at \in Nat
    BY PathTypes
<1>3. \A y \in Item : Made(y) /\ produced < y.at /\ y.at <= produced' => y \in New
    BY <1>2
<1> QED BY <1>1, <1>2, <1>3, PassedKept

LEMMA BridgePushPath ==
    ASSUME PathInv, BridgePush
    PROVE  OrderInv' /\ KindInv' /\ \A f : Passed(f) => Passed(f)'
<1>0. /\ OrderInv /\ KindInv /\ left # <<>> /\ left' = Tail(left) /\ dual
      /\ UNCHANGED <<dual, produced, epc, drain, drainDecim, skipped>>
    BY DEF PathInv, BridgePush, KindInv
<1>1. PICK x : x = Head(left)
    OBVIOUS
<1>2. /\ x \in Item /\ Items(left) = {x} \cup Items(left')
      /\ Ascends(left') /\ Before({x}, Items(left'))
      /\ x.kind = "raw" \/ x.kind = "dec"
    <2>1. left \in Seq(Item) /\ Ascends(left)
        BY <1>0, PathTypes DEF OrderInv
    <2>2. x \in Item
        BY <1>0, <1>1, <2>1, HeadTailProperties
    <2>3. x.kind \in {"raw", "dec"}
        BY <2>2, PathTypes
    <2> QED BY <1>0, <1>1, <2>1, <2>2, <2>3, TailOrder
<1>3. Drained' = Drained /\ DrainedDecim' = DrainedDecim
    BY <1>0 DEF Drained, DrainedDecim
<1>4. /\ Before(Items(iq), {x}) /\ Before(Items(iqDecim), {x})
      /\ Before(Items(Drained), {x}) /\ Before(Items(DrainedDecim), {x})
      /\ \A S : Before(S, Items(left)) => Before(S, Items(left'))
    BY <1>0, <1>2 DEF OrderInv, Before
<1>5. /\ iq' = iq \/ (x.kind = "raw" /\ iq' = Append(iq, x))
      /\ iqDecim' = iqDecim \/ (x.kind = "dec" /\ iqDecim' = Append(iqDecim, x))
      /\ \/ iq' = Append(iq, x) /\ overflow' = overflow
         \/ iqDecim' = Append(iqDecim, x) /\ overflow' = overflow
         \/ overflow' = overflow \cup {x}
    <2>1. CASE x.kind = "raw"
        BY <1>1, <2>1 DEF BridgePush, Push
    <2>2. CASE x.kind # "raw"
        BY <1>1, <1>2, <2>2 DEF BridgePush, Push
    <2> QED BY <2>1, <2>2
<1>6. ASSUME NEW s \in Seq(Item), NEW s_, s_ = s \/ s_ = Append(s, x),
             Ascends(s), Before(Items(s), {x})
      PROVE  /\ Ascends(s_) /\ Items(s) \subseteq Items(s_)
             /\ Items(s_) \subseteq Items(s) \cup {x}
             /\ s_ = Append(s, x) => x \in Items(s_)
    BY <1>2, <1>6, AppendOrder
<1>7. PICK r, d : r = iq' /\ d = iqDecim'
    OBVIOUS
<1>8. /\ Ascends(r) /\ Items(iq) \subseteq Items(r) /\ Items(r) \subseteq Items(iq) \cup {x}
      /\ r = Append(iq, x) => x \in Items(r)
    <2>1. iq \in Seq(Item) /\ Ascends(iq) /\ Before(Items(iq), {x})
          /\ (r = iq \/ r = Append(iq, x))
        BY <1>0, <1>4, <1>5, <1>7, PathTypes DEF OrderInv
    <2> QED BY <1>6, <2>1
<1>9. /\ Ascends(d) /\ Items(iqDecim) \subseteq Items(d)
      /\ Items(d) \subseteq Items(iqDecim) \cup {x}
      /\ d = Append(iqDecim, x) => x \in Items(d)
    <2>1. iqDecim \in Seq(Item) /\ Ascends(iqDecim) /\ Before(Items(iqDecim), {x})
          /\ (d = iqDecim \/ d = Append(iqDecim, x))
        BY <1>0, <1>4, <1>5, <1>7, PathTypes DEF OrderInv
    <2> QED BY <1>6, <2>1
<1>10. OnWay' \subseteq OnWay /\ OnWay \subseteq Gone' \cup OnWay' /\ Gone \subseteq Gone'
    BY <1>0, <1>2, <1>3, <1>5, <1>7, <1>8, <1>9 DEF OnWay, Gone
<1>11. OrderInv'
    <2>1. Before(Items(Drained), Items(r)) /\ Before(Items(DrainedDecim), Items(d))
        BY <1>0, <1>4, <1>8, <1>9 DEF OrderInv, Before
    <2>2. Before(Items(r), Items(left')) /\ Before(Items(d), Items(left'))
        <3>1. Before(Items(iq), Items(left')) /\ Before(Items(iqDecim), Items(left'))
            BY <1>0, <1>4 DEF OrderInv
        <3> QED BY <1>2, <1>8, <1>9, <3>1 DEF Before
    <2>3. Before(Items(Drained), Items(left')) /\ Before(Items(DrainedDecim), Items(left'))
        BY <1>0, <1>4 DEF OrderInv
    <2>4. \A y \in OnWay' : y.at <= produced'
        BY <1>0, <1>10 DEF OrderInv
    <2>5. Ascends(Drained) /\ Ascends(DrainedDecim)
        BY <1>0 DEF OrderInv
    <2> QED BY <1>2, <1>3, <1>7, <1>8, <1>9, <2>1, <2>2, <2>3, <2>4, <2>5 DEF OrderInv
<1>12. KindInv'
    <2>1. \A y \in Items(r) : y.kind = "raw"
        <3>1. CASE r = iq
            BY <1>0, <3>1 DEF KindInv
        <3>2. CASE r # iq
            BY <1>0, <1>5, <1>7, <1>8, <3>2 DEF KindInv
        <3> QED BY <3>1, <3>2
    <2>2. \A y \in Items(d) : y.kind = "dec"
        <3>1. CASE d = iqDecim
            BY <1>0, <3>1 DEF KindInv
        <3>2. CASE d # iqDecim
            BY <1>0, <1>5, <1>7, <1>9, <3>2 DEF KindInv
        <3> QED BY <3>1, <3>2
    <2> QED BY <1>0, <1>3, <1>7, <2>1, <2>2 DEF KindInv
<1>13. ASSUME NEW f, Passed(f) PROVE Passed(f)'
    BY <1>0, <1>10, <1>13, PassedMoved
<1> QED BY <1>11, <1>12, <1>13

(* The catch-up drops the oldest of the ring. *)
LEMMA StartPath ==
    ASSUME PathInv, PumpStart
    PROVE  OrderInv' /\ KindInv' /\ \A f : Passed(f) => Passed(f)'
<1>0. /\ OrderInv /\ KindInv /\ epc = "loop" /\ epc' = "drain"
      /\ UNCHANGED <<dual, produced, left, iqDecim, overflow, drain, drainDecim>>
    BY DEF PathInv, PumpStart, bridgeVars
<1>1. PICK n \in {Len(iq) - AtMost(Len(iq), CatchUpTo(Len(iq)))} :
          skipped' = skipped \cup Items(First(iq, n)) /\ iq' = Rest(iq, n)
    BY DEF PumpStart
<1>2. n \in 0..Len(iq) /\ iq \in Seq(Item)
    <2>1. iq \in Seq(Item) /\ Len(iq) \in Nat
        BY PathTypes
    <2>2. CatchUpTo(Len(iq)) \in Nat
        BY <2>1, Floor, SizeAssumption DEF CatchUpTo
    <2> QED BY <1>1, <2>1, <2>2 DEF AtMost
<1>3. PICK a, b : a = First(iq, n) /\ b = Rest(iq, n) /\ b = iq'
    BY <1>1
<1>4. Items(iq) = Items(a) \cup Items(b) /\ Ascends(b)
    <2>1. Ascends(iq)
        BY <1>0 DEF OrderInv
    <2>2. /\ Items(iq) = Items(First(iq, n)) \cup Items(Rest(iq, n))
          /\ Ascends(Rest(iq, n))
        BY <1>2, <2>1, CutOrder
    <2> QED BY <1>3, <2>2
<1>5. Drained' = Drained /\ DrainedDecim' = DrainedDecim
    BY <1>0 DEF Drained, DrainedDecim
<1>6. OnWay' \subseteq OnWay /\ OnWay \subseteq Gone' \cup OnWay' /\ Gone \subseteq Gone'
    BY <1>0, <1>1, <1>3, <1>4, <1>5 DEF OnWay, Gone
<1>7. OrderInv'
    <2>1. Before(Items(Drained), Items(b)) /\ Before(Items(b), Items(left))
        BY <1>0, <1>4 DEF OrderInv, Before
    <2>2. \A y \in OnWay' : y.at <= produced'
        BY <1>0, <1>6 DEF OrderInv
    <2> QED BY <1>0, <1>3, <1>4, <1>5, <2>1, <2>2 DEF OrderInv
<1>8. KindInv'
    BY <1>0, <1>3, <1>4, <1>5 DEF KindInv
<1>9. ASSUME NEW f, Passed(f) PROVE Passed(f)'
    BY <1>0, <1>6, <1>9, PassedMoved
<1> QED BY <1>7, <1>8, <1>9

(* What the pump takes from a ring is older than what it leaves there. *)
LEMMA DrainPath ==
    ASSUME PathInv, PumpDrain
    PROVE  OrderInv' /\ KindInv' /\ \A f : Passed(f) => Passed(f)'
<1>0. /\ OrderInv /\ KindInv /\ epc = "drain"
      /\ UNCHANGED <<dual, produced, left, iqDecim, overflow, skipped, drainDecim>>
    BY DEF PathInv, PumpDrain, bridgeVars
<1>1. PICK n \in {AtMost(Len(iq), DrainCap)} :
          /\ drain' = First(iq, n) /\ iq' = Rest(iq, n)
          /\ epc' = IF n = 0 THEN "loop" ELSE IF dual THEN "decim" ELSE "slice"
    BY DEF PumpDrain
<1>2. n \in 0..Len(iq) /\ iq \in Seq(Item)
    <2>1. iq \in Seq(Item) /\ Len(iq) \in Nat
        BY PathTypes
    <2> QED BY <1>1, <2>1, SizeAssumption DEF AtMost
<1>3. PICK a, b : a = First(iq, n) /\ b = Rest(iq, n) /\ a = drain' /\ b = iq'
    BY <1>1
<1>4. /\ Items(iq) = Items(a) \cup Items(b) /\ Ascends(a) /\ Ascends(b)
      /\ Before(Items(a), Items(b)) /\ Len(a) = n /\ a \in Seq(Item)
    <2>1. Ascends(iq)
        BY <1>0 DEF OrderInv
    <2>2. Len(a) = n /\ a \in Seq(Item)
        BY ONLY <1>2, <1>3, Cut
    <2>3. /\ Items(iq) = Items(First(iq, n)) \cup Items(Rest(iq, n))
          /\ Ascends(First(iq, n)) /\ Ascends(Rest(iq, n))
          /\ Before(Items(First(iq, n)), Items(Rest(iq, n)))
        BY <1>2, <2>1, CutOrder
    <2> QED BY <1>3, <2>2, <2>3
<1>5. Drained = <<>> /\ DrainedDecim = <<>> /\ Items(Drained) = {}
      /\ Items(DrainedDecim) = {}
    BY <1>0, NoItems DEF Drained, DrainedDecim
<1>6. Drained' = a
    <2>1. n = 0 => a = <<>>
        BY <1>4, EmptySeq
    <2> QED BY <1>1, <1>3, <2>1 DEF Drained
<1>7. DrainedDecim' = <<>> /\ Items(DrainedDecim') = {} /\ Ascends(DrainedDecim')
    <2>1. DrainedDecim' = <<>>
        BY <1>0, <1>1 DEF DrainedDecim, KindInv
    <2> QED BY <2>1, NoItems
<1>8. OnWay' = OnWay /\ Gone' = Gone
    BY <1>0, <1>3, <1>4, <1>5, <1>6, <1>7 DEF OnWay, Gone
<1>9. OrderInv'
    <2>1. /\ Before(Items(a), Items(left)) /\ Before(Items(b), Items(left))
          /\ Ascends(left) /\ Ascends(iqDecim) /\ Before(Items(iqDecim), Items(left))
        BY <1>0, <1>4 DEF OrderInv, Before
    <2>2. \A S : Before(Items(DrainedDecim'), S)
        BY <1>7 DEF Before
    <2>3. \A y \in OnWay' : y.at <= produced'
        BY <1>0, <1>8 DEF OrderInv
    <2> QED BY <1>0, <1>3, <1>4, <1>6, <1>7, <2>1, <2>2, <2>3 DEF OrderInv
<1>10. KindInv'
    <2>1. \A y \in Items(a) \cup Items(b) : y.kind = "raw"
        BY <1>0, <1>4 DEF KindInv
    <2>2. \A y \in Items(iqDecim) : y.kind = "dec"
        BY <1>0 DEF KindInv
    <2>3. ~dual => left = <<>> /\ iqDecim = <<>> /\ drainDecim = <<>> /\ epc' # "decim"
        BY <1>0, <1>1 DEF KindInv
    <2> QED BY <1>0, <1>3, <1>6, <1>7, <2>1, <2>2, <2>3 DEF KindInv
<1>11. ASSUME NEW f, Passed(f) PROVE Passed(f)'
    BY <1>0, <1>8, <1>11, PassedMoved
<1> QED BY <1>9, <1>10, <1>11

LEMMA DecimPath ==
    ASSUME PathInv, PumpDecim
    PROVE  OrderInv' /\ KindInv' /\ \A f : Passed(f) => Passed(f)'
<1>0. /\ OrderInv /\ KindInv /\ epc = "decim" /\ epc' = "slice"
      /\ UNCHANGED <<dual, produced, left, iq, overflow, skipped, drain>>
    BY DEF PathInv, PumpDecim
<1>1. PICK n \in {AtMost(Len(iqDecim), Want(Len(drain)))} :
          drainDecim' = First(iqDecim, n) /\ iqDecim' = Rest(iqDecim, n)
    BY DEF PumpDecim
<1>2. n \in 0..Len(iqDecim) /\ iqDecim \in Seq(Item)
    <2>1. iqDecim \in Seq(Item) /\ Len(iqDecim) \in Nat
        BY PathTypes
    <2>2. Len(drain) \in Nat
        BY TypeParts, LenProperties DEF PathInv, IInv, PumpType
    <2>3. Want(Len(drain)) \in Nat
        BY <2>2, SizeAssumption, CapBounds, Floor DEF Want, AtLeast
    <2> QED BY <1>1, <2>1, <2>3 DEF AtMost
<1>3. PICK a, b : a = First(iqDecim, n) /\ b = Rest(iqDecim, n)
                  /\ a = drainDecim' /\ b = iqDecim'
    BY <1>1
<1>4. /\ Items(iqDecim) = Items(a) \cup Items(b) /\ Ascends(a) /\ Ascends(b)
      /\ Before(Items(a), Items(b))
    <2>1. Ascends(iqDecim)
        BY <1>0 DEF OrderInv
    <2>2. /\ Items(iqDecim) = Items(First(iqDecim, n)) \cup Items(Rest(iqDecim, n))
          /\ Ascends(First(iqDecim, n)) /\ Ascends(Rest(iqDecim, n))
          /\ Before(Items(First(iqDecim, n)), Items(Rest(iqDecim, n)))
        BY <1>2, <2>1, CutOrder
    <2> QED BY <1>3, <2>2
<1>5. DrainedDecim = <<>> /\ Items(DrainedDecim) = {} /\ Drained' = Drained
    BY <1>0, NoItems DEF Drained, DrainedDecim
<1>6. DrainedDecim' = a
    BY <1>0, <1>3 DEF DrainedDecim
<1>7. OnWay' = OnWay /\ Gone' = Gone
    BY <1>0, <1>3, <1>4, <1>5, <1>6 DEF OnWay, Gone
<1>8. OrderInv'
    <2>1. Before(Items(a), Items(left)) /\ Before(Items(b), Items(left))
        BY <1>0, <1>4 DEF OrderInv, Before
    <2>2. \A y \in OnWay' : y.at <= produced'
        BY <1>0, <1>7 DEF OrderInv
    <2> QED BY <1>0, <1>3, <1>4, <1>5, <1>6, <2>1, <2>2 DEF OrderInv
<1>9. KindInv'
    <2>1. \A y \in Items(a) \cup Items(b) : y.kind = "dec"
        BY <1>0, <1>4 DEF KindInv
    <2> QED BY <1>0, <1>3, <1>5, <1>6, <2>1 DEF KindInv
<1>10. ASSUME NEW f, Passed(f) PROVE Passed(f)'
    BY <1>0, <1>7, <1>10, PassedMoved
<1> QED BY <1>8, <1>9, <1>10

(* The newest of the samples of one kind that are in order. *)
LEMMA TopIs ==
    ASSUME NEW s \in Seq(Item), s # <<>>, Ascends(s),
           \A x, y \in Items(s) : x.kind = y.kind
    PROVE  /\ s[Len(s)] \in Items(s) /\ s[1] \in Items(s)
           /\ \A x \in Items(s) : x.at <= s[Len(s)].at /\ s[1].at <= x.at
<1>1. Len(s) \in Nat \ {0} /\ 1 \in 1..Len(s) /\ Len(s) \in 1..Len(s)
    BY EmptySeq
<1>2. \A i \in 1..Len(s) : s[i] \in Items(s) /\ s[i].at \in Nat
    <2>1. \A i \in 1..Len(s) : s[i] \in Item
        BY ElementOfSeq
    <2> QED BY <2>1, WindowAssumption DEF Items, Item
<1>3. ASSUME NEW i \in 1..Len(s) PROVE s[i].at <= s[Len(s)].at /\ s[1].at <= s[i].at
    <2>1. i < Len(s) => s[i].at < s[Len(s)].at
        BY <1>1, <1>2 DEF Ascends
    <2>2. 1 < i => s[1].at < s[i].at
        BY <1>1, <1>2 DEF Ascends
    <2>3. i = Len(s) \/ i < Len(s)
        BY <1>1
    <2>4. i = 1 \/ 1 < i
        BY <1>1
    <2> QED BY <1>1, <1>2, <2>1, <2>2, <2>3, <2>4
<1> QED BY <1>1, <1>2, <1>3 DEF Items

(* Losing more leaves no seam where there was none, nor does what is cut   *)
(* off the front.                                                          *)
LEMMA FedMoved ==
    ASSUME PathInv, Fed \in Seq(Item), Fed' \in Seq(Item), NEW k \in 0..Len(Fed),
           Gone \subseteq Gone', dual' = dual, Len(Fed') = Len(Fed) - k,
           \A i \in 1..Len(Fed') : Fed'[i] = Fed[i + k]
    PROVE  /\ Seamless(Fed)'
           /\ \A f : (Fed # <<>> => Newest(f, Fed[Len(Fed)]))
                         => (Fed # <<>> => Newest(f, Fed[Len(Fed)]))'
<1>1. Len(Fed) \in Nat /\ Len(Fed') \in Nat
    BY LenProperties
<1>2. PICK s : s = Fed'
    OBVIOUS
<1>3. ASSUME NEW i \in 1..(Len(s) - 1) PROVE Linked(Fed[i], Fed[i + 1])'
    <2>1. i + k \in 1..(Len(Fed) - 1) /\ i \in 1..Len(s) /\ i + 1 \in 1..Len(s)
          /\ (i + 1) + k = (i + k) + 1
        BY <1>1, <1>2
    <2>2. Linked(Fed[i + k], Fed[(i + k) + 1])
        BY <2>1 DEF PathInv, Seamless
    <2>3. s[i] = Fed[i + k] /\ s[i + 1] = Fed[(i + k) + 1]
        BY <1>2, <2>1
    <2> QED BY <1>2, <2>2, <2>3 DEF Linked, Between
<1>4. Seamless(Fed)'
    BY <1>2, <1>3 DEF Seamless
<1>5. ASSUME NEW f, Fed # <<>> => Newest(f, Fed[Len(Fed)]), s # <<>>
      PROVE  Newest(f, Fed[Len(Fed)])'
    <2>1. Len(s) \in 1..Len(s) /\ Len(s) + k = Len(Fed) /\ Len(Fed) # 0
        <3>1. Len(s) # 0 /\ Len(s) \in Nat
            BY <1>1, <1>2, <1>5, EmptySeq
        <3> QED BY <1>1, <1>2, <3>1
    <2>2. Fed # <<>>
        BY <2>1, EmptySeq
    <2>3. PICK z : z = Fed[Len(Fed)] /\ z = s[Len(s)]
        BY <1>2, <2>1
    <2>4. Newest(f, z)
        BY <1>5, <2>2, <2>3
    <2>5. Newest(f, z)'
        BY <2>4 DEF Newest, Made
    <2> QED BY <1>2, <2>3, <2>5 DEF Newest, Made
<1>6. ASSUME NEW f, Fed # <<>> => Newest(f, Fed[Len(Fed)])
      PROVE  (Fed # <<>> => Newest(f, Fed[Len(Fed)]))'
    BY <1>2, <1>5, <1>6
<1> QED BY <1>4, <1>6

LEMMA RowKept ==
    ASSUME PathInv, Gone \subseteq Gone', row' = row
    PROVE  Seamless(row)'
BY DEF PathInv, Seamless, Linked, Between

LEMMA FedType ==
    ASSUME IInv
    PROVE  Fed \in Seq(Item) /\ Waiting \in Seq(Item) /\ feed \in Seq(Item)
           /\ Len(Waiting) \in Nat /\ Len(feed) \in Nat
           /\ Len(Fed) = Len(Waiting) + Len(feed)
           /\ \A i \in 1..(Len(Waiting) + Len(feed)) :
                  Fed[i] = IF i <= Len(Waiting) THEN Waiting[i] ELSE feed[i - Len(Waiting)]
<1>1. Waiting \in Seq(Item) /\ feed \in Seq(Item)
    BY TypeParts DEF IInv, WaitInv, PumpType
<1>2. PICK w, f : w = Waiting /\ f = feed
    OBVIOUS
<1>3. /\ w \o f \in Seq(Item) /\ Len(w \o f) = Len(w) + Len(f)
      /\ \A i \in 1..(Len(w) + Len(f)) :
            (w \o f)[i] = IF i <= Len(w) THEN w[i] ELSE f[i - Len(w)]
    BY <1>1, <1>2, ConcatProperties
<1>4. Fed = w \o f
    BY <1>2 DEF Fed
<1>5. Len(w) \in Nat /\ Len(f) \in Nat
    BY <1>1, <1>2, LenProperties
<1> QED BY <1>1, <1>2, <1>3, <1>4, <1>5

LEMMA FedNext ==
    ASSUME IInv'
    PROVE  /\ Fed' \in Seq(Item) /\ Waiting' \in Seq(Item) /\ feed' \in Seq(Item)
           /\ Fed' = Waiting' \o feed'
<1>1. PICK w, f : w = Waiting' /\ f = feed'
    OBVIOUS
<1>2. w \in Seq(Item) /\ f \in Seq(Item)
    BY <1>1 DEF IInv, WaitInv, TypeOK
<1>3. w \o f \in Seq(Item)
    BY <1>2, ConcatProperties
<1> QED BY <1>1, <1>2, <1>3 DEF Fed

(* A step that leaves the analyzer alone. *)
LEMMA AnalyzerIdle ==
    ASSUME PathInv, IInv', Gone \subseteq Gone', UNCHANGED <<dual, feed, ringVars>>
    PROVE  /\ Seamless(Fed)' /\ Seamless(row)'
           /\ \A f : (Fed # <<>> => Newest(f, Fed[Len(Fed)]))
                         => (Fed # <<>> => Newest(f, Fed[Len(Fed)]))'
<1>1. Fed' = Fed /\ row' = row
    BY DEF Fed, Waiting, ringVars
<1>2. Fed \in Seq(Item) /\ Fed' \in Seq(Item) /\ Len(Fed) \in Nat
    BY <1>1, FedType, LenProperties DEF PathInv
<1>3. 0 \in 0..Len(Fed) /\ Len(Fed') = Len(Fed) - 0
      /\ \A i \in 1..Len(Fed') : Fed'[i] = Fed[i + 0]
    BY <1>1, <1>2
<1>4. /\ Seamless(Fed)'
      /\ \A f : (Fed # <<>> => Newest(f, Fed[Len(Fed)]))
                    => (Fed # <<>> => Newest(f, Fed[Len(Fed)]))'
    BY <1>2, <1>3, FedMoved
<1>5. Seamless(row)'
    BY <1>1, RowKept
<1> QED BY <1>4, <1>5

(* The samples in order, when the first of the second part joins the       *)
(* first: at once, or in the place of the oldest.                          *)
LEMMA Joins ==
    ASSUME NEW w \in Seq(Item), NEW f \in Seq(Item), f # <<>>
    PROVE  Append(w, Head(f)) \o Tail(f) = w \o f
<1>1. /\ Len(f) \in Nat \ {0} /\ Head(f) = f[1] /\ Head(f) \in Item
      /\ Tail(f) \in Seq(Item) /\ Len(Tail(f)) = Len(f) - 1
      /\ \A i \in 1..Len(Tail(f)) : Tail(f)[i] = f[i + 1]
    BY HeadTailProperties, EmptySeq
<1>2. PICK v, t : v = Append(w, Head(f)) /\ t = Tail(f)
    OBVIOUS
<1>3. /\ v \in Seq(Item) /\ Len(v) = Len(w) + 1 /\ Len(w) \in Nat
      /\ \A i \in 1..Len(w) : v[i] = w[i]
      /\ v[Len(w) + 1] = f[1]
    BY <1>1, <1>2, AppendProperties, LenProperties
<1>4. PICK a, b : a = v \o t /\ b = w \o f
    OBVIOUS
<1>5. /\ a \in Seq(Item) /\ Len(a) = Len(v) + Len(t)
      /\ \A i \in 1..(Len(v) + Len(t)) : a[i] = IF i <= Len(v) THEN v[i] ELSE t[i - Len(v)]
    BY <1>1, <1>2, <1>3, <1>4, ConcatProperties
<1>6. /\ b \in Seq(Item) /\ Len(b) = Len(w) + Len(f)
      /\ \A i \in 1..(Len(w) + Len(f)) : b[i] = IF i <= Len(w) THEN w[i] ELSE f[i - Len(w)]
    BY <1>4, ConcatProperties
<1>7. Len(a) = Len(b)
    BY <1>1, <1>2, <1>3, <1>5, <1>6
<1>8. ASSUME NEW i \in 1..Len(a) PROVE a[i] = b[i]
    <2>1. i \in Nat /\ i >= 1 /\ i <= Len(w) + Len(f)
        BY <1>1, <1>3, <1>6, <1>7
    <2>2. CASE i <= Len(w)
        <3>1. i \in 1..Len(w) /\ i <= Len(v) /\ i \in 1..(Len(v) + Len(t))
              /\ i \in 1..(Len(w) + Len(f))
            BY <1>3, <1>5, <1>6, <1>7, <2>1, <2>2
        <3>2. a[i] = v[i] /\ b[i] = w[i]
            BY <1>5, <1>6, <2>2, <3>1
        <3> QED BY <1>3, <3>1, <3>2
    <2>3. CASE i = Len(w) + 1
        <3>1. i - Len(w) = 1 /\ i <= Len(v) /\ ~(i <= Len(w))
            BY <1>3, <2>1, <2>3
        <3> QED BY <1>3, <1>5, <1>6, <1>7, <2>3, <3>1
    <2>4. CASE i > Len(w) + 1
        <3>1. /\ ~(i <= Len(v)) /\ ~(i <= Len(w)) /\ i - Len(v) \in 1..Len(t)
              /\ (i - Len(v)) + 1 = i - Len(w)
            BY <1>1, <1>2, <1>3, <2>1, <2>4
        <3>2. a[i] = t[i - Len(v)] /\ b[i] = f[i - Len(w)]
            BY <1>5, <1>6, <1>7, <3>1
        <3> QED BY <1>1, <1>2, <3>1, <3>2
    <2> QED BY <1>3, <2>1, <2>2, <2>3, <2>4
<1> QED BY <1>2, <1>4, <1>5, <1>6, <1>7, <1>8, SeqEqual

LEMMA Behind ==
    ASSUME NEW w \in Seq(Item), NEW f \in Seq(Item), NEW k \in 0..Len(w),
           NEW v \in Seq(Item), Len(v) = Len(w) - k,
           \A i \in 1..Len(v) : v[i] = w[i + k]
    PROVE  /\ Len(v \o f) = Len(w \o f) - k /\ k \in 0..Len(w \o f)
           /\ \A i \in 1..Len(v \o f) : (v \o f)[i] = (w \o f)[i + k]
<1>1. Len(w) \in Nat /\ Len(f) \in Nat /\ Len(v) \in Nat
    BY LenProperties
<1>2. PICK a, b : a = v \o f /\ b = w \o f
    OBVIOUS
<1>3. /\ Len(a) = Len(v) + Len(f)
      /\ \A i \in 1..(Len(v) + Len(f)) : a[i] = IF i <= Len(v) THEN v[i] ELSE f[i - Len(v)]
    BY <1>2, ConcatProperties
<1>4. /\ Len(b) = Len(w) + Len(f)
      /\ \A i \in 1..(Len(w) + Len(f)) : b[i] = IF i <= Len(w) THEN w[i] ELSE f[i - Len(w)]
    BY <1>2, ConcatProperties
<1>5. ASSUME NEW i \in 1..Len(a) PROVE a[i] = b[i + k]
    <2>1. i + k \in 1..(Len(w) + Len(f)) /\ i \in 1..(Len(v) + Len(f))
        BY <1>1, <1>3
    <2>2. CASE i <= Len(v)
        <3>1. i + k <= Len(w) /\ i \in 1..Len(v)
            BY <1>1, <1>3, <2>2
        <3> QED BY <1>3, <1>4, <2>1, <2>2, <3>1
    <2>3. CASE ~(i <= Len(v))
        <3>1. ~(i + k <= Len(w)) /\ (i + k) - Len(w) = i - Len(v)
            BY <1>1, <1>3, <2>3
        <3> QED BY <1>3, <1>4, <2>1, <2>3, <3>1
    <2> QED BY <2>2, <2>3
<1>6. Len(a) = Len(b) - k /\ k \in 0..Len(b)
    BY <1>1, <1>3, <1>4
<1> QED BY <1>2, <1>5, <1>6

LEMMA FeedPath ==
    ASSUME PathInv, IInv', AnalyzerPush
    PROVE  /\ Seamless(Fed)' /\ Seamless(row)'
           /\ \A f : (Fed # <<>> => Newest(f, Fed[Len(Fed)]))
                         => (Fed # <<>> => Newest(f, Fed[Len(Fed)]))'
<1>0. /\ UNCHANGED <<dual, overflow, skipped, row>> /\ Gone' = Gone
      /\ feed' = Tail(feed) /\ epc = "push"
    BY DEF AnalyzerPush, bridgeVars, Gone
<1>1. PICK x : x = Head(feed)
    OBVIOUS
<1>2. Window!Feed(x)
    BY <1>1, FeedStep DEF PathInv, IInv
<1>3. /\ Fed \in Seq(Item) /\ Fed' \in Seq(Item) /\ feed \in Seq(Item) /\ feed # <<>>
      /\ Waiting \in Seq(Item) /\ Len(Fed) \in Nat
    <2>1. IInv /\ PumpInv
        BY DEF PathInv, IInv
    <2>2. /\ Fed \in Seq(Item) /\ feed \in Seq(Item) /\ Waiting \in Seq(Item)
          /\ Len(Fed) \in Nat
        BY <2>1, FedType, LenProperties
    <2>3. Fed' \in Seq(Item)
        BY FedNext
    <2> QED BY <1>0, <2>1, <2>2, <2>3 DEF PumpInv
<1>4. PICK k \in 0..Len(Fed) :
          /\ Len(Fed') = Len(Fed) - k
          /\ \A i \in 1..Len(Fed') : Fed'[i] = Fed[i + k]
    <2>1. CASE Waiting' = Append(Waiting, x)
        <3>1. Append(Waiting, Head(feed)) \o Tail(feed) = Waiting \o feed
            BY <1>3, Joins
        <3>2. Fed' = Fed
            BY <1>0, <1>1, <2>1, <3>1 DEF Fed
        <3> QED BY <1>3, <3>2
    <2>2. CASE Waiting' = Append(Tail(Waiting), x) /\ ~(Len(Waiting) < Cap)
        <3>1. Waiting # <<>> /\ Tail(Waiting) \in Seq(Item) /\ Len(Waiting) \in Nat \ {0}
              /\ Len(Tail(Waiting)) = Len(Waiting) - 1
              /\ \A i \in 1..Len(Tail(Waiting)) : Tail(Waiting)[i] = Waiting[i + 1]
            <4>1. Waiting # <<>>
                BY <2>2, CapBounds, EmptySeq
            <4> QED BY <1>3, <4>1, EmptySeq, HeadTailProperties
        <3>2. Append(Tail(Waiting), Head(feed)) \o Tail(feed) = Tail(Waiting) \o feed
            BY <1>3, <3>1, Joins
        <3>3. PICK v : v = Tail(Waiting)
            OBVIOUS
        <3>4. 1 \in 0..Len(Waiting) /\ v \in Seq(Item) /\ Len(v) = Len(Waiting) - 1
              /\ \A i \in 1..Len(v) : v[i] = Waiting[i + 1]
            BY <3>1, <3>3
        <3>5. PICK w, f : w = Waiting /\ f = feed
            OBVIOUS
        <3>6. w \in Seq(Item) /\ f \in Seq(Item) /\ 1 \in 0..Len(w) /\ Len(v) = Len(w) - 1
              /\ \A i \in 1..Len(v) : v[i] = w[i + 1]
            BY <1>3, <3>4, <3>5
        <3>7. /\ Len(v \o f) = Len(w \o f) - 1 /\ 1 \in 0..Len(w \o f)
              /\ \A i \in 1..Len(v \o f) : (v \o f)[i] = (w \o f)[i + 1]
            BY ONLY <3>4, <3>6, Behind
        <3>8. Fed' = v \o f /\ Fed = w \o f
            BY <1>0, <1>1, <2>2, <3>2, <3>3, <3>5 DEF Fed
        <3> QED BY <3>7, <3>8
    <2> QED BY <1>2, <2>1, <2>2 DEF Window!Feed
<1>5. Gone \subseteq Gone' /\ dual' = dual /\ row' = row
    BY <1>0
<1>6. /\ Seamless(Fed)'
      /\ \A f : (Fed # <<>> => Newest(f, Fed[Len(Fed)]))
                    => (Fed # <<>> => Newest(f, Fed[Len(Fed)]))'
    BY <1>3, <1>4, <1>5, FedMoved
<1>7. Seamless(row)'
    BY <1>5, RowKept
<1> QED BY <1>6, <1>7

LEMMA EmitPath ==
    ASSUME PathInv, IInv', AnalyzerEmit
    PROVE  /\ Seamless(Fed)' /\ Seamless(row)'
           /\ \A f : (Fed # <<>> => Newest(f, Fed[Len(Fed)]))
                         => (Fed # <<>> => Newest(f, Fed[Len(Fed)]))'
<1>0. /\ UNCHANGED <<dual, overflow, skipped, feed>> /\ Gone' = Gone
    BY DEF AnalyzerEmit, bridgeVars, Gone
<1>1. /\ Len(Waiting) >= N /\ row' = SubSeq(Waiting, 1, N)
      /\ Waiting' = SubSeq(Waiting, Hop + 1, Len(Waiting))
    BY EmitStep DEF PathInv, IInv, Window!Emit
<1>2. /\ Fed \in Seq(Item) /\ Fed' \in Seq(Item) /\ feed \in Seq(Item)
      /\ Waiting \in Seq(Item) /\ Len(Waiting) \in Nat /\ Len(Fed) \in Nat
      /\ Len(feed) \in Nat /\ Len(Fed) = Len(Waiting) + Len(feed)
      /\ \A i \in 1..Len(Waiting) : Fed[i] = Waiting[i]
    <2>1. IInv
        BY DEF PathInv
    <2>2. /\ Fed \in Seq(Item) /\ feed \in Seq(Item)
          /\ Waiting \in Seq(Item) /\ Len(Waiting) \in Nat /\ Len(Fed) \in Nat
          /\ Len(feed) \in Nat /\ Len(Fed) = Len(Waiting) + Len(feed)
        BY <2>1, FedType, LenProperties
    <2>3. \A i \in 1..Len(Waiting) : i <= Len(Waiting) /\ i \in 1..(Len(Waiting) + Len(feed))
        BY <2>2
    <2>4. \A i \in 1..Len(Waiting) : Fed[i] = Waiting[i]
        BY <2>1, <2>3, FedType
    <2>5. Fed' \in Seq(Item)
        BY FedNext
    <2> QED BY <2>2, <2>4, <2>5
<1>3. /\ Hop \in 0..Len(Waiting) /\ N \in 0..Len(Waiting)
    BY <1>1, <1>2, CapBounds
<1>4. PICK v : v = Rest(Waiting, Hop) /\ v = Waiting'
    BY <1>1 DEF Rest
<1>5. v \in Seq(Item) /\ Len(v) = Len(Waiting) - Hop
      /\ \A i \in 1..Len(v) : v[i] = Waiting[i + Hop]
    <2>1. Rest(Waiting, Hop) \in Seq(Item) /\ Len(Rest(Waiting, Hop)) = Len(Waiting) - Hop
        BY <1>2, <1>3, Cut
    <2>2. \A i \in 1..(Len(Waiting) - Hop) : Rest(Waiting, Hop)[i] = Waiting[Hop + i]
        BY <1>2, <1>3, CutParts
    <2>3. \A i \in 1..(Len(Waiting) - Hop) : Hop + i = i + Hop
        BY <1>2, CapBounds
    <2> QED BY <1>4, <2>1, <2>2, <2>3
<1>6. /\ Len(v \o feed) = Len(Waiting \o feed) - Hop /\ Hop \in 0..Len(Waiting \o feed)
      /\ \A i \in 1..Len(v \o feed) : (v \o feed)[i] = (Waiting \o feed)[i + Hop]
    BY <1>2, <1>3, <1>5, Behind
<1>7. Fed' = v \o feed /\ Fed = Waiting \o feed
    BY <1>0, <1>4 DEF Fed
<1>8. Gone \subseteq Gone' /\ dual' = dual
    BY <1>0
<1>9. Hop \in 0..Len(Fed) /\ Len(Fed') = Len(Fed) - Hop
      /\ \A i \in 1..Len(Fed') : Fed'[i] = Fed[i + Hop]
    BY <1>6, <1>7
<1>10. /\ Seamless(Fed)'
       /\ \A f : (Fed # <<>> => Newest(f, Fed[Len(Fed)]))
                     => (Fed # <<>> => Newest(f, Fed[Len(Fed)]))'
    BY <1>2, <1>8, <1>9, FedMoved
<1>11. PICK w : w = First(Waiting, N) /\ w = row'
    BY <1>1 DEF First
<1>12. Len(w) = N /\ \A i \in 1..N : w[i] = Waiting[i]
    <2>1. Len(First(Waiting, N)) = N
        BY <1>2, <1>3, Cut
    <2>2. \A i \in 1..N : First(Waiting, N)[i] = Waiting[i]
        BY <1>2, <1>3, CutParts
    <2> QED BY <1>11, <2>1, <2>2
<1>13. Seamless(row)'
    <2>1. ASSUME NEW i \in 1..(Len(w) - 1) PROVE Linked(w[i], w[i + 1])
        <3>1. /\ i \in 1..Len(Waiting) /\ i + 1 \in 1..Len(Waiting) /\ i \in 1..N
              /\ i + 1 \in 1..N /\ i \in 1..(Len(Fed) - 1)
            BY <1>2, <1>3, <1>12, CapBounds
        <3>2. Linked(Fed[i], Fed[i + 1])
            BY <3>1 DEF PathInv, Seamless
        <3> QED BY <1>2, <1>12, <3>1, <3>2
    <2> QED BY <1>0, <1>11, <2>1 DEF Seamless, Linked, Between
<1> QED BY <1>10, <1>13

(* What the pump chooses from: samples of one kind, in order, and nothing  *)
(* of that kind on its way is among them or older.                         *)
BaseKind == IF drainDecim # <<>> THEN "dec" ELSE "raw"

LEMMA BaseIs ==
    ASSUME PathInv, epc = "slice"
    PROVE  /\ Base \in Seq(Item) /\ Base # <<>> /\ Ascends(Base)
           /\ Items(Base) \subseteq OnWay
           /\ \A x \in Items(Base) : x.kind = BaseKind
           /\ \A x \in OnWay : x.kind = BaseKind =>
                  x \in Items(Base) \/ \A y \in Items(Base) : y.at < x.at
           /\ BaseKind = "dec" => dual
<1>0. /\ OrderInv /\ KindInv /\ Drained = drain /\ DrainedDecim = drainDecim
      /\ drain # <<>>
    BY DEF PathInv, IInv, PumpInv, Drained, DrainedDecim
<1>1. CASE drainDecim # <<>>
    <2>1. dual /\ Base = drainDecim /\ BaseKind = "dec"
        BY <1>0, <1>1 DEF KindInv, Base, BaseKind
    <2>2. Base \in Seq(Item) /\ Ascends(Base) /\ Items(Base) \subseteq OnWay
        BY <1>0, <2>1, PathTypes DEF OrderInv, OnWay
    <2>3. \A x \in OnWay : x.kind = BaseKind =>
              x \in Items(Base) \/ \A y \in Items(Base) : y.at < x.at
        BY <1>0, <2>1 DEF OrderInv, KindInv, OnWay, Before
    <2> QED BY <1>0, <1>1, <2>1, <2>2, <2>3 DEF KindInv
<1>2. CASE drainDecim = <<>>
    <2>1. Base = drain /\ BaseKind = "raw"
        BY <1>2 DEF Base, BaseKind
    <2>2. Base \in Seq(Item) /\ Ascends(Base) /\ Items(Base) \subseteq OnWay
        BY <1>0, <2>1, PathTypes DEF OrderInv, OnWay
    <2>3. Items(DrainedDecim) = {}
        BY <1>0, <1>2, NoItems
    <2>4. \A x \in OnWay : x.kind = BaseKind =>
              x \in Items(Base) \/ \A y \in Items(Base) : y.at < x.at
        BY <1>0, <2>1, <2>3 DEF OrderInv, KindInv, OnWay, Before
    <2> QED BY <1>0, <2>1, <2>2, <2>4 DEF KindInv
<1> QED BY <1>1, <1>2

(* Two of them that follow each other, or the newest one fed before and    *)
(* the first of them, have nothing between them that is not lost.          *)
LEMMA BaseSeamless ==
    ASSUME PathInv, epc = "slice", NEW f, Passed(f)
    PROVE  /\ Seamless(Base)
           /\ \A z \in Item : Newest(f, z) => Linked(z, Base[1])
<1>1. PICK b, k : b = Base /\ k = BaseKind
    OBVIOUS
<1>2. /\ b \in Seq(Item) /\ b # <<>> /\ Ascends(b)
      /\ Items(b) \subseteq OnWay
      /\ \A x \in Items(b) : x.kind = k
      /\ \A x \in OnWay : x.kind = k => x \in Items(b) \/ \A y \in Items(b) : y.at < x.at
      /\ k = "dec" => dual
    BY <1>1, BaseIs
<1>3. /\ Len(b) \in Nat \ {0} /\ \A i \in 1..Len(b) : b[i] \in Items(b)
      /\ Items(b) \subseteq Item
    BY <1>2, EmptySeq, ItemsType DEF Items
<1>4. /\ \A x \in Item : x.at \in Nat
      /\ produced \in Nat /\ k \in {"raw", "dec"} /\ f[k] \in Nat
    BY <1>1, PathTypes DEF BaseKind, Passed
<1>5. \A x \in Items(b) : x \in Item /\ x.kind = k /\ f[k] < x.at /\ x.at <= produced /\ x.at \in Nat
    BY <1>2, <1>3, <1>4 DEF Passed, PathInv, OrderInv
<1>6. \A x \in Item : (x.kind = k /\ (x.kind = "dec" => x.at % Decim = 0)
                           /\ f[k] < x.at /\ x.at <= produced)
          => x \in Gone \/ x \in Items(b) \/ \A y \in Items(b) : y.at < x.at
    <2> SUFFICES ASSUME NEW x \in Item, x.kind = k, x.kind = "dec" => x.at % Decim = 0,
                        f[k] < x.at, x.at <= produced
                 PROVE  x \in Gone \/ x \in Items(b) \/ \A y \in Items(b) : y.at < x.at
        OBVIOUS
    <2>1. Made(x)
        BY <1>2 DEF Made
    <2>2. x \in Gone \cup OnWay
        BY <2>1 DEF Passed
    <2> QED BY <1>2, <2>2
<1>7. ASSUME NEW i \in 1..(Len(b) - 1) PROVE Linked(b[i], b[i + 1])
    <2>1. i \in 1..Len(b) /\ i + 1 \in 1..Len(b) /\ i < i + 1
        BY <1>3
    <2>2. PICK c, d : c = b[i] /\ d = b[i + 1]
        OBVIOUS
    <2>3. c \in Items(b) /\ d \in Items(b) /\ c.kind = k /\ d.kind = k /\ c.at < d.at
        <3>1. b[i] \in Items(b) /\ b[i + 1] \in Items(b)
            BY <1>3, <2>1
        <3> QED BY <1>2, <2>1, <2>2, <3>1 DEF Ascends
    <2>4. ASSUME NEW x \in Between(c, d) PROVE x \in Gone
        <3>1. x \in Item /\ x.kind = k /\ (x.kind = "dec" => x.at % Decim = 0)
              /\ c.at < x.at /\ x.at < d.at
            BY <2>3, <2>4 DEF Between
        <3>2. f[k] < x.at /\ x.at <= produced
            BY <1>4, <1>5, <2>3, <3>1
        <3>3. ~(\A y \in Items(b) : y.at < x.at)
            <4>1. ~(d.at < x.at)
                BY <1>4, <1>5, <2>3, <3>1
            <4> QED BY <2>3, <4>1
        <3>4. x \notin Items(b)
            <4>1. ASSUME NEW j \in 1..Len(b), x = b[j] PROVE FALSE
                <5>1. j < i \/ j = i \/ j = i + 1 \/ i + 1 < j
                    BY <1>3, <2>1
                <5>2. b[j].kind = k /\ b[i].kind = k /\ b[i + 1].kind = k
                    BY <1>2, <1>3, <2>1
                <5>3. j < i => b[j].at < b[i].at
                    BY <1>2, <2>1, <5>2 DEF Ascends
                <5>4. i + 1 < j => b[i + 1].at < b[j].at
                    BY <1>2, <2>1, <5>2 DEF Ascends
                <5> QED BY <1>4, <1>5, <2>2, <2>3, <3>1, <4>1, <5>1, <5>3, <5>4
            <4> QED BY <4>1 DEF Items
        <3> QED BY <1>6, <3>1, <3>2, <3>3, <3>4
    <2> QED BY <2>2, <2>3, <2>4 DEF Linked
<1>8. ASSUME NEW z \in Item, Newest(f, z) PROVE Linked(z, b[1])
    <2>1. PICK c : c = b[1]
        OBVIOUS
    <2>2. c \in Items(b) /\ c.kind = k /\ f[k] < c.at /\ c.at <= produced /\ c.at \in Nat
          /\ \A x \in Items(b) : c.at <= x.at
        BY <1>2, <1>3, <1>5, <2>1, TopIs
    <2>3. CASE z.kind = k
        <3>1. z.at <= f[k] /\ z.at \in Nat
            BY <1>4, <1>8, <2>3 DEF Newest
        <3>2. z.at < c.at
            BY <1>4, <2>2, <3>1
        <3>3. ASSUME NEW x \in Between(z, c) PROVE x \in Gone
            <4>1. x \in Item /\ x.kind = k /\ (x.kind = "dec" => x.at % Decim = 0)
                  /\ z.at < x.at /\ x.at < c.at
                BY <2>3, <3>3 DEF Between
            <4>2. CASE x.at <= f[k]
                <5>1. Made(x)
                    BY <1>2, <4>1 DEF Made
                <5> QED BY <1>8, <2>3, <4>1, <4>2, <5>1 DEF Newest
            <4>3. CASE ~(x.at <= f[k])
                <5>1. f[k] < x.at /\ x.at <= produced /\ ~(c.at < x.at) /\ ~(c.at <= x.at)
                    BY <1>4, <2>2, <4>1, <4>3
                <5>2. x \notin Items(b) /\ ~(\A y \in Items(b) : y.at < x.at)
                    BY <2>2, <5>1
                <5> QED BY <1>6, <4>1, <5>1, <5>2
            <4> QED BY <4>2, <4>3
        <3> QED BY <2>1, <3>2, <3>3 DEF Linked
    <2>4. CASE z.kind # k
        BY <2>1, <2>2, <2>4 DEF Linked
    <2> QED BY <2>3, <2>4
<1> QED BY <1>1, <1>7, <1>8 DEF Seamless

(* The engine is done with the batch: with what the analyzer gets of it,   *)
(* and with what it does not.                                              *)
LEMMA SlicePassed ==
    ASSUME PathInv, PumpSlice, NEW f, Passed(f)
    PROVE  /\ OrderInv' /\ KindInv'
           /\ \E g : Passed(g)' /\ \A z : z = Base[Len(Base)] => Newest(g, z)'
<1>0. /\ OrderInv /\ KindInv /\ epc = "slice" /\ epc' = "push" /\ drain # <<>>
      /\ Drained = drain /\ DrainedDecim = drainDecim
      /\ UNCHANGED <<dual, produced, left, iq, iqDecim, overflow, skipped, drainDecim>>
    BY DEF PathInv, IInv, PumpInv, PumpSlice, bridgeVars, Drained, DrainedDecim
<1>1. Drained' = <<>> /\ DrainedDecim' = <<>> /\ Gone' = Gone
    BY <1>0 DEF Drained, DrainedDecim, Gone
<1>2. /\ Items(Drained') = {} /\ Items(DrainedDecim') = {}
      /\ Ascends(Drained') /\ Ascends(DrainedDecim')
    BY <1>1, NoItems
<1>3. OnWay' = Items(iq) \cup Items(iqDecim) \cup Items(left)
      /\ OnWay = OnWay' \cup Items(drain) \cup Items(drainDecim)
    BY <1>0, <1>2 DEF OnWay
<1>4. OrderInv'
    BY <1>0, <1>2, <1>3 DEF OrderInv, Before
<1>5. KindInv'
    BY <1>0, <1>1, <1>2 DEF KindInv
<1>6. PICK r : /\ r \in Items(drain) /\ r = drain[Len(drain)]
               /\ \A x \in Items(drain) : x.at <= r.at
    <2>1. /\ drain \in Seq(Item) /\ Ascends(drain)
          /\ \A x, y \in Items(drain) : x.kind = y.kind
        BY <1>0, PathTypes DEF OrderInv, KindInv
    <2> QED BY <1>0, <2>1, TopIs
<1>7. /\ r \in Item /\ r.kind = "raw" /\ r.at \in Nat /\ r.at <= produced /\ r \in OnWay
      /\ f["raw"] < r.at
      /\ \A x \in OnWay' : x.kind = "raw" => r.at < x.at
    <2>1. r \in OnWay /\ r.kind = "raw"
        BY <1>0, <1>3, <1>6 DEF KindInv
    <2>2. \A x \in OnWay' : x.kind = "raw" => r.at < x.at
        BY <1>0, <1>3, <1>6, <2>1 DEF OrderInv, KindInv, Before
    <2> QED BY <1>0, <2>1, <2>2, PathTypes DEF OrderInv, Passed
<1>8. PICK d \in Nat :
          /\ f["dec"] <= d /\ d <= produced
          /\ \A x \in Items(drainDecim) : x.at <= d
          /\ \A x \in OnWay' : x.kind = "dec" => d < x.at
          /\ drainDecim # <<>> => d = drainDecim[Len(drainDecim)].at
    <2>1. CASE drainDecim = <<>>
        <3>1. f["dec"] \in Nat /\ f["dec"] <= produced /\ Items(drainDecim) = {}
              /\ \A x \in OnWay' : x.kind = "dec" => f["dec"] < x.at
            BY <1>3, <2>1, NoItems DEF Passed
        <3> QED BY <2>1, <3>1
    <2>2. CASE drainDecim # <<>>
        <3>1. /\ drainDecim \in Seq(Item) /\ Ascends(drainDecim)
              /\ \A x, y \in Items(drainDecim) : x.kind = y.kind
            BY <1>0, PathTypes DEF OrderInv, KindInv
        <3>2. PICK c : /\ c \in Items(drainDecim) /\ c = drainDecim[Len(drainDecim)]
                       /\ \A x \in Items(drainDecim) : x.at <= c.at
            BY <2>2, <3>1, TopIs
        <3>3. c \in OnWay /\ c.kind = "dec"
            BY <1>0, <1>3, <3>2 DEF KindInv
        <3>4. c.at \in Nat /\ c.at <= produced /\ f["dec"] < c.at
            BY <1>0, <3>3, PathTypes DEF OrderInv, Passed
        <3>5. \A x \in OnWay' : x.kind = "dec" => c.at < x.at
            BY <1>0, <1>3, <3>2, <3>3 DEF OrderInv, KindInv, Before
        <3>6. f["dec"] \in Nat
            BY DEF Passed
        <3> QED BY <3>2, <3>4, <3>5, <3>6
    <2> QED BY <2>1, <2>2
<1>9. PICK g \in [{"raw", "dec"} -> Nat] : g["raw"] = r.at /\ g["dec"] = d
    <2>1. [k \in {"raw", "dec"} |-> IF k = "raw" THEN r.at ELSE d] \in [{"raw", "dec"} -> Nat]
        BY <1>7
    <2> QED BY <2>1
<1>10. /\ produced \in Nat /\ \A x \in Item : x.kind \in {"raw", "dec"} /\ x.at \in Nat
       /\ f["raw"] \in Nat /\ f["dec"] \in Nat
    BY PathTypes DEF Passed
<1>11. Passed(g)'
    <2>1. ASSUME NEW x \in OnWay' PROVE g[x.kind] < x.at
        <3>1. x.kind \in {"raw", "dec"}
            BY <1>3, <1>10, PathTypes
        <3> QED BY <1>7, <1>8, <1>9, <3>1
    <2>2. ASSUME NEW x \in Item, Made(x), g[x.kind] < x.at, x.at <= produced
          PROVE  x \in Gone \cup OnWay'
        <3>1. f[x.kind] <= g[x.kind] /\ g[x.kind] \in Nat /\ f[x.kind] \in Nat
            BY <1>7, <1>8, <1>9, <1>10
        <3>2. f[x.kind] < x.at
            BY <1>10, <2>2, <3>1
        <3>3. x \in Gone \cup OnWay
            BY <2>2, <3>2 DEF Passed
        <3>4. x \notin Items(drain)
            <4>1. ASSUME x \in Items(drain) PROVE FALSE
                <5>1. x.kind = "raw" /\ x.at <= r.at
                    BY <1>0, <1>6, <4>1 DEF KindInv
                <5> QED BY <1>7, <1>9, <1>10, <2>2, <5>1
            <4> QED BY <4>1
        <3>5. x \notin Items(drainDecim)
            <4>1. ASSUME x \in Items(drainDecim) PROVE FALSE
                <5>1. x.kind = "dec" /\ x.at <= d
                    BY <1>0, <1>8, <4>1 DEF KindInv
                <5> QED BY <1>9, <1>10, <2>2, <5>1
            <4> QED BY <4>1
        <3> QED BY <1>3, <3>3, <3>4, <3>5
    <2>3. g["raw"] <= produced /\ g["dec"] <= produced
        BY <1>7, <1>8, <1>9
    <2>4. produced' = produced /\ \A x : Made(x)' <=> Made(x)
        BY <1>0 DEF Made
    <2> QED BY <1>1, <1>9, <2>1, <2>2, <2>3, <2>4 DEF Passed
<1>12. ASSUME NEW z, z = Base[Len(Base)] PROVE Newest(g, z)'
    <2>1. z.kind = "dec" => dual'
        <3>1. z \in Items(Base)
            <4>1. Len(Base) \in 1..Len(Base)
                BY <1>0, SliceBounds DEF PathInv, IInv
            <4> QED BY <1>12, <4>1 DEF Items
        <3> QED BY <1>0, <3>1, BaseIs
    <2>2. z.kind \in {"raw", "dec"} /\ z.at = g[z.kind] /\ z.at \in Nat
        <3>1. CASE dual /\ drainDecim # <<>>
            <4>1. z = drainDecim[Len(drainDecim)]
                BY <1>12, <3>1 DEF Base
            <4>2. Len(drainDecim) \in 1..Len(drainDecim) /\ drainDecim \in Seq(Item)
                <5>1. drainDecim \in Seq(Item)
                    BY <1>0, PathTypes
                <5> QED BY <3>1, <5>1, EmptySeq
            <4>3. z.kind = "dec"
                BY <1>0, <4>1, <4>2 DEF KindInv, Items
            <4> QED BY <1>8, <1>9, <3>1, <4>1, <4>3
        <3>2. CASE ~(dual /\ drainDecim # <<>>)
            <4>1. z = r
                BY <1>6, <1>12, <3>2 DEF Base
            <4> QED BY <1>7, <1>9, <4>1
        <3> QED BY <3>1, <3>2
    <2>3. ASSUME NEW x \in Item, x.kind = z.kind, z.at < x.at, x.at <= g[z.kind] PROVE FALSE
        BY <1>10, <2>2, <2>3
    <2>4. z.at <= g[z.kind]
        BY <2>2
    <2> QED BY <2>1, <2>3, <2>4 DEF Newest
<1> QED BY <1>4, <1>5, <1>11, <1>12

LEMMA SliceFed ==
    ASSUME PathInv, IInv', PumpSlice, NEW f, Passed(f),
           Fed # <<>> => Newest(f, Fed[Len(Fed)])
    PROVE  /\ Seamless(Fed)' /\ Seamless(row)'
           /\ Fed' # <<>> /\ Fed'[Len(Fed')] = Base[Len(Base)]
<1>0. /\ epc = "slice" /\ feed = <<>> /\ feed' = Last_(Base, SliceLen) /\ Gone' = Gone
      /\ row' = row
      /\ IF SliceLen < Len(Base) THEN Waiting' = <<>> ELSE Waiting' = Waiting
    BY SliceStep DEF PathInv, IInv, PumpSlice, bridgeVars, Gone
<1>1. PICK b, m, v : b = Base /\ m = SliceLen /\ v = feed'
    OBVIOUS
<1>2. b \in Seq(Item) /\ Len(b) \in Nat \ {0} /\ m \in 1..Len(b)
    BY <1>0, <1>1, SliceBounds DEF PathInv, IInv
<1>3. /\ v \in Seq(Item) /\ Len(v) = m
      /\ \A i \in 1..m : v[i] = b[Len(b) - m + i]
    <2>1. m \in 0..Len(b)
        BY <1>2
    <2>2. Last_(b, m) \in Seq(Item) /\ Len(Last_(b, m)) = m
        BY <1>2, <2>1, Cut
    <2>3. \A i \in 1..m : Last_(b, m)[i] = b[Len(b) - m + i]
        BY <1>2, <2>1, CutParts
    <2> QED BY <1>0, <1>1, <2>2, <2>3
<1>4. \A i \in 1..(Len(b) - 1) : Linked(b[i], b[i + 1])
    BY <1>0, <1>1, BaseSeamless DEF Seamless
<1>5. \A i \in 1..(m - 1) : Linked(v[i], v[i + 1])
    <2>1. ASSUME NEW i \in 1..(m - 1) PROVE Linked(v[i], v[i + 1])
        <3>1. /\ i \in 1..m /\ i + 1 \in 1..m /\ Len(b) - m + i \in 1..(Len(b) - 1)
              /\ Len(b) - m + (i + 1) = (Len(b) - m + i) + 1
            BY <1>2
        <3>2. v[i] = b[Len(b) - m + i] /\ v[i + 1] = b[(Len(b) - m + i) + 1]
            BY <1>3, <3>1
        <3> QED BY <1>4, <3>1, <3>2
    <2> QED BY <2>1
<1>6. v[m] = b[Len(b)]
    <2>1. m \in 1..m /\ Len(b) - m + m = Len(b)
        BY <1>2
    <2> QED BY <1>3, <2>1
<1>7. PICK s : s = Fed' /\ s = Waiting' \o v
    BY <1>1, FedNext
<1>8. /\ \A i \in 1..(Len(s) - 1) : Linked(s[i], s[i + 1])
      /\ Len(s) \in Nat \ {0} /\ s[Len(s)] = b[Len(b)]
    <2>1. CASE SliceLen < Len(Base)
        <3>1. s = v
            BY <1>0, <1>3, <1>7, <2>1, ConcatEmptySeq
        <3> QED BY <1>2, <1>3, <1>5, <1>6, <3>1
    <2>2. CASE ~(SliceLen < Len(Base))
        <3>1. m = Len(b)
            BY <1>1, <1>2, <2>2
        <3>2. /\ Waiting \in Seq(Item) /\ Len(Waiting) \in Nat /\ Len(feed) = 0
              /\ Fed \in Seq(Item) /\ Len(Fed) = Len(Waiting) + Len(feed)
              /\ \A i \in 1..(Len(Waiting) + Len(feed)) :
                     Fed[i] = IF i <= Len(Waiting) THEN Waiting[i]
                                                   ELSE feed[i - Len(Waiting)]
            BY <1>0, FedType, EmptySeq DEF PathInv
        <3>3. PICK w, n : w = Waiting /\ n = Len(w)
            OBVIOUS
        <3>4. /\ w \in Seq(Item) /\ n \in Nat /\ Len(Fed) = n
              /\ \A i \in 1..n : Fed[i] = w[i]
            <4>1. n + 0 = n /\ \A i \in 1..n : i <= n
                BY <3>2, <3>3
            <4> QED BY <3>2, <3>3, <4>1
        <3>5. /\ Len(s) = n + m
              /\ \A i \in 1..(n + m) : s[i] = IF i <= n THEN w[i] ELSE v[i - n]
            <4>1. s = w \o v
                BY <1>0, <1>7, <2>2, <3>3
            <4>2. /\ Len(w \o v) = Len(w) + Len(v)
                  /\ \A i \in 1..(Len(w) + Len(v)) :
                        (w \o v)[i] = IF i <= Len(w) THEN w[i] ELSE v[i - Len(w)]
                BY <1>3, <3>4, ConcatProperties
            <4> QED BY <1>3, <3>3, <4>1, <4>2
        <3>6. ASSUME NEW i \in 1..(Len(s) - 1) PROVE Linked(s[i], s[i + 1])
            <4>1. CASE i < n
                <5>1. /\ i \in 1..n /\ i + 1 \in 1..n /\ i <= n /\ i + 1 <= n
                      /\ i \in 1..(n + m) /\ i + 1 \in 1..(n + m) /\ i \in 1..(Len(Fed) - 1)
                    BY <1>2, <3>4, <3>5, <4>1
                <5>2. s[i] = Fed[i] /\ s[i + 1] = Fed[i + 1]
                    BY <3>4, <3>5, <5>1
                <5>3. Linked(Fed[i], Fed[i + 1])
                    BY <5>1 DEF PathInv, Seamless
                <5> QED BY <5>2, <5>3
            <4>2. CASE i = n
                <5>1. /\ n \in 1..n /\ n \in 1..(n + m) /\ n + 1 \in 1..(n + m)
                      /\ ~(n + 1 <= n) /\ (n + 1) - n = 1 /\ n <= n /\ 1 \in 1..m
                    BY <1>2, <3>4, <3>5, <4>2
                <5>2. s[n] = Fed[Len(Fed)] /\ s[n + 1] = v[1]
                    BY <3>4, <3>5, <5>1
                <5>3. v[1] = b[1]
                    <6>1. Len(b) - m + 1 = 1
                        BY <1>2, <3>1
                    <6> QED BY <1>3, <5>1, <6>1
                <5>4. Fed # <<>> /\ Fed[Len(Fed)] \in Item
                    <6>1. Len(Fed) \in 1..Len(Fed)
                        BY <3>4, <5>1
                    <6> QED BY <3>2, <6>1, ElementOfSeq, EmptySeq
                <5>5. Linked(Fed[Len(Fed)], b[1])
                    BY <1>0, <1>1, <5>4, BaseSeamless
                <5> QED BY <4>2, <5>2, <5>3, <5>5
            <4>3. CASE i > n
                <5>1. /\ i - n \in 1..(m - 1) /\ (i + 1) - n = (i - n) + 1
                      /\ ~(i <= n) /\ ~(i + 1 <= n)
                      /\ i \in 1..(n + m) /\ i + 1 \in 1..(n + m)
                    BY <1>2, <3>4, <3>5, <4>3
                <5>2. s[i] = v[i - n] /\ s[i + 1] = v[(i - n) + 1]
                    BY <3>5, <5>1
                <5> QED BY <1>5, <5>1, <5>2
            <4> QED BY <3>4, <4>1, <4>2, <4>3
        <3>7. s[n + m] = v[m] /\ n + m \in Nat \ {0}
            <4>1. n + m \in 1..(n + m) /\ ~(n + m <= n) /\ (n + m) - n = m
                BY <1>2, <3>4
            <4> QED BY <3>5, <4>1
        <3> QED BY <1>6, <3>5, <3>6, <3>7
    <2> QED BY <2>1, <2>2
<1>9. Seamless(Fed)'
    BY <1>0, <1>7, <1>8 DEF Seamless, Linked, Between
<1>10. Seamless(row)'
    BY <1>0, RowKept
<1>11. Fed' # <<>>
    BY <1>7, <1>8, EmptySeq
<1> QED BY <1>1, <1>7, <1>8, <1>9, <1>10, <1>11

LEMMA InitPath == Init => PathInv
<1> SUFFICES ASSUME Init PROVE PathInv
    OBVIOUS
<1>1. IInv
    BY InitIInv
<1>2. /\ produced = 0 /\ left = <<>> /\ iq = <<>> /\ iqDecim = <<>> /\ epc = "loop"
      /\ drainDecim = <<>> /\ feed = <<>> /\ row = <<>> /\ count = 0
    BY DEF Init
<1>3. Drained = <<>> /\ DrainedDecim = <<>>
    BY <1>2 DEF Drained, DrainedDecim
<1>4. OnWay = {} /\ Items(<<>>) = {} /\ Ascends(<<>>)
    BY <1>2, <1>3, NoItems DEF OnWay
<1>5. OrderInv
    BY <1>2, <1>3, <1>4 DEF OrderInv, Before
<1>6. KindInv
    BY <1>2, <1>3, <1>4 DEF KindInv
<1>7. Fed = <<>>
    <2>1. Len(Waiting) = 0 /\ Len(feed) = 0
        <3>1. RingType /\ 0 \in 0..Cap
            BY <1>1, TypeParts, CapBounds DEF IInv
        <3>2. Len(Waiting) = 0
            BY <1>2, <3>1, Shape, WaitingIs DEF RingType
        <3> QED BY <1>2, <3>2, EmptySeq
    <2>2. Fed \in Seq(Item) /\ Len(Fed) = 0
        BY <1>1, <2>1, FedType
    <2> QED BY <2>2, EmptySeq
<1>8. Len(<<>>) = 0 /\ 1..(0 - 1) = {}
    BY EmptySeq
<1>9. Seamless(Fed) /\ Seamless(row)
    BY <1>2, <1>7, <1>8 DEF Seamless
<1>10. PICK f \in [{"raw", "dec"} -> Nat] : f["raw"] = 0 /\ f["dec"] = 0
    <2>1. [k \in {"raw", "dec"} |-> 0] \in [{"raw", "dec"} -> Nat]
        OBVIOUS
    <2> QED BY <2>1
<1>11. Passed(f)
    <2>1. \A x \in Item : x.at \in Nat /\ ~(x.at <= 0)
        BY WindowAssumption DEF Item
    <2> QED BY <1>2, <1>4, <1>10, <2>1 DEF Passed
<1> QED BY <1>1, <1>2, <1>5, <1>6, <1>7, <1>9, <1>11 DEF PathInv

LEMMA PathStep ==
    ASSUME PathInv, [Next]_vars, IInv'
    PROVE  PathInv'
<1> USE DEF PathInv
<1>0. PICK f : Passed(f) /\ (Fed # <<>> => Newest(f, Fed[Len(Fed)]))
    OBVIOUS
(* The bridge and the pump, up to the choice. *)
<1>1. CASE \/ Deliver \/ BridgeTake \/ BridgePush \/ PumpStart \/ PumpDrain \/ PumpDecim
           \/ UNCHANGED vars
    <2>1. OrderInv' /\ KindInv' /\ Passed(f)'
        <3>1. CASE UNCHANGED vars
            <4>1. UNCHANGED <<dual, produced, left, iq, iqDecim, overflow, epc, drain,
                              drainDecim, skipped>>
                BY <3>1 DEF vars, bridgeVars
            <4> QED BY <1>0, <4>1 DEF OrderInv, KindInv, Passed, Drained, DrainedDecim,
                                      OnWay, Made, Gone
        <3> QED BY <1>0, <1>1, <3>1, DeliverPath, TakePath, BridgePushPath, StartPath,
                   DrainPath, DecimPath
    <2>2. Gone \subseteq Gone'
        BY <1>1 DEF Gone, Deliver, BridgeTake, BridgePush, Push, PumpStart, PumpDrain,
                    PumpDecim, vars, bridgeVars
    <2>3. UNCHANGED <<dual, feed, ringVars>>
        BY <1>1 DEF Deliver, BridgeTake, BridgePush, PumpStart, PumpDrain, PumpDecim, vars
    <2>4. Seamless(Fed)' /\ Seamless(row)' /\ (Fed # <<>> => Newest(f, Fed[Len(Fed)]))'
        BY <1>0, <2>2, <2>3, AnalyzerIdle
    <2>5. (epc \in {"loop", "drain", "decim", "slice"} => feed = <<>>)'
        <3>1. epc' = epc \/ epc \in {"loop", "drain", "decim", "slice"}
            BY <1>1 DEF Deliver, BridgeTake, BridgePush, PumpStart, PumpDrain, PumpDecim,
                        vars
        <3> QED BY <2>3, <3>1
    <2> QED BY <2>1, <2>4, <2>5
(* The choice. *)
<1>2. CASE PumpSlice
    <2>1. Seamless(Fed)' /\ Seamless(row)' /\ Fed' # <<>> /\ Fed'[Len(Fed')] = Base[Len(Base)]
        BY <1>0, <1>2, SliceFed
    <2>2. PICK g : Passed(g)' /\ \A z : z = Base[Len(Base)] => Newest(g, z)'
        BY <1>0, <1>2, SlicePassed
    <2>3. OrderInv' /\ KindInv'
        BY <1>0, <1>2, SlicePassed
    <2>4. PICK z : z = Base[Len(Base)] /\ z = Fed'[Len(Fed')] /\ Newest(g, z)'
        BY <2>1, <2>2
    <2>5. Newest(g, Fed[Len(Fed)])'
        BY <2>4 DEF Newest, Made
    <2>6. epc' = "push"
        BY <1>2 DEF PumpSlice
    <2> QED BY <2>1, <2>2, <2>3, <2>5, <2>6
(* The analyzer. *)
<1>3. CASE AnalyzerPush \/ AnalyzerEmit
    <2>1. /\ UNCHANGED <<dual, produced, left, iq, iqDecim, overflow, drain, drainDecim,
                         skipped>>
          /\ epc \in {"push", "emit"}
        BY <1>3 DEF AnalyzerPush, AnalyzerEmit, bridgeVars
    <2>2. epc' \in {"emit", "loop", "push"} /\ (epc' = "loop" => feed' = <<>>)
        <3>1. CASE AnalyzerPush
            <4>1. epc' = NextStep(rowsLeft, count', feed')
                BY <3>1 DEF AnalyzerPush
            <4> QED BY <4>1 DEF NextStep
        <3>2. CASE AnalyzerEmit
            <4>1. epc' = NextStep(rowsLeft', count', feed) /\ feed' = feed
                BY <3>2 DEF AnalyzerEmit
            <4> QED BY <4>1 DEF NextStep
        <3> QED BY <1>3, <3>1, <3>2
    <2>3. Drained' = Drained /\ DrainedDecim' = DrainedDecim
        BY <2>1, <2>2 DEF Drained, DrainedDecim
    <2>4. OnWay' = OnWay /\ Gone' = Gone
        BY <2>1, <2>3 DEF OnWay, Gone
    <2>5. OrderInv'
        BY <2>1, <2>3, <2>4 DEF OrderInv
    <2>6. KindInv'
        BY <2>1, <2>2, <2>3 DEF KindInv
    <2>7. Passed(f)'
        BY <1>0, <2>1, <2>4 DEF Passed, Made
    <2>8. Seamless(Fed)' /\ Seamless(row)' /\ (Fed # <<>> => Newest(f, Fed[Len(Fed)]))'
        BY <1>0, <1>3, FeedPath, EmitPath
    <2> QED BY <2>2, <2>5, <2>6, <2>7, <2>8
<1> QED BY <1>1, <1>2, <1>3 DEF Next

(* Whatever is missing between two neighbours of a row was lost on the way *)
(* or dropped to catch up: neither what the pump cuts off, nor the row     *)
(* cap, nor the decimator between two chunks, nor the raw samples shown    *)
(* for want of decimated ones leave a seam inside a window.                *)
THEOREM OnlyLossesMissing == Spec => []GapsAreLosses
<1>1. PathInv /\ [Next]_vars => PathInv'
    BY StepIInv, PathStep DEF PathInv
<1>2. PathInv => GapsAreLosses
    BY DEF PathInv, GapsAreLosses, JumpsOnlyOver, Seamless, Linked, Gone
<1> QED BY InitPath, <1>1, <1>2, PTL DEF Spec
=============================================================================
