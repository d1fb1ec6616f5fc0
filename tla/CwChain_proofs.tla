---------------------------- MODULE CwChain_proofs ----------------------------
(***************************************************************************)
(* Proofs about CwChain for all factors, filter lengths, lookahead times,  *)
(* dits and blocks that meet its assumptions: what the decimator keeps,    *)
(* which sample a gain lands on, that the detector's rings hold their      *)
(* samples in order with the right sum, and that the channel filter does   *)
(* not notice how its input was cut into blocks.                           *)
(*                                                                         *)
(* The model walks through a block with recursive functions. That they     *)
(* exist, and what holds at each of their steps, is proved by induction    *)
(* over the natural numbers (Induct, Recursion, Along).                    *)
(***************************************************************************)
EXTENDS CwChain, TLAPS, SequenceTheorems, WellFoundedInduction, FiniteSetTheorems

LEMMA Remainder ==
    ASSUME NEW f \in Nat \ {0}, NEW q \in Int, NEW r \in Nat, r < f, NEW a \in Int, a = f * q + r
    PROVE  a % f = r
<1>1. PICK p \in Int : p = a \div f
    OBVIOUS
<1>2. /\ a = f * p + (a % f) /\ a % f \in Int /\ 0 <= a % f /\ a % f < f
    BY <1>1
<1>3. f * p \in Int /\ f * q \in Int /\ f * (p - q) = f * p - f * q
    OBVIOUS
<1>4. f * (p - q) < f /\ f * (q - p) < f /\ f * (q - p) = f * q - f * p
    BY <1>2, <1>3
<1>5. p - q < 1 /\ q - p < 1
    <2>1. \A t \in Int : t >= 1 => f * t >= f
        OBVIOUS
    <2> QED BY <1>4, <2>1
<1> QED BY <1>2, <1>5

(* What leaves no remainder is a multiple.                                 *)
LEMMA Multiple ==
    ASSUME NEW a \in Nat, NEW f \in Nat \ {0}
    PROVE  a % f = 0 <=> \E q \in Nat : a = q * f
<1>1. ASSUME a % f = 0 PROVE \E q \in Nat : a = q * f
    <2>1. PICK q \in Nat : q = a \div f
        OBVIOUS
    <2>2. a = f * q + (a % f)
        BY <2>1
    <2>3. f * q = q * f /\ q * f \in Nat
        OBVIOUS
    <2> QED BY <1>1, <2>2, <2>3
<1>2. ASSUME NEW q \in Nat, a = q * f PROVE a % f = 0
    <2>1. f * q = q * f /\ q * f \in Nat
        OBVIOUS
    <2>2. a = f * q + 0
        BY <1>2, <2>1
    <2> QED BY <2>2, Remainder
<1> QED BY <1>1, <1>2

(* A part of a sum may be replaced by its remainder.                       *)
LEMMA Residue ==
    ASSUME NEW f \in Nat \ {0}, NEW x \in Nat, NEW y \in Nat
    PROVE  (x + y) % f = ((x % f) + y) % f
<1>1. PICK q \in Int, c \in Nat : q = x \div f /\ c = x % f /\ x = f * q + c
    OBVIOUS
<1>2. PICK p \in Int, r \in Nat :
          /\ p = (c + y) \div f /\ r = (c + y) % f
          /\ r < f /\ c + y = f * p + r
    OBVIOUS
<1>3. PICK s \in Int : s = q + p /\ f * s = f * q + f * p /\ f * q \in Int /\ f * p \in Int
    OBVIOUS
<1>4. PICK a \in Int : a = x + y /\ a = f * s + r
    BY <1>1, <1>2, <1>3
<1>5. a % f = r
    <2>1. r < f /\ a = f * s + r
        BY <1>2, <1>4
    <2> QED BY <2>1, Remainder
<1> QED BY <1>1, <1>2, <1>4, <1>5

(* The multiple below a number.                                            *)
LEMMA Floor ==
    ASSUME NEW a \in Nat, NEW d \in Nat \ {0}
    PROVE  a \div d \in Nat /\ (a \div d) * d <= a /\ a < (a \div d) * d + d
OBVIOUS

(* Multiples keep the order.                                               *)
LEMMA Stretch ==
    ASSUME NEW a \in Nat, NEW b \in Nat, NEW d \in Nat \ {0}
    PROVE  a < b <=> a * d < b * d
OBVIOUS

(* A block of m samples after the first a, and what the decimator keeps of it. *)
Numbered(s, a, m) == Len(s) = m /\ \A i \in 1..m : s[i] = a + i
Thins(xs, d, a, m) ==
    /\ xs \in Seq((a + 1)..(a + m))
    /\ \A i, j \in 1..Len(xs) : i < j => xs[i] < xs[j]
    /\ \A k \in (a + 1)..(a + m) :
           k \in ToSet(xs) <=> (d.counter + (k - a)) % d.factor = 0

LEMMA Thinned ==
    ASSUME NEW a \in Nat, NEW m \in Nat, NEW d,
           d.factor \in Nat \ {0}, d.counter \in Nat, d.counter < d.factor,
           NEW s, Numbered(s, a, m),
           NEW xs, xs = Decimated(d, s)
    PROVE  Thins(xs, d, a, m)
<1>0. Len(s) = m /\ \A i \in 1..m : s[i] = a + i
    BY DEF Numbered
<1> DEFINE f == d.factor
           c == d.counter
           last == (c + m) \div f
<1>1. f \in Nat \ {0} /\ c \in Nat /\ c < f
    OBVIOUS
<1>2. last \in Nat /\ last * f <= c + m /\ c + m < last * f + f
    <2>1. c + m \in Nat
        BY <1>1
    <2> QED BY <1>1, <2>1, Floor
<1>3. xs = [j \in 1..last |-> s[j * f - c]]
    BY <1>0 DEF Decimated
<1> HIDE DEF f, c, last
<1>4. ASSUME NEW j \in 1..last PROVE j * f - c \in 1..m
    <2>1. j * f \in Nat /\ j * f >= f /\ j * f <= last * f /\ last * f \in Nat
        BY <1>1, <1>2
    <2> QED BY <1>1, <1>2, <2>1
<1>5. \A j \in 1..last : xs[j] = a + (j * f - c)
    BY <1>0, <1>3, <1>4
<1>6. xs \in Seq((a + 1)..(a + m)) /\ Len(xs) = last /\ DOMAIN xs = 1..last
    <2>1. ASSUME NEW j \in 1..last PROVE a + (j * f - c) \in (a + 1)..(a + m)
        <3>1. PICK t \in 1..m : t = j * f - c
            BY <1>4
        <3> QED BY <3>1
    <2>2. xs = [j \in 1..last |-> xs[j]]
        BY <1>3
    <2>3. \A j \in 1..last : xs[j] \in (a + 1)..(a + m)
        BY <1>5, <2>1
    <2>4. xs \in [1..last -> (a + 1)..(a + m)]
        BY <2>2, <2>3
    <2> QED BY <1>2, <2>4, SeqDef
<1>7. \A i, j \in 1..last : i < j => xs[i] < xs[j]
    <2> SUFFICES ASSUME NEW i \in 1..last, NEW j \in 1..last, i < j PROVE xs[i] < xs[j]
        OBVIOUS
    <2>1. i * f < j * f /\ i * f \in Nat /\ j * f \in Nat
        BY <1>1, <1>2, Stretch
    <2> QED BY <1>1, <1>5, <2>1
<1>8. ASSUME NEW k \in (a + 1)..(a + m)
      PROVE  k \in ToSet(xs) <=> (c + (k - a)) % f = 0
    <2>1. c + (k - a) \in Nat
        BY <1>1
    <2>2. ASSUME NEW j \in 1..last, k = xs[j] PROVE (c + (k - a)) % f = 0
        <3>1. PICK t \in Nat : t = j * f
            BY <1>1, <1>2
        <3>2. k = a + (t - c)
            BY <1>5, <2>2, <3>1
        <3>3. j \in Nat /\ c + (k - a) = j * f
            BY <1>1, <1>2, <3>1, <3>2
        <3> QED BY <1>1, <2>1, <3>3, Multiple
    <2>3. ASSUME (c + (k - a)) % f = 0 PROVE k \in ToSet(xs)
        <3>1. PICK q \in Nat : c + (k - a) = q * f
            BY <1>1, <2>1, <2>3, Multiple
        <3>2. q * f \in Nat /\ q * f >= 1 /\ q * f <= c + m
            BY <1>1, <3>1
        <3>3. q # 0
            BY <1>1, <3>2
        <3>4. q < last + 1
            <4>1. q * f < (last + 1) * f
                BY <1>1, <1>2, <3>2
            <4> QED BY <1>1, <1>2, <4>1, Stretch
        <3>5. q \in 1..last
            BY <1>2, <3>3, <3>4
        <3>6. xs[q] = k
            <4>1. PICK t \in Nat : t = q * f
                BY <3>2
            <4>2. xs[q] = a + (t - c) /\ c + (k - a) = t
                BY <1>5, <3>1, <3>5, <4>1
            <4> QED BY <1>1, <4>2
        <3> QED BY <1>6, <3>5, <3>6 DEF ToSet
    <2> QED BY <1>6, <2>2, <2>3 DEF ToSet
<1> QED BY <1>6, <1>7, <1>8 DEF f, c, Thins
-----------------------------------------------------------------------------
(* The lines and counters have the sizes they say, and the counter goes on *)
(* from block to block.                                                    *)
ChainTypes ==
    /\ set \in Settings
    /\ n \in Nat /\ base \in 0..n /\ emitted \subseteq 1..n
    /\ dec \in [factor : Factors, counter : Nat] /\ dec.counter < dec.factor
    /\ dec.counter = (n - base) % dec.factor
    /\ histLen \in Nat /\ hist \in Seq(Nat) /\ Len(hist) = histLen
    /\ lineLen \in Nat /\ line \in Seq(Nat) /\ Len(line) = lineLen

(* Whenever a sample waits in the delay line, the level beside it is its   *)
(* own, and the levels from there on are those of all newer samples.       *)
Since(x) == {y \in emitted : x <= y}
Beside(i) ==
    /\ histLen = lineLen
    /\ hist[i] = line[i]
    /\ {hist[j] : j \in i..histLen} = Since(line[i])
GainInv == \A i \in 1..Len(line) : line[i] # 0 => Beside(i)

ChainInv == ChainTypes /\ EvenlyDecimated /\ GainInv /\ GainLandsOnItsSample

(* The stages a block goes through first, with m samples. *)
D0 == IF Rebuilt THEN [factor |-> set.decim, counter |-> 0] ELSE dec
Base0 == IF Rebuilt THEN n ELSE base
Passed(m) == Decimated(D0, [i \in 1..m |-> n + i])

(* The lookahead is at least one sample.                                   *)
LEMMA DelayType ==
    ASSUME set \in Settings
    PROVE  Delay \in Nat \ {0}
<1>1. set.ahead \in Nat /\ set.decim \in Nat \ {0}
    BY FactorAssumption, LengthAssumption DEF Settings
<1>2. set.ahead \div set.decim \in Nat
    BY <1>1, Floor
<1> QED BY <1>2 DEF Delay

(* A new chain has no past.                                                *)
LEMMA InitChain ==
    ASSUME Init
    PROVE  ChainInv
<1>1. ChainTypes
    <2>1. (0 - 0) % 1 = 0
        OBVIOUS
    <2> QED BY <2>1, FactorAssumption, EmptySeq DEF Init, ChainTypes
<1>2. EvenlyDecimated /\ GainInv /\ GainLandsOnItsSample
    BY DEF Init, EvenlyDecimated, GainInv, GainLandsOnItsSample
<1> QED BY <1>1, <1>2 DEF ChainInv

(* A block keeps every factor-th sample since the decimator was built. *)
LEMMA BlockKept ==
    ASSUME ChainTypes, EvenlyDecimated, NEW m \in Nat,
           dec' = [D0 EXCEPT !.counter = IF D0.factor = 1 THEN @ ELSE (@ + m) % D0.factor],
           n' = n + m, base' = Base0, emitted' = emitted \cup ToSet(Passed(m))
    PROVE  /\ Passed(m) \in Seq((n + 1)..(n + m))
           /\ \A i, j \in 1..Len(Passed(m)) : i < j => Passed(m)[i] < Passed(m)[j]
           /\ dec' \in [factor : Factors, counter : Nat] /\ dec'.counter < dec'.factor
           /\ dec'.counter = (n' - base') % dec'.factor
           /\ n' \in Nat /\ base' \in 0..n' /\ emitted' \subseteq 1..n'
           /\ EvenlyDecimated'
<1>1. /\ n \in Nat /\ base \in 0..n /\ emitted \subseteq 1..n
      /\ dec \in [factor : Factors, counter : Nat] /\ dec.counter < dec.factor
      /\ dec.counter = (n - base) % dec.factor /\ set.decim \in Factors
    BY DEF ChainTypes, Settings
<1>2. PICK f \in Nat \ {0}, c \in Nat :
          /\ f \in Factors /\ D0 = [factor |-> f, counter |-> c] /\ c < f
          /\ D0.factor = f /\ D0.counter = c
          /\ c = (n - Base0) % f /\ Base0 \in 0..n
          /\ Base0 < n => Base0 = base /\ f = dec.factor
    <2>1. CASE Rebuilt
        <3>1. set.decim \in Nat \ {0} /\ (n - n) % set.decim = 0
            BY <1>1, FactorAssumption
        <3>2. D0 = [factor |-> set.decim, counter |-> 0] /\ Base0 = n
            BY <2>1 DEF D0, Base0
        <3>3. PICK f \in Nat \ {0} : f = set.decim
            BY <3>1
        <3>4. /\ f \in Factors /\ D0 = [factor |-> f, counter |-> 0]
              /\ D0.factor = f /\ D0.counter = 0 /\ 0 < f /\ 0 \in Nat
              /\ 0 = (n - Base0) % f /\ Base0 \in 0..n /\ ~(Base0 < n)
            BY <1>1, <3>1, <3>2, <3>3
        <3> QED BY <3>4
    <2>2. CASE ~Rebuilt
        <3>1. dec.factor \in Nat \ {0}
            BY <1>1, FactorAssumption
        <3> QED BY <1>1, <2>2, <3>1 DEF D0, Base0
    <2> QED BY <2>1, <2>2
<1>3. /\ Passed(m) \in Seq((n + 1)..(n + m))
      /\ \A i, j \in 1..Len(Passed(m)) : i < j => Passed(m)[i] < Passed(m)[j]
      /\ \A k \in (n + 1)..(n + m) : k \in ToSet(Passed(m)) <=> (c + (k - n)) % f = 0
    <2>1. D0 \in [factor : Nat \ {0}, counter : Nat] /\ D0.counter < D0.factor
        BY <1>2
    <2>2. PICK xs : xs = Passed(m)
        OBVIOUS
    <2>3. xs = Decimated(D0, [i \in 1..m |-> n + i])
        BY <2>2 DEF Passed
    <2>4. /\ xs \in Seq((n + 1)..(n + m))
          /\ \A i, j \in 1..Len(xs) : i < j => xs[i] < xs[j]
          /\ \A k \in (n + 1)..(n + m) :
                 k \in ToSet(xs) <=> (D0.counter + (k - n)) % D0.factor = 0
        <3>1. PICK a, d : a \in Nat /\ a = n /\ d = D0
            BY <1>1
        <3>2. /\ xs \in Seq((a + 1)..(a + m))
              /\ \A i, j \in 1..Len(xs) : i < j => xs[i] < xs[j]
              /\ \A k \in (a + 1)..(a + m) :
                     k \in ToSet(xs) <=> (d.counter + (k - a)) % d.factor = 0
            <4>1. /\ d.factor \in Nat \ {0} /\ d.counter \in Nat
                  /\ d.counter < d.factor
                BY <2>1, <3>1
            <4>2. PICK s : s = [i \in 1..m |-> a + i]
                OBVIOUS
            <4>3. Numbered(s, a, m)
                BY <4>2 DEF Numbered
            <4>4. xs = Decimated(d, s)
                BY <2>3, <3>1, <4>2, Zenon
            <4>5. a \in Nat
                BY <3>1
            <4>6. Thins(xs, d, a, m)
                BY <4>1, <4>3, <4>4, <4>5, Thinned
            <4> QED BY <4>6 DEF Thins
        <3> QED BY <3>1, <3>2
    <2> QED BY <1>2, <2>2, <2>4
<1>4. ToSet(Passed(m)) \subseteq (n + 1)..(n + m)
    <2>1. PICK xs : xs = Passed(m) /\ xs \in Seq((n + 1)..(n + m))
        BY <1>3
    <2>2. DOMAIN xs = 1..Len(xs) /\ \A i \in 1..Len(xs) : xs[i] \in (n + 1)..(n + m)
        BY <2>1, LenProperties, ElementOfSeq
    <2> QED BY <2>1, <2>2 DEF ToSet
<1>5. emitted' \subseteq 1..n' /\ n' \in Nat /\ base' \in 0..n'
    BY <1>1, <1>2, <1>4
<1>6. PICK a \in Nat : a = n - base' /\ c = a % f
    BY <1>1, <1>2
<1>7. dec' = [factor |-> f, counter |-> (a + m) % f]
    <2>1. (a + m) % f = (c + m) % f
        BY <1>6, Residue
    <2>2. CASE f = 1
        <3>1. c = 0 /\ (c + m) % 1 = 0
            BY <1>2, <2>2
        <3> QED BY <1>2, <2>1, <2>2, <3>1
    <2>3. CASE f # 1
        BY <1>2, <2>1, <2>3
    <2> QED BY <2>2, <2>3
<1>8. /\ dec' \in [factor : Factors, counter : Nat] /\ dec'.counter < dec'.factor
      /\ dec'.counter = (n' - base') % dec'.factor
    <2>1. n' - base' = a + m /\ (a + m) % f \in Nat /\ (a + m) % f < f
        BY <1>1, <1>5, <1>6
    <2> QED BY <1>2, <1>7, <2>1
<1>9. EvenlyDecimated'
    <2> SUFFICES ASSUME NEW k \in (base' + 1)..n'
                 PROVE  k \in emitted' <=> (k - base') % f = 0
        BY <1>7 DEF EvenlyDecimated
    <2>1. CASE k <= n
        <3>1. Base0 = base /\ f = dec.factor
            BY <1>1, <1>2, <2>1
        <3>2. k \notin ToSet(Passed(m))
            BY <1>1, <1>4, <2>1
        <3>3. k \in (base + 1)..n
            BY <1>1, <1>5, <2>1, <3>1
        <3> QED BY <3>1, <3>2, <3>3 DEF EvenlyDecimated
    <2>2. CASE k > n
        <3>1. k \in (n + 1)..(n + m) /\ k \notin emitted
            BY <1>1, <1>5, <2>2
        <3>2. PICK b \in Nat : b = k - n
            BY <1>1, <3>1
        <3>3. k - base' = a + b
            BY <1>1, <1>5, <1>6, <3>2
        <3>4. (a + b) % f = (c + b) % f
            BY <1>6, Residue
        <3> QED BY <1>3, <3>1, <3>2, <3>3, <3>4
    <2> QED BY <1>1, <1>5, <2>1, <2>2
<1> QED BY <1>3, <1>5, <1>8, <1>9

(* What the gain control looks at, and the signal that waits beside it. *)
Levels(xs) == History \o xs
Signal(xs) == Waiting \o xs

(* The newest k elements.                                                  *)
LEMMA Newer ==
    ASSUME NEW s, s \in Seq(Nat), NEW k \in 0..Len(s)
    PROVE  /\ Newest(k, s) \in Seq(Nat) /\ Len(Newest(k, s)) = k
           /\ \A i \in 1..k : Newest(k, s)[i] = s[Len(s) - k + i]
<1> DEFINE a == Len(s) - k + 1
<1>1. Len(s) \in Nat /\ k \in Nat /\ k <= Len(s) /\ a \in Int /\ a >= 1
    BY LenProperties
<1>2. \A i \in a..Len(s) : s[i] \in Nat
    BY <1>1, ElementOfSeq
<1>3. /\ SubSeq(s, a, Len(s)) \in Seq(Nat)
      /\ Len(SubSeq(s, a, Len(s))) = IF a <= Len(s) THEN Len(s) - a + 1 ELSE 0
      /\ \A i \in 1..(Len(s) - a + 1) : SubSeq(s, a, Len(s))[i] = s[a + i - 1]
    BY <1>1, <1>2, SubSeqProperties
<1>4. Len(s) - a + 1 = k /\ \A i \in Nat : a + i - 1 = Len(s) - k + i
    BY <1>1
<1>5. Newest(k, s) = SubSeq(s, a, Len(s))
    BY DEF Newest
<1> HIDE DEF a
<1>6. Len(Newest(k, s)) = k
    <2>1. k = 0 \/ a <= Len(s)
        BY <1>1, <1>4
    <2> QED BY <1>1, <1>3, <1>4, <1>5, <2>1
<1>7. ASSUME NEW i \in 1..k PROVE Newest(k, s)[i] = s[Len(s) - k + i]
    <2>1. i \in 1..(Len(s) - a + 1) /\ a + i - 1 = Len(s) - k + i
        BY <1>1, <1>4
    <2> QED BY <1>3, <1>5, <2>1
<1> QED BY <1>3, <1>5, <1>6, <1>7

(* A line of zeros.                                                        *)
LEMMA Silence ==
    ASSUME NEW d \in Nat
    PROVE  Zeros(d) \in Seq(Nat) /\ Len(Zeros(d)) = d /\ \A i \in 1..d : Zeros(d)[i] = 0
<1>1. PICK t : t = Zeros(d)
    OBVIOUS
<1>2. t = [i \in 1..d |-> 0]
    BY <1>1 DEF Zeros
<1>3. t \in [1..d -> Nat]
    BY <1>2
<1>4. t \in Seq(Nat)
    BY <1>3, SeqDef
<1>5. Len(t) = d
    BY <1>2
<1> QED BY <1>1, <1>2, <1>4, <1>5

(* The levels and the signal run side by side, the new samples behind. *)
LEMMA SideBySide ==
    ASSUME ChainTypes, NEW xs, xs \in Seq(Nat)
    PROVE  /\ Delay \in Nat \ {0} /\ Len(xs) \in Nat
           /\ Levels(xs) \in Seq(Nat) /\ Len(Levels(xs)) = Delay + Len(xs)
           /\ Signal(xs) \in Seq(Nat) /\ Len(Signal(xs)) = Delay + Len(xs)
           /\ \A i \in 1..Delay :
                  /\ Levels(xs)[i] = IF Delay # histLen THEN 0 ELSE hist[i]
                  /\ Signal(xs)[i] = IF Delay # lineLen THEN 0 ELSE line[i]
           /\ \A i \in 1..Len(xs) :
                  Levels(xs)[Delay + i] = xs[i] /\ Signal(xs)[Delay + i] = xs[i]
<1>1. PICK d \in Nat \ {0} : d = Delay
    BY DelayType DEF ChainTypes
<1>2. Len(xs) \in Nat
    BY LenProperties
<1>3. /\ histLen \in Nat /\ hist \in Seq(Nat) /\ Len(hist) = histLen
      /\ lineLen \in Nat /\ line \in Seq(Nat) /\ Len(line) = lineLen
    BY DEF ChainTypes
<1>4. /\ History \in Seq(Nat) /\ Len(History) = d
      /\ \A i \in 1..d : History[i] = IF d # histLen THEN 0 ELSE hist[i]
    <2>1. CASE d # histLen
        BY <1>1, <2>1, Silence DEF History
    <2>2. CASE d = histLen
        BY <1>1, <1>3, <2>2 DEF History
    <2> QED BY <2>1, <2>2
<1>5. /\ Waiting \in Seq(Nat) /\ Len(Waiting) = d
      /\ \A i \in 1..d : Waiting[i] = IF d # lineLen THEN 0 ELSE line[i]
    <2>1. CASE d # lineLen
        BY <1>1, <2>1, Silence DEF Waiting
    <2>2. CASE d = lineLen
        BY <1>1, <1>3, <2>2 DEF Waiting
    <2> QED BY <2>1, <2>2
<1>6. ASSUME NEW t, t \in Seq(Nat), Len(t) = d
      PROVE  /\ t \o xs \in Seq(Nat) /\ Len(t \o xs) = d + Len(xs)
             /\ \A i \in 1..d : (t \o xs)[i] = t[i]
             /\ \A i \in 1..Len(xs) : (t \o xs)[d + i] = xs[i]
    <2>1. /\ t \o xs \in Seq(Nat) /\ Len(t \o xs) = d + Len(xs)
          /\ \A i \in 1..(d + Len(xs)) :
                 (t \o xs)[i] = IF i <= d THEN t[i] ELSE xs[i - d]
        BY <1>6, ConcatProperties
    <2>2. \A i \in 1..d : i \in 1..(d + Len(xs)) /\ i <= d
        BY <1>2
    <2>3. \A i \in 1..Len(xs) : d + i \in 1..(d + Len(xs)) /\ ~(d + i <= d) /\ (d + i) - d = i
        BY <1>2
    <2> QED BY <2>1, <2>2, <2>3
<1>7. /\ Levels(xs) \in Seq(Nat) /\ Len(Levels(xs)) = d + Len(xs)
      /\ \A i \in 1..d : Levels(xs)[i] = History[i]
      /\ \A i \in 1..Len(xs) : Levels(xs)[d + i] = xs[i]
    BY <1>4, <1>6 DEF Levels
<1>8. /\ Signal(xs) \in Seq(Nat) /\ Len(Signal(xs)) = d + Len(xs)
      /\ \A i \in 1..d : Signal(xs)[i] = Waiting[i]
      /\ \A i \in 1..Len(xs) : Signal(xs)[d + i] = xs[i]
    BY <1>5, <1>6 DEF Signal
<1> QED BY <1>1, <1>2, <1>4, <1>5, <1>7, <1>8

Ascending(xs) == \A i, j \in 1..Len(xs) : i < j => xs[i] < xs[j]

(* Beside a sample that is not silence stands its own level, and behind it *)
(* the levels of all newer samples, the block's included.                  *)
LEMMA InStep ==
    ASSUME ChainTypes, GainInv, NEW m \in Nat,
           NEW xs, xs \in Seq((n + 1)..(n + m)), Ascending(xs),
           NEW i \in 1..(Delay + Len(xs)), Signal(xs)[i] # 0
    PROVE  /\ Levels(xs)[i] = Signal(xs)[i]
           /\ {Levels(xs)[j] : j \in i..(Delay + Len(xs))}
                = {x \in emitted \cup ToSet(xs) : Signal(xs)[i] <= x}
           /\ \A j \in i..Delay : Levels(xs)[j] \in emitted
<1>0. n \in Nat /\ emitted \subseteq 1..n
    BY DEF ChainTypes
<1>1. /\ xs \in Seq(Nat) /\ DOMAIN xs = 1..Len(xs)
      /\ \A j \in 1..Len(xs) : xs[j] \in (n + 1)..(n + m)
    <2>1. DOMAIN xs = 1..Len(xs) /\ \A j \in 1..Len(xs) : xs[j] \in (n + 1)..(n + m)
        BY LenProperties, ElementOfSeq
    <2>2. \A j \in 1..Len(xs) : xs[j] \in Nat
        BY <1>0, <2>1
    <2>3. xs \in [1..Len(xs) -> Nat] /\ Len(xs) \in Nat
        BY <2>1, <2>2, LenProperties
    <2> QED BY <2>1, <2>3, SeqDef
<1>a. PICK d, k, L, W :
          /\ d \in Nat \ {0} /\ k \in Nat
          /\ d = Delay /\ k = Len(xs) /\ L = Levels(xs) /\ W = Signal(xs)
    <2>1. Delay \in Nat \ {0} /\ Len(xs) \in Nat
        BY <1>1, SideBySide
    <2> QED BY <2>1
<1>b. /\ \A j \in 1..Delay :
             /\ Levels(xs)[j] = IF Delay # histLen THEN 0 ELSE hist[j]
             /\ Signal(xs)[j] = IF Delay # lineLen THEN 0 ELSE line[j]
      /\ \A j \in 1..Len(xs) :
             Levels(xs)[Delay + j] = xs[j] /\ Signal(xs)[Delay + j] = xs[j]
    BY <1>1, SideBySide
<1>2. /\ d \in Nat \ {0} /\ k \in Nat
      /\ d = Delay /\ k = Len(xs) /\ L = Levels(xs) /\ W = Signal(xs)
      /\ \A j \in 1..d : /\ L[j] = IF d # histLen THEN 0 ELSE hist[j]
                         /\ W[j] = IF d # lineLen THEN 0 ELSE line[j]
      /\ \A j \in 1..k : L[d + j] = xs[j] /\ W[d + j] = xs[j]
    <2>1. ASSUME NEW j \in 1..d
          PROVE  /\ L[j] = IF d # histLen THEN 0 ELSE hist[j]
                 /\ W[j] = IF d # lineLen THEN 0 ELSE line[j]
        <3>1. j \in 1..Delay
            BY <1>a
        <3> QED BY <1>a, <1>b, <3>1
    <2>2. ASSUME NEW j \in 1..k PROVE L[d + j] = xs[j] /\ W[d + j] = xs[j]
        <3>1. j \in 1..Len(xs)
            BY <1>a
        <3> QED BY <1>a, <1>b, <3>1
    <2> QED BY <1>a, <2>1, <2>2
<1>3. ToSet(xs) = {xs[j] : j \in 1..k}
    BY <1>1, <1>2 DEF ToSet
<1>4. {L[j] : j \in (d + 1)..(d + k)} = ToSet(xs)
    <2>1. ASSUME NEW j \in (d + 1)..(d + k) PROVE L[j] \in ToSet(xs)
        <3>1. PICK l \in 1..k : j = d + l
            <4>1. j - d \in 1..k /\ j = d + (j - d)
                BY <1>2
            <4> QED BY <4>1
        <3> QED BY <1>2, <1>3, <3>1
    <2>2. ASSUME NEW l \in 1..k PROVE \E j \in (d + 1)..(d + k) : L[j] = xs[l]
        <3>1. d + l \in (d + 1)..(d + k)
            BY <1>2
        <3> QED BY <1>2, <3>1
    <2> QED BY <1>3, <2>1, <2>2
<1> SUFFICES /\ L[i] = W[i]
             /\ {L[j] : j \in i..(d + k)} = {x \in emitted \cup ToSet(xs) : W[i] <= x}
             /\ \A j \in i..d : L[j] \in emitted
    BY <1>2
<1>5. i \in 1..(d + k) /\ W[i] # 0
    BY <1>2
<1>6. CASE i <= d
    <2>1. i \in 1..d
        BY <1>5, <1>6
    <2>2. d = lineLen /\ W[i] = line[i] /\ line[i] # 0 /\ i \in 1..Len(line)
        BY <1>2, <1>5, <2>1 DEF ChainTypes
    <2>3. Beside(i)
        BY <2>2 DEF GainInv
    <2>4. d = histLen /\ hist[i] = line[i] /\ {hist[j] : j \in i..d} = Since(line[i])
        BY <2>2, <2>3 DEF Beside
    <2>5. \A j \in i..d : L[j] = hist[j] /\ j \in 1..d
        BY <1>2, <2>1, <2>4
    <2>6. {L[j] : j \in i..d} = Since(W[i])
        BY <2>2, <2>4, <2>5
    <2>7. L[i] = W[i] /\ i \in i..d
        BY <1>6, <2>2, <2>4, <2>5
    <2>8. W[i] \in emitted
        BY <2>6, <2>7 DEF Since
    <2>9. \A x \in ToSet(xs) : W[i] <= x
        <3>1. W[i] \in 1..n
            BY <1>0, <2>8
        <3>2. \A j \in 1..k : xs[j] \in (n + 1)..(n + m)
            BY <1>1, <1>2
        <3> QED BY <1>0, <1>3, <3>1, <3>2
    <2>10. i..(d + k) = (i..d) \cup ((d + 1)..(d + k))
        BY <1>2, <2>1
    <2>11. {L[j] : j \in i..(d + k)} = Since(W[i]) \cup ToSet(xs)
        BY <1>4, <2>6, <2>10
    <2>12. {L[j] : j \in i..(d + k)} = {x \in emitted \cup ToSet(xs) : W[i] <= x}
        BY <2>9, <2>11 DEF Since
    <2>13. \A j \in i..d : L[j] \in emitted
        BY <2>6 DEF Since
    <2> QED BY <2>7, <2>12, <2>13
<1>7. CASE i > d
    <2>1. PICK l \in 1..k : i = d + l
        <3>1. i - d \in 1..k /\ i = d + (i - d)
            BY <1>2, <1>5, <1>7
        <3> QED BY <3>1
    <2>2. L[i] = xs[l] /\ W[i] = xs[l]
        BY <1>2, <2>1
    <2>3. ASSUME NEW j \in i..(d + k)
          PROVE  L[j] \in {x \in emitted \cup ToSet(xs) : W[i] <= x}
        <3>1. PICK p \in 1..k : j = d + p /\ p >= l
            <4>1. j - d \in 1..k /\ j = d + (j - d) /\ j - d >= l
                BY <1>2, <1>7, <2>1
            <4> QED BY <4>1
        <3>2. L[j] = xs[p] /\ xs[p] \in ToSet(xs) /\ xs[l] <= xs[p]
            <4>1. p = l \/ l < p
                BY <3>1
            <4> QED BY <1>1, <1>2, <1>3, <3>1, <4>1 DEF Ascending
        <3> QED BY <2>2, <3>2
    <2>4. ASSUME NEW x \in emitted \cup ToSet(xs), W[i] <= x
          PROVE  \E j \in i..(d + k) : L[j] = x
        <3>1. x \notin emitted
            BY <1>0, <1>1, <1>2, <2>2, <2>4
        <3>2. PICK p \in 1..k : x = xs[p]
            BY <1>3, <3>1
        <3>3. ~(p < l)
            BY <1>1, <1>2, <2>2, <2>4, <3>2 DEF Ascending
        <3>4. d + p \in i..(d + k) /\ L[d + p] = x
            BY <1>2, <2>1, <3>2, <3>3
        <3> QED BY <3>4
    <2>5. {L[j] : j \in i..(d + k)} = {x \in emitted \cup ToSet(xs) : W[i] <= x}
        BY <2>3, <2>4
    <2>6. i..d = {}
        BY <1>2, <1>5, <1>7
    <2> QED BY <2>2, <2>5, <2>6
<1>8. i <= d \/ i > d
    BY <1>2, <1>5
<1> QED BY <1>6, <1>7, <1>8, Zenon

(* What the gain of the i-th sample of a block is made of. *)
LEMMA Lands ==
    ASSUME ChainTypes, GainInv, NEW m \in Nat,
           NEW xs, xs \in Seq((n + 1)..(n + m)), Ascending(xs),
           NEW i \in 1..Len(xs), Signal(xs)[i] # 0
    PROVE  /\ Looked(xs, i)[1] = Signal(xs)[i]
           /\ ToSet(Looked(xs, i))
                = {x \in emitted \cup ToSet(xs) : Signal(xs)[i] <= x /\ x <= xs[i]}
<1>0. n \in Nat /\ emitted \subseteq 1..n
    BY DEF ChainTypes
<1>1. xs \in Seq(Nat) /\ \A j \in 1..Len(xs) : xs[j] \in (n + 1)..(n + m)
    <2>1. DOMAIN xs = 1..Len(xs) /\ \A j \in 1..Len(xs) : xs[j] \in (n + 1)..(n + m)
        BY LenProperties, ElementOfSeq
    <2>2. \A j \in 1..Len(xs) : xs[j] \in Nat
        BY <1>0, <2>1
    <2>3. xs \in [1..Len(xs) -> Nat] /\ Len(xs) \in Nat
        BY <2>1, <2>2, LenProperties
    <2> QED BY <2>1, <2>3, SeqDef
<1>2. PICK d, k, L, w :
          /\ d \in Nat \ {0} /\ k \in Nat
          /\ d = Delay /\ k = Len(xs) /\ L = Levels(xs) /\ w = Signal(xs)[i]
    <2>1. Delay \in Nat \ {0} /\ Len(xs) \in Nat
        BY <1>1, SideBySide
    <2> QED BY <2>1
<1>3. L \in Seq(Nat) /\ Len(L) = d + k
    BY <1>1, <1>2, SideBySide
<1>4. \A j \in 1..k : L[d + j] = xs[j]
    <2>1. \A j \in 1..Len(xs) : Levels(xs)[Delay + j] = xs[j]
        BY <1>1, SideBySide
    <2> SUFFICES ASSUME NEW j \in 1..k PROVE L[d + j] = xs[j]
        OBVIOUS
    <2>2. j \in 1..Len(xs)
        BY <1>2
    <2> QED BY <1>2, <2>1, <2>2
<1>5. /\ L[i] = w
      /\ {L[j] : j \in i..(d + k)} = {x \in emitted \cup ToSet(xs) : w <= x}
      /\ \A j \in i..d : L[j] \in emitted
    <2>1. i \in 1..(Delay + Len(xs))
        BY <1>2
    <2>2. /\ Levels(xs)[i] = Signal(xs)[i]
          /\ {Levels(xs)[j] : j \in i..(Delay + Len(xs))}
               = {x \in emitted \cup ToSet(xs) : Signal(xs)[i] <= x}
          /\ \A j \in i..Delay : Levels(xs)[j] \in emitted
        BY <2>1, InStep
    <2> QED BY <1>2, <2>2
<1>6. i \in 1..k /\ i + d \in Nat /\ i <= i + d /\ i + d <= d + k
    BY <1>2
<1>7. PICK q : q = Looked(xs, i)
    OBVIOUS
<1>8. /\ DOMAIN q = 1..(d + 1) /\ \A j \in 1..(d + 1) : q[j] = L[i + j - 1]
    <2>1. q = SubSeq(L, i, i + d)
        BY <1>2, <1>7 DEF Looked, Levels
    <2>2. \A j \in i..(i + d) : L[j] \in Nat
        BY <1>3, <1>6, ElementOfSeq
    <2>3. /\ SubSeq(L, i, i + d) \in Seq(Nat)
          /\ Len(SubSeq(L, i, i + d)) = IF i <= i + d THEN (i + d) - i + 1 ELSE 0
          /\ \A j \in 1..((i + d) - i + 1) : SubSeq(L, i, i + d)[j] = L[i + j - 1]
        BY <1>6, <2>2, SubSeqProperties
    <2>4. (i + d) - i + 1 = d + 1
        BY <1>2
    <2> QED BY <1>6, <2>1, <2>3, <2>4, LenProperties
<1>9. q[1] = w
    <2>1. 1 \in 1..(d + 1) /\ i + 1 - 1 = i
        BY <1>2
    <2> QED BY <1>5, <1>8, <2>1
<1>10. ToSet(q) = {L[j] : j \in i..(i + d)}
    <2>1. \A j \in 1..(d + 1) : i + j - 1 \in i..(i + d)
        BY <1>2
    <2>2. \A j \in i..(i + d) : j - i + 1 \in 1..(d + 1) /\ i + (j - i + 1) - 1 = j
        BY <1>2
    <2>3. ToSet(q) = {q[j] : j \in 1..(d + 1)}
        BY <1>8 DEF ToSet
    <2>4. ASSUME NEW j \in 1..(d + 1) PROVE \E l \in i..(i + d) : q[j] = L[l]
        BY <1>8, <2>1
    <2>5. ASSUME NEW l \in i..(i + d) PROVE \E j \in 1..(d + 1) : q[j] = L[l]
        <3>1. q[l - i + 1] = L[l] /\ l - i + 1 \in 1..(d + 1)
            BY <1>8, <2>2
        <3> QED BY <3>1
    <2>6. ASSUME NEW x \in ToSet(q) PROVE x \in {L[l] : l \in i..(i + d)}
        <3>1. PICK j \in 1..(d + 1) : x = q[j]
            BY <2>3
        <3> QED BY <2>4, <3>1
    <2>7. ASSUME NEW l \in i..(i + d) PROVE L[l] \in ToSet(q)
        <3>1. PICK j \in 1..(d + 1) : q[j] = L[l]
            BY <2>5
        <3> QED BY <2>3, <3>1
    <2> QED BY <2>6, <2>7
<1>11. ASSUME NEW j \in i..(i + d) PROVE L[j] <= xs[i]
    <2>1. CASE j <= d
        <3>1. j \in i..d
            BY <1>2, <1>6, <2>1
        <3>2. L[j] \in 1..n
            BY <1>0, <1>5, <3>1
        <3>3. xs[i] \in (n + 1)..(n + m)
            BY <1>1
        <3> QED BY <1>0, <3>2, <3>3
    <2>2. CASE j > d
        <3>1. PICK p \in 1..k : j = d + p /\ p <= i
            <4>1. j - d \in 1..k /\ j = d + (j - d) /\ j - d <= i
                BY <1>2, <2>2
            <4> QED BY <4>1
        <3>2. p = i \/ p < i
            BY <3>1
        <3>3. xs[p] <= xs[i]
            BY <1>0, <1>1, <1>2, <3>1, <3>2 DEF Ascending
        <3> QED BY <1>4, <3>1, <3>3
    <2> QED BY <1>2, <2>1, <2>2
<1>12. ASSUME NEW j \in (i + d + 1)..(d + k) PROVE L[j] > xs[i]
    <2>1. PICK p \in 1..k : j = d + p /\ p > i
        <3>1. j - d \in 1..k /\ j = d + (j - d) /\ j - d > i
            BY <1>2
        <3> QED BY <3>1
    <2>2. xs[p] > xs[i]
        BY <1>0, <1>1, <1>2, <2>1 DEF Ascending
    <2> QED BY <1>4, <2>1, <2>2
<1>13. {L[j] : j \in i..(i + d)} = {x \in emitted \cup ToSet(xs) : w <= x /\ x <= xs[i]}
    <2>1. i..(d + k) = (i..(i + d)) \cup ((i + d + 1)..(d + k))
        BY <1>2, <1>6
    <2>2. ASSUME NEW j \in i..(i + d)
          PROVE  L[j] \in {x \in emitted \cup ToSet(xs) : w <= x /\ x <= xs[i]}
        BY <1>5, <1>11, <2>1
    <2>3. ASSUME NEW x \in emitted \cup ToSet(xs), w <= x, x <= xs[i]
          PROVE  \E j \in i..(i + d) : x = L[j]
        <3>1. PICK j \in i..(d + k) : x = L[j]
            BY <1>5, <2>3
        <3>2. L[j] \in Nat
            <4>1. j \in 1..Len(L)
                BY <1>3, <1>6
            <4> QED BY <1>3, <4>1, ElementOfSeq
        <3>3. xs[i] \in Nat
            BY <1>0, <1>1
        <3> QED BY <1>12, <2>1, <2>3, <3>1, <3>2, <3>3
    <2> QED BY <2>2, <2>3
<1> QED BY <1>2, <1>7, <1>9, <1>10, <1>13

(* What the stage keeps for the next block is in step again. *)
LEMMA KeptInStep ==
    ASSUME ChainTypes, GainInv, NEW m \in Nat,
           NEW xs, xs \in Seq((n + 1)..(n + m)), Ascending(xs),
           KeepLevels(xs), KeepSignal(xs), emitted' = emitted \cup ToSet(xs)
    PROVE  /\ histLen' \in Nat /\ hist' \in Seq(Nat) /\ Len(hist') = histLen'
           /\ lineLen' \in Nat /\ line' \in Seq(Nat) /\ Len(line') = lineLen'
           /\ GainInv'
<1>0. n \in Nat /\ emitted \subseteq 1..n
    BY DEF ChainTypes
<1>1. xs \in Seq(Nat)
    <2>1. DOMAIN xs = 1..Len(xs) /\ \A j \in 1..Len(xs) : xs[j] \in (n + 1)..(n + m)
        BY LenProperties, ElementOfSeq
    <2>2. \A j \in 1..Len(xs) : xs[j] \in Nat
        BY <1>0, <2>1
    <2>3. xs \in [1..Len(xs) -> Nat] /\ Len(xs) \in Nat
        BY <2>1, <2>2, LenProperties
    <2> QED BY <2>1, <2>3, SeqDef
<1>2. PICK d, k, L, W :
          /\ d \in Nat \ {0} /\ k \in Nat
          /\ d = Delay /\ k = Len(xs) /\ L = Levels(xs) /\ W = Signal(xs)
    <2>1. Delay \in Nat \ {0} /\ Len(xs) \in Nat
        BY <1>1, SideBySide
    <2> QED BY <2>1
<1>3. L \in Seq(Nat) /\ Len(L) = d + k /\ W \in Seq(Nat) /\ Len(W) = d + k
    BY <1>1, <1>2, SideBySide
<1>4. /\ Newest(d, L) \in Seq(Nat) /\ Len(Newest(d, L)) = d
      /\ \A i \in 1..d : Newest(d, L)[i] = L[k + i]
      /\ Newest(d, W) \in Seq(Nat) /\ Len(Newest(d, W)) = d
      /\ \A i \in 1..d : Newest(d, W)[i] = W[k + i]
    <2>1. d \in 0..Len(L) /\ d \in 0..Len(W) /\ Len(L) - d = k /\ Len(W) - d = k
        BY <1>2, <1>3
    <2>2. /\ Newest(d, L) \in Seq(Nat) /\ Len(Newest(d, L)) = d
          /\ \A i \in 1..d : Newest(d, L)[i] = L[Len(L) - d + i]
        BY <1>3, <2>1, Newer
    <2>3. /\ Newest(d, W) \in Seq(Nat) /\ Len(Newest(d, W)) = d
          /\ \A i \in 1..d : Newest(d, W)[i] = W[Len(W) - d + i]
        BY <1>3, <2>1, Newer
    <2> QED BY <2>1, <2>2, <2>3
<1>5. ASSUME NEW i \in 1..(d + k), W[i] # 0
      PROVE  /\ L[i] = W[i]
             /\ {L[j] : j \in i..(d + k)} = {x \in emitted' : W[i] <= x}
    <2>1. i \in 1..(Delay + Len(xs)) /\ Signal(xs)[i] # 0
        BY <1>2, <1>5
    <2>2. /\ Levels(xs)[i] = Signal(xs)[i]
          /\ {Levels(xs)[j] : j \in i..(Delay + Len(xs))}
               = {x \in emitted \cup ToSet(xs) : Signal(xs)[i] <= x}
        BY <2>1, InStep
    <2> QED BY <1>2, <2>2
<1>6. CASE ~set.lookahead
    <2>1. line' = <<>> /\ lineLen' = 0 /\ UNCHANGED <<hist, histLen>>
        BY <1>6 DEF KeepSignal, KeepLevels
    <2> QED BY <2>1, EmptySeq DEF ChainTypes, GainInv
<1>7. CASE set.lookahead
    <2>1. line' = Newest(d, W) /\ lineLen' = d
        BY <1>2, <1>7 DEF KeepSignal, Signal
    <2>2. CASE xs # <<>>
        <3>1. hist' = Newest(d, L) /\ histLen' = d
            BY <1>2, <1>7, <2>2 DEF KeepLevels, Levels
        <3>2. ASSUME NEW i \in 1..d, line'[i] # 0
              PROVE  Beside(i)'
            <4>0. k + i \in 1..(d + k)
                BY <1>2
            <4>1. k + i \in 1..(d + k) /\ line'[i] = W[k + i] /\ hist'[i] = L[k + i]
                BY <1>4, <2>1, <3>1, <4>0
            <4>2. /\ L[k + i] = W[k + i]
                  /\ {L[j] : j \in (k + i)..(d + k)} = {x \in emitted' : W[k + i] <= x}
                BY <1>5, <3>2, <4>1
            <4>3. {hist'[j] : j \in i..d} = {L[j] : j \in (k + i)..(d + k)}
                <5>1. \A j \in i..d : k + j \in (k + i)..(d + k) /\ hist'[j] = L[k + j]
                    BY <1>2, <1>4, <3>1
                <5>2. \A j \in (k + i)..(d + k) : j - k \in i..d /\ k + (j - k) = j
                    BY <1>2
                <5> QED BY <5>1, <5>2
            <4> QED BY <2>1, <3>1, <4>1, <4>2, <4>3 DEF Beside, Since
        <3> QED BY <1>2, <1>4, <2>1, <3>1, <3>2 DEF GainInv
    <2>3. CASE xs = <<>>
        <3>1. UNCHANGED <<hist, histLen>> /\ k = 0 /\ emitted' = emitted
            <4>1. DOMAIN xs = {} /\ Len(xs) = 0
                BY <2>3
            <4> QED BY <1>2, <2>3, <4>1 DEF KeepLevels, ToSet
        <3>2. ASSUME NEW i \in 1..d, line'[i] # 0
              PROVE  Beside(i)'
            <4>1. line'[i] = Signal(xs)[i] /\ i \in 1..Delay
                BY <1>2, <1>4, <2>1, <3>1
            <4>2. Signal(xs)[i] = IF Delay # lineLen THEN 0 ELSE line[i]
                BY <1>1, <4>1, SideBySide
            <4>3. d = lineLen /\ line'[i] = line[i] /\ i \in 1..Len(line)
                BY <1>2, <3>2, <4>1, <4>2 DEF ChainTypes
            <4>4. Beside(i)
                BY <3>2, <4>3 DEF GainInv
            <4> QED BY <2>1, <3>1, <4>3, <4>4 DEF Beside, Since
        <3> QED BY <1>2, <1>4, <2>1, <3>1, <3>2 DEF GainInv, ChainTypes
    <2> QED BY <2>2, <2>3
<1> QED BY <1>6, <1>7

(* A block keeps the invariant, whatever was changed before it.            *)
LEMMA ProcessStep ==
    ASSUME ChainInv, Process
    PROVE  ChainInv'
<1>1. PICK m, xs :
          /\ m \in 1..MaxBlock /\ xs = Passed(m)
          /\ n' = n + m
          /\ dec' = [D0 EXCEPT !.counter = IF D0.factor = 1 THEN @ ELSE (@ + m) % D0.factor]
          /\ base' = Base0
          /\ emitted' = emitted \cup ToSet(xs)
          /\ KeepLevels(xs) /\ KeepSignal(xs)
          /\ set' = set
          /\ DOMAIN heard' = 1..Len(xs)
          /\ \A i \in 1..Len(xs) :
                 /\ heard'[i].in = xs[i]
                 /\ heard'[i].out = Delayed(xs, i)
                 /\ heard'[i].looked = IF set.lookahead THEN Looked(xs, i) ELSE <<>>
    <2>1. PICK m \in 1..MaxBlock, dit \in Dits :
              LET d0 == IF Rebuilt THEN [factor |-> set.decim, counter |-> 0] ELSE dec
                  f0 == IF Redesign THEN NewFir(set.taps) ELSE fir
                  xs == Decimated(d0, [i \in 1..m |-> n + i])
                  conv == Convolve(f0, xs)
                  ys == [i \in 1..Len(xs) |-> Delayed(xs, i)]
              IN /\ n' = n + m
                 /\ dec' = [d0 EXCEPT !.counter =
                               IF d0.factor = 1 THEN @ ELSE (@ + m) % d0.factor]
                 /\ base' = IF Rebuilt THEN n ELSE base
                 /\ emitted' = emitted \cup ToSet(xs)
                 /\ KeepLevels(xs) /\ KeepSignal(xs)
                 /\ heard' = [i \in 1..Len(xs) |->
                        [in |-> xs[i], out |-> ys[i],
                         conv |-> IF InFir THEN conv.out[i] ELSE <<>>,
                         looked |-> IF set.lookahead THEN Looked(xs, i) ELSE <<>>]]
                 /\ set' = set
        BY Zenon DEF Process
    <2>2. PICK xs : xs = Passed(m)
        OBVIOUS
    <2>3. /\ n' = n + m /\ base' = Base0 /\ set' = set
          /\ dec' = [D0 EXCEPT !.counter = IF D0.factor = 1 THEN @ ELSE (@ + m) % D0.factor]
          /\ emitted' = emitted \cup ToSet(xs)
          /\ KeepLevels(xs) /\ KeepSignal(xs)
        BY <2>1, <2>2, Zenon DEF D0, Base0, Passed
    <2>4. PICK conv :
              heard' = [i \in 1..Len(xs) |->
                   [in |-> xs[i], out |-> [j \in 1..Len(xs) |-> Delayed(xs, j)][i],
                    conv |-> IF InFir THEN conv[i] ELSE <<>>,
                    looked |-> IF set.lookahead THEN Looked(xs, i) ELSE <<>>]]
        BY <2>1, <2>2, Zenon DEF D0, Passed
    <2>5. /\ DOMAIN heard' = 1..Len(xs)
          /\ \A i \in 1..Len(xs) :
                 /\ heard'[i].in = xs[i]
                 /\ heard'[i].out = Delayed(xs, i)
                 /\ heard'[i].looked = IF set.lookahead THEN Looked(xs, i) ELSE <<>>
        BY <2>4
    <2> QED BY <2>2, <2>3, <2>5
<1>2. m \in Nat /\ ChainTypes /\ EvenlyDecimated /\ GainInv /\ n \in Nat
    BY <1>1, LengthAssumption DEF ChainInv, ChainTypes
<1>3. /\ xs \in Seq((n + 1)..(n + m)) /\ Ascending(xs)
      /\ dec' \in [factor : Factors, counter : Nat] /\ dec'.counter < dec'.factor
      /\ dec'.counter = (n' - base') % dec'.factor
      /\ n' \in Nat /\ base' \in 0..n' /\ emitted' \subseteq 1..n'
      /\ EvenlyDecimated'
    BY <1>1, <1>2, BlockKept DEF Ascending
<1>4. /\ histLen' \in Nat /\ hist' \in Seq(Nat) /\ Len(hist') = histLen'
      /\ lineLen' \in Nat /\ line' \in Seq(Nat) /\ Len(line') = lineLen'
      /\ GainInv'
    BY <1>1, <1>2, <1>3, KeptInStep
<1>5. ChainTypes'
    BY <1>1, <1>2, <1>3, <1>4 DEF ChainTypes
<1>6. GainLandsOnItsSample'
    <2> SUFFICES ASSUME NEW i \in 1..Len(xs), heard'[i].looked # <<>>, heard'[i].out # 0
                 PROVE  /\ heard'[i].looked[1] = heard'[i].out
                        /\ ToSet(heard'[i].looked)
                             = {x \in emitted' : heard'[i].out <= x /\ x <= heard'[i].in}
        BY <1>1 DEF GainLandsOnItsSample
    <2>1. set.lookahead /\ heard'[i].looked = Looked(xs, i) /\ heard'[i].in = xs[i]
        BY <1>1
    <2>2. heard'[i].out = Signal(xs)[i]
        BY <1>1, <2>1 DEF Delayed, Signal
    <2>3. /\ Looked(xs, i)[1] = Signal(xs)[i]
          /\ ToSet(Looked(xs, i))
                = {x \in emitted \cup ToSet(xs) : Signal(xs)[i] <= x /\ x <= xs[i]}
        BY <1>2, <1>3, <2>2, Lands
    <2> QED BY <1>1, <2>1, <2>2, <2>3
<1> QED BY <1>3, <1>4, <1>5, <1>6 DEF ChainInv

(* A change of the settings alone disturbs nothing.                        *)
LEMMA ChangeStep ==
    ASSUME ChainInv, Change \/ UNCHANGED vars
    PROVE  ChainInv'
<1>1. UNCHANGED <<n, dec, hist, histLen, line, lineLen, heard, base, emitted>>
    BY DEF Change, vars, gains
<1>2. set' \in Settings
    <2>1. CASE Change
        BY <2>1 DEF Change, ChainInv, ChainTypes, Settings
    <2>2. CASE UNCHANGED vars
        BY <2>2 DEF vars, ChainInv, ChainTypes
    <2> QED BY <2>1, <2>2
<1>3. ChainTypes'
    BY <1>1, <1>2 DEF ChainInv, ChainTypes
<1>4. EvenlyDecimated' /\ GainInv' /\ GainLandsOnItsSample'
    BY <1>1 DEF ChainInv, EvenlyDecimated, GainInv, Beside, Since, GainLandsOnItsSample
<1> QED BY <1>3, <1>4 DEF ChainInv

(* In every reachable state the lines have their sizes, the counter is the *)
(* place since the decimator was built, and the levels beside the waiting  *)
(* samples are their own.                                                  *)
THEOREM ChainInvariant == Spec => []ChainInv
<1>1. ChainInv /\ [Next]_vars => ChainInv'
    BY ProcessStep, ChangeStep DEF Next
<1> QED BY <1>1, InitChain, PTL DEF Spec

(* Every factor-th sample since the decimator was built is kept and no     *)
(* other, however the input is cut into blocks (decimate_block).           *)
THEOREM KeptEvenly == Spec => []EvenlyDecimated
<1>1. ChainInv => EvenlyDecimated
    BY DEF ChainInv
<1> QED BY <1>1, ChainInvariant, PTL

(* A gain lands on the sample its window begins with, and the window       *)
(* misses no sample up to the newest, across blocks and after every change *)
(* of lookahead, time or rate (compute_lookahead_gains and the delay line  *)
(* of process_audio_chain).                                                *)
THEOREM GainInPlace == Spec => []GainLandsOnItsSample
<1>1. ChainInv => GainLandsOnItsSample
    BY DEF ChainInv
<1> QED BY <1>1, ChainInvariant, PTL
-----------------------------------------------------------------------------
(* Recursive functions over 0..N and sums.                                 *)
LEMMA LeastOf ==
    ASSUME NEW S, S \subseteq Nat, S # {}
    PROVE  \E m \in S : \A k \in S : m <= k
<1>1. IsWellFoundedOn(OpToRel(<, Nat), Nat)
    BY NatLessThanWellFounded
<1>2. \E x \in S : \A y \in S : ~(<<y, x>> \in OpToRel(<, Nat))
    BY <1>1, WFMin
<1>3. PICK x \in S : \A y \in S : ~(<<y, x>> \in OpToRel(<, Nat))
    BY <1>2
<1>4. \A y \in S : ~(y < x)
    BY <1>3 DEF OpToRel
<1> QED BY <1>4

(* Induction along the numbers, over a set of them. *)
LEMMA Induct ==
    ASSUME NEW S, 0 \in S, \A k \in Nat : k \in S => k + 1 \in S
    PROVE  \A k \in Nat : k \in S
<1> SUFFICES ASSUME NEW j \in Nat, j \notin S PROVE FALSE
    OBVIOUS
<1>1. PICK m \in Nat \ S : \A k \in Nat \ S : m <= k
    BY LeastOf
<1>2. m # 0 /\ m - 1 \in Nat /\ m - 1 \in S
    BY <1>1
<1>3. (m - 1) + 1 \in S
    BY <1>2
<1> QED BY <1>1, <1>3

(* A function each place of which is made from the one before: it exists,  *)
(* and its places stay in a set closed under what makes them.              *)
Closed(G, N, S) == \A k \in 1..N, x \in S : G[k][x] \in S
Unrolls(f, G, N, S, a) ==
    /\ f \in [0..N -> S]
    /\ f[0] = a
    /\ \A k \in 1..N : f[k] = G[k][f[k - 1]]

LEMMA Recursion ==
    ASSUME NEW N \in Nat, NEW S, NEW a \in S, NEW G, Closed(G, N, S)
    PROVE  \E f : Unrolls(f, G, N, S, a)
<1> DEFINE Good(m) == \E f : Unrolls(f, G, m, S, a)
           T == {m \in Nat : m <= N => Good(m)}
<1>1. 0 \in T
    <2>1. PICK f \in [0..0 -> S] : f = [k \in 0..0 |-> a]
        OBVIOUS
    <2>2. f[0] = a
        BY <2>1
    <2>3. Good(0)
        BY <2>1, <2>2 DEF Unrolls
    <2> QED BY <2>3
<1>2. ASSUME NEW m \in Nat, m \in T, m + 1 <= N
      PROVE  Good(m + 1)
    <2>1. Good(m)
        BY <1>2
    <2>2. PICK f : f \in [0..m -> S] /\ f[0] = a /\ \A k \in 1..m : f[k] = G[k][f[k - 1]]
        BY <2>1 DEF Unrolls
    <2>3. m + 1 \in 1..N /\ f[m] \in S /\ G[m + 1][f[m]] \in S
        BY <1>2, <2>2 DEF Closed
    <2>4. PICK g : g = [k \in 0..(m + 1) |-> IF k <= m THEN f[k] ELSE G[m + 1][f[m]]]
        OBVIOUS
    <2>5. /\ \A k \in 0..m : g[k] = f[k]
          /\ g[m + 1] = G[m + 1][f[m]]
        BY <2>4
    <2>6. ASSUME NEW k \in 1..(m + 1) PROVE g[k] = G[k][g[k - 1]]
        <3>1. CASE k \in 1..m
            <4>1. k - 1 \in 0..m /\ k \in 0..m
                BY <3>1
            <4> QED BY <2>2, <2>5, <3>1, <4>1
        <3>2. CASE k = m + 1
            <4>1. k - 1 = m /\ m \in 0..m
                BY <3>2
            <4> QED BY <2>5, <3>2, <4>1
        <3> QED BY <3>1, <3>2
    <2>7. g \in [0..(m + 1) -> S]
        <3>1. \A k \in 0..(m + 1) : (IF k <= m THEN f[k] ELSE G[m + 1][f[m]]) \in S
            <4>1. \A k \in 0..(m + 1) : k <= m => k \in 0..m
                OBVIOUS
            <4> QED BY <2>2, <2>3, <4>1
        <3> QED BY <2>4, <3>1
    <2>8. g[0] = a
        BY <2>2, <2>5
    <2> QED BY <2>6, <2>7, <2>8 DEF Unrolls
<1>3. \A m \in Nat : m \in T => m + 1 \in T
    BY <1>2
<1> HIDE DEF T
<1>4. N \in T
    BY <1>1, <1>3, Induct
<1> USE DEF T
<1> QED BY <1>4

(* The sum of a sequence, place by place.                                  *)
Sums(s, P) ==
    /\ P[0] = 0
    /\ \A k \in 1..Len(s) : P[k] = P[k - 1] + s[k]
    /\ \A k \in 0..Len(s) : P[k] \in Nat

LEMMA TotalIs ==
    ASSUME NEW s, s \in Seq(Nat)
    PROVE  \E P : Sums(s, P) /\ Total(s) = P[Len(s)]
<1>1. PICK N \in Nat : N = Len(s)
    BY LenProperties
<1> DEFINE F(f) == [k \in 0..N |-> IF k = 0 THEN 0 ELSE f[k - 1] + s[k]]
<1>2. \A k \in 1..N : s[k] \in Nat
    BY <1>1, ElementOfSeq
<1>3. PICK f \in [0..N -> Nat] : f[0] = 0 /\ \A k \in 1..N : f[k] = f[k - 1] + s[k]
    <2>1. PICK G : G = [k \in 1..N |-> [x \in Nat |-> x + s[k]]]
        OBVIOUS
    <2>2. \A k \in 1..N : G[k] = [x \in Nat |-> x + s[k]]
        BY <2>1
    <2>3. ASSUME NEW k \in 1..N, NEW x \in Nat PROVE G[k][x] = x + s[k] /\ G[k][x] \in Nat
        <3>1. G[k] = [y \in Nat |-> y + s[k]]
            BY <2>2
        <3>2. G[k][x] = x + s[k]
            BY <3>1
        <3>3. s[k] \in Nat
            BY <1>2
        <3> QED BY <3>2, <3>3
    <2>4. Closed(G, N, Nat)
        BY <2>3 DEF Closed
    <2>5. PICK f : Unrolls(f, G, N, Nat, 0)
        BY <2>4, Recursion
    <2>8. f \in [0..N -> Nat] /\ f[0] = 0 /\ \A k \in 1..N : f[k] = G[k][f[k - 1]]
        BY <2>5 DEF Unrolls
    <2>9. ASSUME NEW k \in 1..N PROVE f[k] = f[k - 1] + s[k]
        <3>1. k - 1 \in 0..N
            OBVIOUS
        <3>2. f[k - 1] \in Nat
            BY <2>8, <3>1
        <3>3. G[k][f[k - 1]] = f[k - 1] + s[k]
            BY <2>3, <3>2
        <3> QED BY <2>8, <3>3
    <2> QED BY <2>8, <2>9
<1>4. f = F(f)
    <2>1. \A k \in 0..N : k = 0 \/ k \in 1..N
        OBVIOUS
    <2> QED BY <1>3, <2>1
<1>5. PICK P : P = CHOOSE f1 : f1 = F(f1)
    OBVIOUS
<1>6. P = F(P)
    <2> HIDE DEF F
    <2> QED BY <1>4, <1>5
<1>7. Total(s) = P[N]
    BY <1>1, <1>5, Zenon DEF Total
<1>8. P[0] = 0 /\ \A k \in 1..N : P[k] = P[k - 1] + s[k]
    BY <1>6
<1>9. ASSUME NEW k \in 0..N PROVE P[k] \in Nat
    <2> DEFINE T == {j \in Nat : j <= N => P[j] \in Nat}
    <2>1. 0 \in T
        BY <1>8
    <2>2. \A j \in Nat : j \in T => j + 1 \in T
        <3> SUFFICES ASSUME NEW j \in Nat, j + 1 <= N, P[j] \in Nat PROVE P[j + 1] \in Nat
            OBVIOUS
        <3>1. j + 1 \in 1..N /\ (j + 1) - 1 = j
            OBVIOUS
        <3>2. P[j + 1] = P[j] + s[j + 1] /\ s[j + 1] \in Nat
            BY <1>2, <1>8, <3>1
        <3> QED BY <3>2
    <2> HIDE DEF T
    <2>3. k \in Nat
        OBVIOUS
    <2>4. k \in T
        BY <2>1, <2>2, <2>3, Induct
    <2> USE DEF T
    <2> QED BY <2>4
<1> QED BY <1>1, <1>7, <1>8, <1>9 DEF Sums

(* Induction along the places of a sequence.                               *)
LEMMA Along ==
    ASSUME NEW N \in Nat, NEW S, 0 \in S, \A k \in 1..N : k - 1 \in S => k \in S
    PROVE  \A k \in 0..N : k \in S
<1> DEFINE T == {k \in Nat : k <= N => k \in S}
<1>1. 0 \in T
    OBVIOUS
<1>2. ASSUME NEW k \in Nat, k \in T PROVE k + 1 \in T
    <2>1. CASE k + 1 <= N
        <3>1. k + 1 \in 1..N /\ (k + 1) - 1 = k /\ k \in S
            BY <1>2, <2>1
        <3> QED BY <3>1
    <2>2. CASE ~(k + 1 <= N)
        BY <2>2
    <2> QED BY <2>1, <2>2
<1> HIDE DEF T
<1>3. \A k \in Nat : k \in T
    BY <1>1, <1>2, Induct
<1> USE DEF T
<1> QED BY <1>3

(* To replace a number of a sequence changes its sum by the difference.    *)
LEMMA TotalReplaced ==
    ASSUME NEW s, s \in Seq(Nat), NEW p \in 1..Len(s), NEW x \in Nat,
           NEW t, t = [s EXCEPT ![p] = x]
    PROVE  t \in Seq(Nat) /\ Len(t) = Len(s) /\ Total(t) = Total(s) - s[p] + x
<1>1. PICK N \in Nat : N = Len(s)
    BY LenProperties
<1>2. \A k \in 1..N : s[k] \in Nat
    BY <1>1, ElementOfSeq
<1>3. t \in Seq(Nat) /\ Len(t) = N
    BY <1>1, ExceptSeq
<1>4. \A k \in 1..N : t[k] = IF k = p THEN x ELSE s[k]
    BY <1>1, LenProperties
<1>5. PICK P : Sums(s, P) /\ Total(s) = P[N]
    BY <1>1, TotalIs
<1>6. PICK Q : Sums(t, Q) /\ Total(t) = Q[N]
    BY <1>3, TotalIs
<1>7. /\ P[0] = 0 /\ Q[0] = 0
      /\ \A k \in 1..N : P[k] = P[k - 1] + s[k] /\ Q[k] = Q[k - 1] + t[k]
      /\ \A k \in 0..N : P[k] \in Nat /\ Q[k] \in Nat
    BY <1>1, <1>3, <1>5, <1>6 DEF Sums
<1> DEFINE T == {k \in 0..N : Q[k] = IF k < p THEN P[k] ELSE P[k] - s[p] + x}
<1>8. 0 \in T
    BY <1>1, <1>7
<1>9. ASSUME NEW k \in 1..N, k - 1 \in T PROVE k \in T
    <2>1. Q[k] = Q[k - 1] + t[k] /\ P[k] = P[k - 1] + s[k] /\ k - 1 \in 0..N
        BY <1>7
    <2>2. Q[k - 1] = IF k - 1 < p THEN P[k - 1] ELSE P[k - 1] - s[p] + x
        BY <1>9
    <2>3. P[k - 1] \in Nat /\ s[k] \in Nat /\ s[p] \in Nat
        BY <1>1, <1>2, <1>7, <2>1
    <2>4. t[k] = IF k = p THEN x ELSE s[k]
        BY <1>4
    <2>5. CASE k < p
        <3>1. k - 1 < p /\ k # p
            BY <2>5
        <3> QED BY <2>1, <2>2, <2>4, <2>5, <3>1
    <2>6. CASE k = p
        <3>1. k - 1 < p
            BY <2>6
        <3> QED BY <2>1, <2>2, <2>3, <2>4, <2>6, <3>1
    <2>7. CASE k > p
        <3>1. ~(k - 1 < p) /\ k # p /\ ~(k < p)
            BY <2>7
        <3> QED BY <2>1, <2>2, <2>3, <2>4, <3>1
    <2> QED BY <1>1, <2>5, <2>6, <2>7
<1> HIDE DEF T
<1>10. N \in T
    <2>1. N \in 0..N
        OBVIOUS
    <2> QED BY <1>8, <1>9, <2>1, Along
<1> USE DEF T
<1> QED BY <1>1, <1>3, <1>5, <1>6, <1>10

(* A sequence of zeros sums up to none.                                    *)
LEMMA TotalOfNothing ==
    ASSUME NEW d \in Nat
    PROVE  Total(Zeros(d)) = 0
<1>1. PICK s : s = Zeros(d)
    OBVIOUS
<1>2. s \in Seq(Nat) /\ Len(s) = d /\ \A k \in 1..d : s[k] = 0
    BY <1>1, Silence
<1>3. PICK P : Sums(s, P) /\ Total(s) = P[d]
    BY <1>2, TotalIs
<1>4. P[0] = 0 /\ \A k \in 1..d : P[k] = P[k - 1] + s[k]
    BY <1>2, <1>3 DEF Sums
<1> DEFINE T == {k \in 0..d : P[k] = 0}
<1>5. 0 \in T
    BY <1>4
<1>6. ASSUME NEW k \in 1..d, k - 1 \in T PROVE k \in T
    BY <1>2, <1>4, <1>6
<1> HIDE DEF T
<1>7. d \in T
    <2>1. d \in 0..d
        OBVIOUS
    <2> QED BY <1>5, <1>6, <2>1, Along
<1> USE DEF T
<1> QED BY <1>1, <1>3, <1>7

(* Once around a ring.                                                     *)
LEMMA Turn ==
    ASSUME NEW l \in Nat \ {0}, NEW a \in Int, -l <= a, a < l + l
    PROVE  a % l = IF a < 0 THEN a + l ELSE IF a < l THEN a ELSE a - l
<1>1. CASE a < 0
    <2>1. a = l * (-1) + (a + l) /\ a + l \in Nat /\ a + l < l
        BY <1>1
    <2>2. a % l = a + l
        BY <2>1, Remainder
    <2> QED BY <1>1, <2>2
<1>2. CASE 0 <= a /\ a < l
    <2>1. a = l * 0 + a /\ a \in Nat
        BY <1>2
    <2>2. a % l = a
        BY <1>2, <2>1, Remainder
    <2> QED BY <1>2, <2>2
<1>3. CASE l <= a
    <2>1. a = l * 1 + (a - l) /\ a - l \in Nat /\ a - l < l
        BY <1>3
    <2>2. a % l = a - l
        BY <2>1, Remainder
    <2> QED BY <1>3, <2>2
<1> QED BY <1>1, <1>2, <1>3
-----------------------------------------------------------------------------
(* The rings of the detector.                                              *)
(* A ring of the detector: where its samples are, oldest first. *)
Ring(r) ==
    /\ r \in [buf : Seq(Nat), pos : Nat, sum : Int, len : Nat]
    /\ RingOK(r)
Summed(r) == r.buf # <<>> => r.sum = Total(r.buf)
Old(r, i) == OldestFirst(r)[i]
InOrder(r) ==
    \A i, j \in 1..Len(r.buf) :
        i < j /\ Old(r, i) # 0 /\ Old(r, j) # 0 => Old(r, i) < Old(r, j)
Below(r, x) == \A i \in 1..Len(r.buf) : Old(r, i) < x

(* The i-th place of a ring of l that begins at c. *)
From(l, c, i) == IF c + i - 1 <= l THEN c + i - 1 ELSE c + i - 1 - l

LEMMA FromIs ==
    ASSUME NEW l \in Nat \ {0}, NEW c \in 1..l, NEW i \in 1..l
    PROVE  ((c + i - 2) % l) + 1 = From(l, c, i) /\ From(l, c, i) \in 1..l
<1>1. PICK a \in Int : a = c + i - 2 /\ -l <= a /\ a < l + l
    OBVIOUS
<1>2. a % l = IF a < 0 THEN a + l ELSE IF a < l THEN a ELSE a - l
    BY <1>1, Turn
<1> QED BY <1>1, <1>2 DEF From

After(l, c) == (c % l) + 1

(* One place on, a ring ends where it began.                               *)
LEMMA FromNext ==
    ASSUME NEW l \in Nat \ {0, 1}, NEW c \in 1..l, NEW q, q = After(l, c)
    PROVE  /\ q \in 1..l
           /\ \A i \in 1..(l - 1) : From(l, q, i) = From(l, c, i + 1) /\ From(l, c, i + 1) # c
           /\ From(l, q, l) = c
<1>1. -l <= c /\ c < l + l /\ c \in Int /\ l \in Nat \ {0}
    OBVIOUS
<1>2. q \in Int /\ q = IF c < l THEN c + 1 ELSE 1
    <2>1. c % l = IF c < 0 THEN c + l ELSE IF c < l THEN c ELSE c - l
        BY <1>1, Turn
    <2> QED BY <2>1 DEF After
<1> QED BY <1>2 DEF From

LEMMA OldestIs ==
    ASSUME NEW r, Ring(r), NEW l, l = Len(r.buf)
    PROVE  /\ l \in Nat /\ OldestFirst(r) \in Seq(Nat) /\ Len(OldestFirst(r)) = l
           /\ \A i \in 1..l : Old(r, i) = r.buf[From(l, r.pos, i)]
           /\ \A i \in 1..l : From(l, r.pos, i) \in 1..l
           /\ \A i \in 1..l : Old(r, i) \in Nat
<1>1. r.buf \in Seq(Nat) /\ l \in Nat /\ r.pos \in Nat
    BY LenProperties DEF Ring
<1>2. l # 0 => r.pos \in 1..l
    <2>1. l # 0 => r.buf # <<>>
        BY EmptySeq
    <2> QED BY <2>1 DEF Ring, RingOK
<1>3. \A i \in 1..l : r.buf[i] \in Nat
    BY <1>1, ElementOfSeq
<1>4. PICK o : o = OldestFirst(r)
    OBVIOUS
<1>5. o = [i \in 1..l |-> r.buf[((r.pos + i - 2) % l) + 1]]
    BY <1>4 DEF OldestFirst
<1>6. ASSUME NEW i \in 1..l
      PROVE  o[i] = r.buf[From(l, r.pos, i)] /\ From(l, r.pos, i) \in 1..l /\ o[i] \in Nat
    <2>1. l \in Nat \ {0} /\ r.pos \in 1..l
        BY <1>1, <1>2
    <2>2. PICK c \in 1..l : c = r.pos
        BY <2>1
    <2>3. ((c + i - 2) % l) + 1 = From(l, c, i) /\ From(l, c, i) \in 1..l
        BY <2>1, FromIs
    <2>4. o[i] = r.buf[((c + i - 2) % l) + 1]
        BY <1>5, <2>2
    <2> QED BY <1>3, <2>2, <2>3, <2>4
<1>7. o \in Seq(Nat) /\ Len(o) = l
    <2>1. o \in [1..l -> Nat]
        BY <1>5, <1>6
    <2>2. o \in Seq(Nat)
        BY <1>1, <2>1, SeqDef
    <2>3. Len(o) = l
        BY <1>1, <1>5
    <2> QED BY <2>2, <2>3
<1> QED BY <1>1, <1>4, <1>6, <1>7 DEF Old

(* A push moves the samples one place towards the oldest. *)
Shifts(r, p) == \A i \in 1..(Len(r.buf) - 1) : Old(p, i) = Old(r, i + 1)

(* A sample pushed into a ring takes the place of the oldest.              *)
LEMMA PushedIs ==
    ASSUME NEW r, Ring(r), Summed(r), r.len > 1, NEW x \in Nat,
           NEW p, p = Pushed(r, x), NEW l, l = Len(r.buf)
    PROVE  /\ Ring(p) /\ Summed(p)
           /\ l = r.len /\ p.len = r.len /\ Len(p.buf) = l
           /\ Shifts(r, p)
           /\ Old(p, l) = x
<1>1. /\ r \in [buf : Seq(Nat), pos : Nat, sum : Int, len : Nat]
      /\ r.buf \in Seq(Nat) /\ l \in Nat /\ l = r.len /\ l > 1 /\ r.pos \in 1..l
      /\ r.sum \in Int /\ r.buf # <<>>
    <2>1. r.len # 1
        BY DEF Ring
    <2>2. Len(r.buf) = r.len
        BY <2>1 DEF Ring, RingOK
    <2> QED BY <2>1, <2>2, LenProperties, EmptySeq DEF Ring, RingOK
<1>2. \A i \in 1..l : r.buf[i] \in Nat
    BY <1>1, ElementOfSeq
<1>3. PICK b : b = [r.buf EXCEPT ![r.pos] = x]
    OBVIOUS
<1>4. /\ b \in Seq(Nat) /\ Len(b) = l
      /\ Total(b) = Total(r.buf) - r.buf[r.pos] + x
    <2>1. PICK s, c : s = r.buf /\ c = r.pos
        OBVIOUS
    <2>2. s \in Seq(Nat) /\ c \in 1..Len(s) /\ b = [s EXCEPT ![c] = x]
        BY <1>1, <1>3, <2>1
    <2>3. b \in Seq(Nat) /\ Len(b) = Len(s) /\ Total(b) = Total(s) - s[c] + x
        BY <2>2, TotalReplaced
    <2> QED BY <2>1, <2>3
<1>5. \A i \in 1..l : b[i] = IF i = r.pos THEN x ELSE r.buf[i]
    BY <1>1, <1>3, LenProperties
<1>6. PICK q \in Nat :
          /\ q = (r.pos % r.len) + 1 /\ q \in 1..l
          /\ \A i \in 1..(l - 1) : From(l, q, i) = From(l, r.pos, i + 1) /\ From(l, q, i) # r.pos
          /\ From(l, q, l) = r.pos
    <2>1. PICK k \in Nat \ {0, 1} : k = l
        BY <1>1
    <2>2. PICK c \in 1..k : c = r.pos
        BY <1>1, <2>1
    <2>3. PICK q : q = After(k, c)
        OBVIOUS
    <2>4. /\ q \in 1..k
          /\ \A i \in 1..(k - 1) : From(k, q, i) = From(k, c, i + 1) /\ From(k, c, i + 1) # c
          /\ From(k, q, k) = c
        <3>1. q \in 1..k
            BY <2>3, FromNext
        <3>2. From(k, q, k) = c
            BY <2>3, FromNext
        <3>3. \A i \in 1..(k - 1) : From(k, q, i) = From(k, c, i + 1)
            BY <2>3, FromNext
        <3>4. \A i \in 1..(k - 1) : From(k, c, i + 1) # c
            BY <2>3, FromNext
        <3> QED BY <3>1, <3>2, <3>3, <3>4
    <2>5. q \in Nat
        BY <2>4
    <2>6. q = (r.pos % r.len) + 1
        BY <1>1, <2>1, <2>2, <2>3 DEF After
    <2> QED BY <2>1, <2>2, <2>4, <2>5, <2>6
<1>7. p = [r EXCEPT !.buf = b, !.sum = r.sum - r.buf[r.pos] + x, !.pos = q]
    BY <1>1, <1>3, <1>6 DEF Pushed
<1>8. p.buf = b /\ p.pos = q /\ p.len = r.len /\ p.sum = r.sum - r.buf[r.pos] + x
    BY <1>1, <1>7
<1>9. Ring(p)
    <2>1. r.sum - r.buf[r.pos] + x \in Int
        BY <1>1, <1>2
    <2>2. p \in [buf : Seq(Nat), pos : Nat, sum : Int, len : Nat]
        BY <1>1, <1>4, <1>6, <1>7, <2>1
    <2>3. q \in 1..l
        BY <1>1, <1>6
    <2> QED BY <1>1, <1>4, <1>8, <2>2, <2>3 DEF Ring, RingOK
<1>10. Summed(p)
    <2>1. r.sum = Total(r.buf)
        BY <1>1 DEF Summed
    <2> QED BY <1>4, <1>8, <2>1 DEF Summed
<1>11. \A i \in 1..l :
          /\ Old(r, i) = r.buf[From(l, r.pos, i)] /\ From(l, r.pos, i) \in 1..l
          /\ Old(p, i) = b[From(l, q, i)] /\ From(l, q, i) \in 1..l
    <2>1. \A i \in 1..l : Old(r, i) = r.buf[From(l, r.pos, i)] /\ From(l, r.pos, i) \in 1..l
        BY OldestIs
    <2>2. \A i \in 1..l : Old(p, i) = p.buf[From(l, p.pos, i)] /\ From(l, p.pos, i) \in 1..l
        BY <1>4, <1>8, <1>9, OldestIs
    <2> QED BY <1>8, <2>1, <2>2
<1>12. ASSUME NEW i \in 1..(l - 1) PROVE Old(p, i) = Old(r, i + 1)
    <2>1. i \in 1..l /\ i + 1 \in 1..l
        BY <1>1
    <2>2. From(l, q, i) = From(l, r.pos, i + 1) /\ From(l, q, i) # r.pos
        BY <1>6
    <2>3. PICK k : k = From(l, q, i)
        OBVIOUS
    <2>4. k \in 1..l /\ k # r.pos /\ Old(p, i) = b[k] /\ Old(r, i + 1) = r.buf[k]
        BY <1>11, <2>1, <2>2, <2>3
    <2> QED BY <1>5, <2>4
<1>13. Old(p, l) = x
    <2>1. l \in 1..l
        BY <1>1
    <2>2. Old(p, l) = b[r.pos]
        BY <1>6, <1>11, <2>1
    <2> QED BY <1>1, <1>5, <2>2
<1> QED BY <1>1, <1>4, <1>8, <1>9, <1>10, <1>12, <1>13 DEF Shifts

(* A ring that is given another length keeps its newest samples, after     *)
(* silence where it had none.                                              *)
LEMMA ResizedIs ==
    ASSUME NEW r, Ring(r), Summed(r), InOrder(r), NEW len \in Nat \ {0},
           NEW p, p = Resized(r, len)
    PROVE  /\ Ring(p) /\ Summed(p) /\ InOrder(p) /\ p.len = len
           /\ \A b \in Nat \ {0} : Below(r, b) => Below(p, b)
<1>1. CASE len = r.len
    BY <1>1 DEF Resized
<1>2. CASE len # r.len
    <2>0. PICK l \in Nat : l = Len(r.buf)
        BY LenProperties DEF Ring
    <2>1. PICK o : l = Len(r.buf) /\ o = OldestFirst(r)
        BY <2>0
    <2>2. /\ o \in Seq(Nat) /\ Len(o) = l
          /\ \A i \in 1..l : Old(r, i) = o[i]
        BY <2>1, OldestIs DEF Old
    <2>3. l # len
        <3>1. r.buf = <<>> => l = 0
            BY <2>1
        <3> QED BY <1>2, <2>1, <3>1 DEF Ring, RingOK
    <2>4. PICK z : z = Zeros(len) /\ z \in Seq(Nat) /\ Len(z) = len /\ \A i \in 1..len : z[i] = 0
        BY Silence
    <2>5. PICK a : a = z \o o
        OBVIOUS
    <2>6. /\ a \in Seq(Nat) /\ Len(a) = len + l
          /\ \A i \in 1..(len + l) : a[i] = IF i <= len THEN 0 ELSE o[i - len]
        <3>1. /\ a \in Seq(Nat) /\ Len(a) = Len(z) + Len(o)
              /\ \A i \in 1..(Len(z) + Len(o)) : a[i] = IF i <= Len(z) THEN z[i] ELSE o[i - Len(z)]
            BY <2>2, <2>4, <2>5, ConcatProperties
        <3> QED BY <2>2, <2>4, <3>1
    <2>7. PICK t : t = Newest(len, a)
        OBVIOUS
    <2>8. /\ t \in Seq(Nat) /\ Len(t) = len
          /\ \A i \in 1..len : t[i] = a[l + i]
        <3>1. len \in 0..Len(a) /\ Len(a) - len = l
            BY <2>6
        <3>2. /\ t \in Seq(Nat) /\ Len(t) = len
              /\ \A i \in 1..len : t[i] = a[Len(a) - len + i]
            BY <2>6, <2>7, <3>1, Newer
        <3> QED BY <3>1, <3>2
    <2>9. p = [buf |-> t, pos |-> 1, sum |-> Total(t), len |-> len]
        BY <1>2, <2>1, <2>3, <2>4, <2>5, <2>7 DEF Resized
    <2>10. p.buf = t /\ p.pos = 1 /\ p.sum = Total(t) /\ p.len = len
        BY <2>9
    <2>11. Ring(p) /\ Summed(p)
        <3>1. Total(t) \in Int
            <4>1. PICK P : Sums(t, P) /\ Total(t) = P[Len(t)]
                BY <2>8, TotalIs
            <4> QED BY <2>8, <4>1 DEF Sums
        <3>2. 1 \in 1..len
            OBVIOUS
        <3> QED BY <2>8, <2>9, <2>10, <3>1, <3>2 DEF Ring, Summed, RingOK
    <2>12. ASSUME NEW i \in 1..len
           PROVE  /\ Old(p, i) = IF l + i <= len THEN 0 ELSE Old(r, l + i - len)
                  /\ l + i <= len \/ l + i - len \in 1..l
        <3>1. Old(p, i) = t[From(len, 1, i)]
            <4>1. \A k \in 1..Len(p.buf) : Old(p, k) = p.buf[From(Len(p.buf), p.pos, k)]
                BY <2>11, OldestIs
            <4> QED BY <2>8, <2>10, <4>1
        <3>2. From(len, 1, i) = i
            BY DEF From
        <3>3. l + i \in 1..(len + l) /\ (l + i <= len \/ l + i - len \in 1..l)
            OBVIOUS
        <3>4. Old(p, i) = a[l + i]
            BY <2>8, <3>1, <3>2
        <3> QED BY <2>2, <2>6, <3>3, <3>4
    <2>13. ASSUME NEW i \in 1..len, NEW j \in 1..len, i < j, Old(p, i) # 0, Old(p, j) # 0
           PROVE  Old(p, i) < Old(p, j)
        <3>1. /\ Old(p, i) = Old(r, l + i - len) /\ l + i - len \in 1..l
              /\ Old(p, j) = Old(r, l + j - len) /\ l + j - len \in 1..l
            BY <2>12, <2>13
        <3>2. l + i - len < l + j - len
            BY <2>13
        <3> QED BY <2>1, <2>13, <3>1, <3>2 DEF InOrder
    <2>14. ASSUME NEW b \in Nat \ {0}, Below(r, b) PROVE Below(p, b)
        <3> SUFFICES ASSUME NEW i \in 1..len PROVE Old(p, i) < b
            BY <2>8, <2>10 DEF Below
        <3>1. CASE l + i <= len
            <4>1. Old(p, i) = 0
                BY <2>12, <3>1
            <4> QED BY <4>1
        <3>2. CASE ~(l + i <= len)
            <4>1. Old(p, i) = Old(r, l + i - len) /\ l + i - len \in 1..l
                BY <2>12, <3>2
            <4> QED BY <2>1, <2>14, <4>1 DEF Below
        <3> QED BY <3>1, <3>2
    <2> QED BY <2>8, <2>10, <2>11, <2>13, <2>14 DEF InOrder
<1> QED BY <1>1, <1>2

(* A ring that is reset holds nothing.                                     *)
LEMMA ResetIs ==
    ASSUME NEW r, Ring(r), NEW p, p = ResetRing(r)
    PROVE  Ring(p) /\ Summed(p) /\ InOrder(p) /\ \A b \in Nat \ {0} : Below(p, b)
<1>1. PICK l \in Nat : l = Len(r.buf)
    BY LenProperties DEF Ring
<1>2. PICK z : z = Zeros(l) /\ z \in Seq(Nat) /\ Len(z) = l /\ \A i \in 1..l : z[i] = 0
    BY Silence
<1>3. p = [r EXCEPT !.buf = z, !.pos = 1, !.sum = 0]
    BY <1>1, <1>2 DEF ResetRing
<1>4. p.buf = z /\ p.pos = 1 /\ p.sum = 0 /\ p.len = r.len
    BY <1>3 DEF Ring
<1>5. Ring(p)
    <2>1. p \in [buf : Seq(Nat), pos : Nat, sum : Int, len : Nat]
        <3>1. r \in [buf : Seq(Nat), pos : Nat, sum : Int, len : Nat]
            BY DEF Ring
        <3>2. p = [buf |-> z, pos |-> 1, sum |-> 0, len |-> r.len] /\ r.len \in Nat
            BY <1>3, <3>1
        <3> QED BY <1>2, <3>2
    <2>2. r.buf = <<>> => z = <<>>
        <3>1. ASSUME r.buf = <<>> PROVE z = <<>>
            <4>1. l = 0
                BY <1>1, <3>1
            <4> QED BY <1>2, <4>1, EmptySeq
        <3> QED BY <3>1
    <2>3. 1 \in 1..r.len
        BY DEF Ring, RingOK
    <2> QED BY <1>1, <1>2, <1>4, <2>1, <2>2, <2>3 DEF Ring, RingOK
<1>6. Summed(p)
    BY <1>2, <1>4, TotalOfNothing DEF Summed
<1>7. ASSUME NEW i \in 1..l PROVE Old(p, i) = 0
    <2>1. Old(p, i) = z[From(l, 1, i)] /\ From(l, 1, i) \in 1..l
        <3>1. /\ \A k \in 1..Len(p.buf) : Old(p, k) = p.buf[From(Len(p.buf), p.pos, k)]
              /\ \A k \in 1..Len(p.buf) : From(Len(p.buf), p.pos, k) \in 1..Len(p.buf)
            BY <1>5, OldestIs
        <3> QED BY <1>2, <1>4, <3>1
    <2> QED BY <1>2, <2>1
<1> QED BY <1>2, <1>4, <1>5, <1>6, <1>7 DEF InOrder, Below

(* Samples that come in order, before b, newer than a ring's.              *)
Rising(s) == \A i, j \in 1..Len(s) : i < j /\ s[i] # 0 /\ s[j] # 0 => s[i] < s[j]
Under(s, b) == \A i \in 1..Len(s) : s[i] < b
Bounds(r, s, p) == \A b \in Nat \ {0} : Below(r, b) /\ Under(s, b) => Below(p, b)
Newcomers(s, r) == \A i \in 1..Len(s) : s[i] # 0 => Below(r, s[i])
EndsWith(p, s) == s # <<>> /\ p.len > 1 => Old(p, Len(p.buf)) = s[Len(s)]

(* The samples of a block enter a ring in order, if they are newer than    *)
(* what it holds.                                                          *)
LEMMA DetectedIs ==
    ASSUME NEW r, Ring(r), Summed(r), InOrder(r), NEW len \in Nat \ {0},
           NEW xs, xs \in Seq(Nat),
           Newcomers(xs, r), Rising(xs),
           NEW p, p = Detected(r, len, xs)
    PROVE  /\ Ring(p) /\ Summed(p) /\ InOrder(p)
           /\ Bounds(r, xs, p)
           /\ EndsWith(p, xs)
<1>0. /\ \A i \in 1..Len(xs) : xs[i] # 0 => Below(r, xs[i])
      /\ \A i, j \in 1..Len(xs) : i < j /\ xs[i] # 0 /\ xs[j] # 0 => xs[i] < xs[j]
    BY DEF Newcomers, Rising
<1>1. CASE xs = <<>>
    <2>1. p = r
        BY <1>1 DEF Detected
    <2> QED BY <1>1, <2>1 DEF EndsWith, Bounds
<1>2. CASE xs # <<>>
    <2>1. PICK N \in Nat : N = Len(xs)
        BY LenProperties
    <2>2. \A k \in 1..N : xs[k] \in Nat
        BY <2>1, ElementOfSeq
    <2>3. PICK a : a = Resized(r, len)
        OBVIOUS
    <2>4. /\ Ring(a) /\ Summed(a) /\ InOrder(a) /\ a.len = len
          /\ \A b \in Nat \ {0} : Below(r, b) => Below(a, b)
        BY <2>3, ResizedIs
    <2> DEFINE Rings == {t \in [buf : Seq(Nat), pos : Nat, sum : Int, len : Nat] :
                            Ring(t) /\ Summed(t) /\ t.len = len}
               F(f) == [k \in 0..N |-> IF k = 0 THEN Resized(r, len) ELSE Pushed(f[k - 1], xs[k])]
    <2>5. a \in Rings
        BY <2>4 DEF Ring
    <2>6. ASSUME NEW t \in Rings, NEW x \in Nat PROVE Pushed(t, x) \in Rings
        <3>1. Ring(t) /\ Summed(t) /\ t.len = len
            OBVIOUS
        <3>2. CASE t.len > 1
            <4>1. PICK q : q = Pushed(t, x)
                OBVIOUS
            <4>2. Ring(q) /\ Summed(q) /\ q.len = t.len
                BY <3>1, <3>2, <4>1, PushedIs
            <4> QED BY <3>1, <4>1, <4>2 DEF Ring
        <3>3. CASE ~(t.len > 1)
            <4>1. t.len <= 1
                BY <3>1, <3>3
            <4>2. Pushed(t, x) = t
                BY <4>1 DEF Pushed
            <4> QED BY <4>2
        <3> QED BY <3>2, <3>3
    <2> HIDE DEF Rings
    <2>7. PICK f : /\ f \in [0..N -> Rings] /\ f[0] = a
                   /\ \A k \in 1..N : f[k] = Pushed(f[k - 1], xs[k])
        <3>1. PICK G : G = [k \in 1..N |-> [t \in Rings |-> Pushed(t, xs[k])]]
            OBVIOUS
        <3>2. \A k \in 1..N : G[k] = [t \in Rings |-> Pushed(t, xs[k])]
            BY <3>1
        <3>3. ASSUME NEW k \in 1..N, NEW t \in Rings
              PROVE  G[k][t] = Pushed(t, xs[k]) /\ G[k][t] \in Rings
            <4>1. G[k][t] = Pushed(t, xs[k])
                BY <3>2
            <4> QED BY <2>2, <2>6, <4>1
        <3>4. Closed(G, N, Rings)
            BY <3>3 DEF Closed
        <3>5. PICK f : Unrolls(f, G, N, Rings, a)
            BY <2>5, <3>4, Recursion
        <3>6. /\ f \in [0..N -> Rings] /\ f[0] = a
              /\ \A k \in 1..N : f[k] = G[k][f[k - 1]]
            BY <3>5 DEF Unrolls
        <3>7. ASSUME NEW k \in 1..N PROVE f[k] = Pushed(f[k - 1], xs[k])
            <4>1. k - 1 \in 0..N
                OBVIOUS
            <4>2. f[k - 1] \in Rings
                BY <3>6, <4>1
            <4> QED BY <3>3, <3>6, <4>2
        <3> QED BY <3>6, <3>7
    <2>8. f = F(f)
        <3>1. \A k \in 0..N : f[k] = IF k = 0 THEN Resized(r, len) ELSE Pushed(f[k - 1], xs[k])
            <4>1. \A k \in 0..N : k = 0 \/ k \in 1..N
                OBVIOUS
            <4> QED BY <2>3, <2>7, <4>1
        <3>2. f = [k \in 0..N |-> f[k]]
            BY <2>7
        <3> QED BY <3>1, <3>2
    <2>9. PICK P : P = CHOOSE f1 : f1 = F(f1)
        OBVIOUS
    <2>10. P = F(P)
        <3> HIDE DEF F
        <3> QED BY <2>8, <2>9
    <2>11. p = P[N]
        <3>1. xs # <<>>
            BY <1>2
        <3> QED BY <2>1, <2>9, <3>1, Zenon DEF Detected
    <2>12. P[0] = a
        BY <2>3, <2>10
    <2>13. ASSUME NEW k \in 1..N PROVE P[k] = Pushed(P[k - 1], xs[k])
        <3>1. k \in 0..N /\ k # 0
            OBVIOUS
        <3> QED BY <2>10, <3>1
    <2> HIDE DEF F
    <2> DEFINE Good(k) ==
                  /\ Ring(P[k]) /\ Summed(P[k]) /\ InOrder(P[k]) /\ P[k].len = len
                  /\ \A b \in Nat \ {0} :
                        Below(r, b) /\ (\A i \in 1..k : xs[i] < b) => Below(P[k], b)
                  /\ k # 0 /\ len > 1 => Old(P[k], Len(P[k].buf)) = xs[k]
               T == {k \in 0..N : Good(k)}
    <2>14. 0 \in T
        BY <2>4, <2>12
    <2>15. ASSUME NEW k \in 1..N, k - 1 \in T PROVE k \in T
        <3>1. Good(k - 1) /\ k - 1 \in 0..N
            BY <2>15
        <3>2. PICK t, q : t = P[k - 1] /\ q = P[k]
            OBVIOUS
        <3>3. q = Pushed(t, xs[k]) /\ xs[k] \in Nat
            BY <2>2, <2>13, <3>2
        <3>4. Ring(t) /\ Summed(t) /\ InOrder(t) /\ t.len = len
            BY <3>1, <3>2
        <3>5. ASSUME NEW b \in Nat \ {0}, Below(r, b), \A i \in 1..(k - 1) : xs[i] < b
              PROVE  Below(t, b)
            BY <3>1, <3>2, <3>5
        <3>6. CASE ~(len > 1)
            <4>1. t.len <= 1
                BY <3>4, <3>6
            <4>2. q = t
                BY <3>3, <4>1 DEF Pushed
            <4>3. ASSUME NEW b \in Nat \ {0}, Below(r, b), \A i \in 1..k : xs[i] < b
                  PROVE  Below(q, b)
                <5>1. \A i \in 1..(k - 1) : xs[i] < b
                    BY <4>3
                <5> QED BY <3>5, <4>2, <4>3, <5>1
            <4>4. Good(k)
                BY <3>2, <3>4, <3>6, <4>2, <4>3
            <4> QED BY <4>4
        <3>7. CASE len > 1
            <4>1. PICK l \in Nat : l = Len(t.buf)
                BY <3>4, LenProperties DEF Ring
            <4>2. Ring(q) /\ Summed(q) /\ l = t.len /\ q.len = t.len /\ Len(q.buf) = l
                BY <3>3, <3>4, <3>7, <4>1, PushedIs
            <4>3. \A i \in 1..(l - 1) : Old(q, i) = Old(t, i + 1)
                <5>1. Shifts(t, q)
                    BY <3>3, <3>4, <3>7, PushedIs
                <5> QED BY <4>1, <5>1 DEF Shifts
            <4>4. Old(q, l) = xs[k]
                BY <3>3, <3>4, <3>7, <4>1, PushedIs
            <4>5. l > 1 /\ \A i \in 1..l : i = l \/ (i \in 1..(l - 1) /\ i + 1 \in 1..l)
                BY <3>4, <3>7, <4>2
            <4>6. ASSUME NEW b \in Nat \ {0}, Below(r, b), \A i \in 1..k : xs[i] < b
                  PROVE  Below(q, b)
                <5>1. \A i \in 1..(k - 1) : xs[i] < b
                    BY <4>6
                <5>2. Below(t, b) /\ xs[k] < b
                    BY <3>5, <4>6, <5>1
                <5> QED BY <4>1, <4>2, <4>3, <4>4, <4>5, <5>2 DEF Below
            <4>7. xs[k] # 0 => Below(t, xs[k])
                <5> SUFFICES ASSUME xs[k] # 0 PROVE Below(t, xs[k])
                    OBVIOUS
                <5>1. xs[k] \in Nat \ {0} /\ Below(r, xs[k])
                    BY <1>0, <2>1, <3>3
                <5>2. ASSUME NEW i \in 1..(k - 1) PROVE xs[i] < xs[k]
                    <6>1. i \in 1..Len(xs) /\ k \in 1..Len(xs) /\ i < k
                        BY <2>1
                    <6>2. xs[i] \in Nat
                        BY <2>1, <2>2, <6>1
                    <6> QED BY <1>0, <5>1, <6>1, <6>2
                <5> QED BY <3>5, <5>1, <5>2
            <4>8. InOrder(q)
                <5> SUFFICES ASSUME NEW i \in 1..l, NEW j \in 1..l, i < j, Old(q, i) # 0, Old(q, j) # 0
                             PROVE  Old(q, i) < Old(q, j)
                    BY <4>2 DEF InOrder
                <5>1. i \in 1..(l - 1) /\ i + 1 \in 1..l
                    OBVIOUS
                <5>2. Old(q, i) = Old(t, i + 1)
                    BY <4>3, <5>1
                <5>3. CASE j = l
                    BY <4>1, <4>4, <4>7, <5>1, <5>2, <5>3 DEF Below
                <5>4. CASE j # l
                    <6>1. j \in 1..(l - 1) /\ j + 1 \in 1..l /\ i + 1 < j + 1
                        BY <5>4
                    <6>2. Old(q, j) = Old(t, j + 1)
                        BY <4>3, <6>1
                    <6> QED BY <3>4, <4>1, <5>1, <5>2, <6>1, <6>2 DEF InOrder
                <5> QED BY <5>3, <5>4
            <4>9. Good(k)
                BY <3>2, <3>4, <4>2, <4>4, <4>6, <4>8
            <4> QED BY <4>9
        <3> QED BY <3>6, <3>7
    <2> HIDE DEF T
    <2>16. N \in T
        <3>1. N \in 0..N
            OBVIOUS
        <3> QED BY <2>14, <2>15, <3>1, Along
    <2> USE DEF T
    <2>17. N # 0
        BY <1>2, <2>1, EmptySeq
    <2>18. Good(N)
        BY <2>16
    <2> QED BY <1>2, <2>1, <2>11, <2>17, <2>18 DEF Under, EndsWith, Bounds
<1> QED BY <1>1, <1>2

(* The signal that waits, and with it the signal a block goes into, never   *)
(* turns back.                                                              *)
LineInv == Rising(line) /\ \A i \in 1..Len(line) : line[i] <= n

(* What a ring holds is older than what waits in the line, and than what   *)
(* comes.                                                                   *)
Sound(r, l, b) ==
    /\ Ring(r) /\ Summed(r) /\ InOrder(r) /\ Below(r, b + 1)
    /\ \A j \in 1..Len(l) : l[j] # 0 => Below(r, l[j])
Latest(r) == r.len > 1 /\ heard # <<>> => Old(r, Len(r.buf)) = heard[Len(heard)].out

DetectorInv ==
    /\ LineInv
    /\ Sound(coh, line, n) /\ Sound(pow, line, n)
    /\ Latest(coh) /\ Latest(pow)

(* In a signal that waits everything is in order, and what is not from the *)
(* line is new.                                                            *)
LEMMA SignalRises ==
    ASSUME ChainTypes, LineInv, NEW m \in Nat,
           NEW xs, xs \in Seq((n + 1)..(n + m)), Ascending(xs),
           NEW S, S = Signal(xs)
    PROVE  /\ S \in Seq(Nat) /\ Rising(S)
           /\ \A i \in 1..Len(S) : S[i] <= n + m
           /\ \A i \in 1..Len(S) :
                S[i] > n \/ S[i] = 0 \/ \E j \in 1..Len(line) : S[i] = line[j]
<1>0. n \in Nat /\ line \in Seq(Nat) /\ Len(line) = lineLen
    BY DEF ChainTypes
<1>1. /\ xs \in Seq(Nat)
      /\ \A j \in 1..Len(xs) : xs[j] \in Nat /\ n < xs[j] /\ xs[j] <= n + m
    <2>1. DOMAIN xs = 1..Len(xs) /\ \A j \in 1..Len(xs) : xs[j] \in (n + 1)..(n + m)
        BY LenProperties, ElementOfSeq
    <2>2. \A j \in 1..Len(xs) : xs[j] \in Nat /\ n < xs[j] /\ xs[j] <= n + m
        BY <1>0, <2>1
    <2>3. xs \in [1..Len(xs) -> Nat] /\ Len(xs) \in Nat
        BY <2>1, <2>2, LenProperties
    <2> QED BY <2>2, <2>3, SeqDef
<1>2. PICK d \in Nat \ {0}, k \in Nat : d = Delay /\ k = Len(xs)
    <2>1. Delay \in Nat \ {0} /\ Len(xs) \in Nat
        BY <1>1, SideBySide
    <2> QED BY <2>1
<1>3. S \in Seq(Nat) /\ Len(S) = d + k
    BY <1>1, <1>2, SideBySide
<1>4. ASSUME NEW i \in 1..d
      PROVE  S[i] = 0 \/ (i \in 1..Len(line) /\ S[i] = line[i])
    <2>1. S[i] = IF d # lineLen THEN 0 ELSE line[i]
        BY <1>1, <1>2, SideBySide
    <2> QED BY <1>0, <2>1
<1>5. ASSUME NEW i \in 1..k PROVE S[d + i] = xs[i] /\ n < S[d + i] /\ S[d + i] <= n + m
    <2>1. i \in 1..Len(xs)
        BY <1>2
    <2>2. Signal(xs)[Delay + i] = xs[i]
        BY <1>1, <2>1, SideBySide
    <2>3. S[d + i] = xs[i]
        BY <1>2, <2>2
    <2> QED BY <1>1, <2>1, <2>3
<1>6. \A i \in 1..(d + k) : i \in 1..d \/ (i - d \in 1..k /\ d + (i - d) = i)
    OBVIOUS
<1>7. \A i \in 1..(d + k) : S[i] \in Nat
    BY <1>3, ElementOfSeq
<1>8. ASSUME NEW i \in 1..(d + k)
      PROVE  /\ S[i] <= n + m
             /\ S[i] > n \/ S[i] = 0 \/ \E j \in 1..Len(line) : S[i] = line[j]
    <2>1. CASE i \in 1..d
        <3>1. S[i] = 0 \/ (i \in 1..Len(line) /\ S[i] = line[i])
            BY <1>4, <2>1
        <3> QED BY <1>0, <1>7, <3>1 DEF LineInv
    <2>2. CASE ~(i \in 1..d)
        <3>1. PICK j \in 1..k : d + j = i
            BY <1>6, <2>2
        <3>2. n < S[i] /\ S[i] <= n + m
            BY <1>5, <3>1
        <3> QED BY <1>0, <1>7, <3>2
    <2> QED BY <2>1, <2>2
<1>9. Rising(S)
    <2> SUFFICES ASSUME NEW i \in 1..(d + k), NEW j \in 1..(d + k), i < j, S[i] # 0, S[j] # 0
                 PROVE  S[i] < S[j]
        BY <1>3 DEF Rising
    <2>1. CASE j \in 1..d
        <3>1. i \in 1..d
            BY <2>1
        <3>2. /\ i \in 1..Len(line) /\ S[i] = line[i]
              /\ j \in 1..Len(line) /\ S[j] = line[j]
            BY <1>4, <2>1, <3>1
        <3> QED BY <3>2 DEF LineInv, Rising
    <2>2. CASE ~(j \in 1..d)
        <3>1. PICK b \in 1..k : d + b = j
            BY <1>6, <2>2
        <3>2. S[j] = xs[b] /\ n < S[j]
            BY <1>5, <3>1
        <3>3. CASE i \in 1..d
            <4>1. i \in 1..Len(line) /\ S[i] = line[i]
                BY <1>4, <3>3
            <4>2. S[i] <= n
                BY <4>1 DEF LineInv
            <4> QED BY <1>0, <1>7, <3>2, <4>2
        <3>4. CASE ~(i \in 1..d)
            <4>1. PICK a \in 1..k : d + a = i
                BY <1>6, <3>4
            <4>2. S[i] = xs[a]
                BY <1>5, <4>1
            <4>4. a < b
                BY <3>1, <4>1
            <4>3. a \in 1..Len(xs) /\ b \in 1..Len(xs)
                BY <1>2
            <4> QED BY <3>2, <4>2, <4>3, <4>4 DEF Ascending
        <3> QED BY <3>3, <3>4
    <2> QED BY <2>1, <2>2
<1> QED BY <1>3, <1>8, <1>9

(* How long the signal is.                                                 *)
LEMMA Held ==
    ASSUME ChainTypes,
           NEW xs, NEW T, xs \in Seq(T), T \subseteq Nat
    PROVE  \E d \in Nat \ {0}, k \in Nat :
               d = Delay /\ k = Len(xs) /\ Len(Signal(xs)) = d + k
<1>1. xs \in Seq(Nat)
    <2>1. xs \in [1..Len(xs) -> Nat] /\ Len(xs) \in Nat
        BY LenProperties
    <2> QED BY <2>1, SeqDef
<1> QED BY <1>1, SideBySide

LEMMA Numbers ==
    ASSUME ChainTypes, NEW m
    PROVE  (n + 1)..(n + m) \subseteq Nat
BY DEF ChainTypes

(* A block keeps the line in order.                                        *)
LEMMA LineStep ==
    ASSUME ChainTypes, LineInv, NEW m \in Nat,
           NEW xs, xs \in Seq((n + 1)..(n + m)), Ascending(xs),
           KeepSignal(xs), n' = n + m
    PROVE  LineInv'
<1>1. CASE ~set.lookahead
    <2>1. line' = <<>>
        BY <1>1 DEF KeepSignal
    <2> QED BY <2>1 DEF LineInv, Rising
<1>2. CASE set.lookahead
    <2>1. PICK S : S = Signal(xs)
        OBVIOUS
    <2>2. PICK d \in Nat \ {0}, k \in Nat : d = Delay /\ k = Len(xs) /\ Len(S) = d + k
        BY <2>1, Held, Numbers
    <2>3. line' = Newest(d, S)
        BY <1>2, <2>1, <2>2 DEF KeepSignal, Signal
    <2>4. S \in Seq(Nat) /\ Rising(S) /\ \A i \in 1..Len(S) : S[i] <= n + m
        BY <2>1, SignalRises
    <2>5. Len(line') = d /\ \A i \in 1..d : line'[i] = S[k + i]
        <3>1. d \in 0..Len(S) /\ Len(S) - d = k
            BY <2>2
        <3> QED BY <2>3, <2>4, <3>1, Newer
    <2>6. \A i \in 1..d : k + i \in 1..Len(S)
        BY <2>2
    <2>7. \A i, j \in 1..d : i < j => k + i < k + j
        OBVIOUS
    <2>8. ASSUME NEW i \in 1..d, NEW j \in 1..d, i < j, line'[i] # 0, line'[j] # 0
          PROVE  line'[i] < line'[j]
        BY <2>4, <2>5, <2>6, <2>7, <2>8 DEF Rising
    <2> QED BY <2>4, <2>5, <2>6, <2>8 DEF LineInv, Rising
<1> QED BY <1>1, <1>2

(* Samples that are new, or silence, or were in the line.                  *)
Fresh(s, l, b) ==
    \A i \in 1..Len(s) : s[i] > b \/ s[i] = 0 \/ \E j \in 1..Len(l) : s[i] = l[j]
Behind(l, s) == \A i \in 1..Len(s), j \in 1..Len(l) : l[j] # 0 => s[i] < l[j]

(* What leaves the delay line is in order, new or from the line, and older *)
(* than what stays there.                                                  *)
LEMMA OutIs ==
    ASSUME ChainTypes, LineInv, NEW m \in Nat,
           NEW xs, xs \in Seq((n + 1)..(n + m)), Ascending(xs),
           KeepSignal(xs),
           NEW ys, ys = [i \in 1..Len(xs) |-> Delayed(xs, i)]
    PROVE  /\ ys \in Seq(Nat) /\ Len(ys) = Len(xs) /\ Rising(ys)
           /\ Under(ys, n + m + 1)
           /\ Fresh(ys, line, n) /\ Fresh(line', line, n)
           /\ Behind(line', ys)
<1>1. PICK S : S = Signal(xs)
    OBVIOUS
<1>2. PICK d \in Nat \ {0}, k \in Nat : d = Delay /\ k = Len(xs) /\ Len(S) = d + k
    BY <1>1, Held, Numbers
<1>3. /\ S \in Seq(Nat) /\ Rising(S)
      /\ \A i \in 1..Len(S) : S[i] <= n + m
      /\ \A i \in 1..Len(S) :
           S[i] > n \/ S[i] = 0 \/ \E j \in 1..Len(line) : S[i] = line[j]
    BY <1>1, SignalRises
<1>4. n \in Nat /\ \A j \in 1..k : xs[j] \in Nat /\ n < xs[j] /\ xs[j] <= n + m
    <2>1. DOMAIN xs = 1..Len(xs) /\ \A j \in 1..Len(xs) : xs[j] \in (n + 1)..(n + m)
        BY LenProperties, ElementOfSeq
    <2> QED BY <1>2, <2>1 DEF ChainTypes
<1>5. ys = [i \in 1..k |-> Delayed(xs, i)] /\ Len(ys) = k
    BY <1>2
<1>6. \A i \in 1..Len(S) : S[i] \in Nat
    BY <1>3, ElementOfSeq
<1>7. CASE ~set.lookahead
    <2>1. line' = <<>>
        BY <1>7 DEF KeepSignal
    <2>2. \A i \in 1..k : ys[i] = xs[i]
        BY <1>5, <1>7 DEF Delayed
    <2>3. ys \in Seq(Nat)
        <3>1. ys \in [1..k -> Nat]
            BY <1>4, <1>5, <2>2
        <3> QED BY <3>1, SeqDef
    <2>4. ASSUME NEW i \in 1..k, NEW j \in 1..k, i < j PROVE ys[i] < ys[j]
        <3>1. xs[i] < xs[j]
            BY <1>2, <2>4 DEF Ascending
        <3> QED BY <2>2, <3>1
    <2>5. Rising(ys)
        BY <1>5, <2>4 DEF Rising
    <2>6. \A i \in 1..k : ys[i] <= n + m /\ ys[i] > n
        BY <1>4, <2>2
    <2>7. Under(ys, n + m + 1)
        <3>1. \A i \in 1..k : ys[i] \in Nat
            BY <1>4, <2>2
        <3>2. ASSUME NEW i \in 1..k PROVE ys[i] < n + m + 1
            <4>1. PICK y \in Nat : y = ys[i] /\ y <= n + m
                BY <2>6, <3>1
            <4> QED BY <1>4, <4>1
        <3> QED BY <1>5, <3>2 DEF Under
    <2>8. Fresh(ys, line, n)
        BY <1>5, <2>6 DEF Fresh
    <2>9. Fresh(line', line, n) /\ Behind(line', ys)
        BY <2>1 DEF Fresh, Behind
    <2> QED BY <1>2, <1>5, <2>3, <2>5, <2>7, <2>8, <2>9
<1>8. CASE set.lookahead
    <2>1. \A i \in 1..k : ys[i] = S[i] /\ i \in 1..Len(S)
        BY <1>1, <1>2, <1>5, <1>8 DEF Delayed, Signal
    <2>2. line' = Newest(d, S)
        BY <1>1, <1>2, <1>8 DEF KeepSignal, Signal
    <2>3. Len(line') = d /\ \A i \in 1..d : line'[i] = S[k + i]
        <3>1. d \in 0..Len(S) /\ Len(S) - d = k
            BY <1>2
        <3>2. /\ Len(Newest(d, S)) = d
              /\ \A i \in 1..d : Newest(d, S)[i] = S[Len(S) - d + i]
            BY <1>3, <3>1, Newer
        <3> QED BY <2>2, <3>1, <3>2
    <2>4. ys \in Seq(Nat)
        <3>1. ys \in [1..k -> Nat]
            BY <1>5, <1>6, <2>1
        <3> QED BY <3>1, SeqDef
    <2>5. Rising(ys)
        <3>1. ASSUME NEW i \in 1..k, NEW j \in 1..k, i < j, ys[i] # 0, ys[j] # 0
              PROVE  ys[i] < ys[j]
            BY <1>3, <2>1, <3>1 DEF Rising
        <3> QED BY <1>5, <3>1 DEF Rising
    <2>6. ASSUME NEW i \in 1..k, NEW j \in 1..d, line'[j] # 0
          PROVE  ys[i] < line'[j]
        <3>1. k + j \in 1..Len(S) /\ i < k + j
            BY <1>2
        <3>2. ys[i] = S[i] /\ i \in 1..Len(S) /\ line'[j] = S[k + j]
            BY <2>1, <2>3
        <3>3. S[k + j] \in Nat
            BY <1>6, <3>1
        <3>4. CASE S[i] = 0
            BY <2>6, <3>2, <3>3, <3>4
        <3>5. CASE S[i] # 0
            BY <1>3, <2>6, <3>1, <3>2, <3>5 DEF Rising
        <3> QED BY <3>4, <3>5
    <2>7. ASSUME NEW j \in 1..d
          PROVE  line'[j] > n \/ line'[j] = 0 \/ \E i \in 1..Len(line) : line'[j] = line[i]
        <3>1. k + j \in 1..Len(S)
            BY <1>2
        <3> QED BY <1>3, <2>3, <3>1
    <2>8. \A i \in 1..k : ys[i] <= n + m
        BY <1>3, <2>1
    <2>9. \A i \in 1..k : ys[i] > n \/ ys[i] = 0 \/ \E j \in 1..Len(line) : ys[i] = line[j]
        BY <1>3, <2>1
    <2>10. Under(ys, n + m + 1)
        <3>1. \A i \in 1..k : ys[i] \in Nat
            BY <1>6, <2>1
        <3>2. ASSUME NEW i \in 1..k PROVE ys[i] < n + m + 1
            <4>1. PICK y \in Nat : y = ys[i] /\ y <= n + m
                BY <2>8, <3>1
            <4> QED BY <1>4, <4>1
        <3> QED BY <1>5, <3>2 DEF Under
    <2>11. Fresh(ys, line, n) /\ Fresh(line', line, n)
        BY <1>5, <2>3, <2>7, <2>9 DEF Fresh
    <2>12. Behind(line', ys)
        BY <1>5, <2>3, <2>6 DEF Behind
    <2> QED BY <1>2, <1>5, <2>4, <2>5, <2>10, <2>11, <2>12
<1> QED BY <1>7, <1>8

LEMMA LineTyped ==
    ASSUME ChainTypes, NEW m \in Nat,
           NEW xs, xs \in Seq((n + 1)..(n + m)), KeepSignal(xs)
    PROVE  line' \in Seq(Nat)
<1>1. PICK S : S = Signal(xs)
    OBVIOUS
<1>2. PICK d \in Nat \ {0}, k \in Nat : d = Delay /\ k = Len(xs) /\ Len(S) = d + k
    BY <1>1, Held, Numbers
<1>3. S \in Seq(Nat)
    <2>1. xs \in [1..Len(xs) -> (n + 1)..(n + m)] /\ Len(xs) \in Nat
        BY LenProperties
    <2>3. xs \in [1..Len(xs) -> Nat]
        BY <2>1, Numbers
    <2>2. xs \in Seq(Nat)
        BY <2>1, <2>3, SeqDef
    <2> QED BY <1>1, <2>2, SideBySide
<1>4. d \in 0..Len(S)
    BY <1>2
<1>5. set.lookahead => line' = Newest(d, S)
    BY <1>1, <1>2 DEF KeepSignal, Signal
<1>6. ~set.lookahead => line' = <<>>
    BY DEF KeepSignal
<1> QED BY <1>3, <1>4, <1>5, <1>6, Newer, EmptySeq

(* A block keeps a ring sound.                                             *)
LEMMA RingStep ==
    ASSUME ChainTypes, LineInv, NEW m \in Nat,
           NEW xs, xs \in Seq((n + 1)..(n + m)), Ascending(xs),
           KeepSignal(xs),
           NEW ys, ys = [i \in 1..Len(xs) |-> Delayed(xs, i)],
           NEW r, Sound(r, line, n), NEW len \in Nat \ {0},
           NEW p, p = Detected(r, len, ys)
    PROVE  /\ Sound(p, line', n + m)
           /\ EndsWith(p, ys)
<1>1. ys \in Seq(Nat) /\ Rising(ys)
    BY OutIs
<1>2. /\ Under(ys, n + m + 1)
      /\ Fresh(ys, line, n) /\ Fresh(line', line, n)
      /\ Behind(line', ys)
    BY OutIs
<1>3. n \in Nat /\ \A i \in 1..Len(ys) : ys[i] \in Nat
    BY <1>1, ElementOfSeq DEF ChainTypes
<1>4. /\ Ring(r) /\ Summed(r) /\ InOrder(r) /\ Below(r, n + 1)
      /\ \A j \in 1..Len(line) : line[j] # 0 => Below(r, line[j])
    BY DEF Sound
<1>5. \A i \in 1..Len(r.buf) : Old(r, i) \in Nat
    BY <1>4, OldestIs
<1>6. ASSUME NEW b \in Nat \ {0}, b > n \/ \E i \in 1..Len(line) : b = line[i]
      PROVE  Below(r, b)
    <2>1. CASE b > n
        <3>1. ASSUME NEW i \in 1..Len(r.buf) PROVE Old(r, i) < b
            <4>1. Old(r, i) < n + 1 /\ Old(r, i) \in Nat
                BY <1>4, <1>5 DEF Below
            <4> QED BY <1>3, <2>1, <4>1
        <3> QED BY <3>1 DEF Below
    <2>2. CASE \E i \in 1..Len(line) : b = line[i]
        BY <1>4, <2>2
    <2> QED BY <1>6, <2>1, <2>2
<1>7. Newcomers(ys, r)
    BY <1>2, <1>3, <1>6 DEF Fresh, Newcomers
<1>9. Ring(p)
    BY <1>1, <1>4, <1>7, DetectedIs
<1>14. Summed(p)
    BY <1>1, <1>4, <1>7, DetectedIs
<1>15. InOrder(p)
    BY <1>1, <1>4, <1>7, DetectedIs
<1>10. EndsWith(p, ys)
    BY <1>1, <1>4, <1>7, DetectedIs
<1>16. Bounds(r, ys, p)
    BY <1>1, <1>4, <1>7, DetectedIs
<1>11. \A b \in Nat \ {0} : Below(r, b) /\ Under(ys, b) => Below(p, b)
    BY <1>16 DEF Bounds
<1>12. Below(p, n + m + 1)
    <2>1. n + m + 1 \in Nat \ {0} /\ n + m + 1 > n
        BY <1>3
    <2> QED BY <1>2, <1>6, <1>11, <2>1
<1>13. ASSUME NEW j \in 1..Len(line'), line'[j] # 0 PROVE Below(p, line'[j])
    <2>1. line'[j] > n \/ \E i \in 1..Len(line) : line'[j] = line[i]
        BY <1>2, <1>13 DEF Fresh
    <2>2. line'[j] \in Nat \ {0}
        <3>1. line' \in Seq(Nat)
            BY LineTyped
        <3> QED BY <1>13, <3>1, ElementOfSeq
    <2>3. Below(r, line'[j])
        BY <1>6, <2>1, <2>2
    <2>4. Under(ys, line'[j])
        BY <1>2, <1>13 DEF Behind, Under
    <2> QED BY <1>11, <2>2, <2>3, <2>4
<1> QED BY <1>9, <1>10, <1>12, <1>13, <1>14, <1>15 DEF Sound

(* The lengths the detector asks for.                                      *)
LEMMA LengthsAre ==
    ASSUME set \in Settings, NEW dit \in Dits
    PROVE  CohLen(dit) \in Nat \ {0} /\ PowLen(dit) \in Nat \ {0}
<1>1. set.mode \in {"product", "coherent", "matched"}
    BY DEF Settings
<1>2. dit \in Nat \ {0} /\ CoherentLen \in Nat \ {0}
    BY LengthAssumption
<1> QED BY <1>1, <1>2 DEF CohLen, PowLen

(* Before a block the rings are reset, if the rate has changed.            *)
LEMMA ResetSound ==
    ASSUME ChainTypes, LineInv, NEW r, Sound(r, line, n),
           NEW p, p = (IF Rebuilt THEN ResetRing(r) ELSE r)
    PROVE  Sound(p, line, n)
<1>1. CASE ~Rebuilt
    BY <1>1
<1>2. CASE Rebuilt
    <2>1. Ring(r) /\ p = ResetRing(r)
        BY <1>2 DEF Sound
    <2>2. Ring(p)
        BY <2>1, ResetIs
    <2>3. Summed(p)
        BY <2>1, ResetIs
    <2>4. InOrder(p)
        BY <2>1, ResetIs
    <2>5. \A b \in Nat \ {0} : Below(p, b)
        BY <2>1, ResetIs
    <2>6. n + 1 \in Nat \ {0}
        BY DEF ChainTypes
    <2>7. \A j \in 1..Len(line) : line[j] \in Nat
        BY ElementOfSeq DEF ChainTypes
    <2> QED BY <2>2, <2>3, <2>4, <2>5, <2>6, <2>7 DEF Sound
<1> QED BY <1>1, <1>2

(* What a block of m samples does to the detector: xs leave the decimator,  *)
(* ys the delay line.                                                       *)
Coh0 == IF Rebuilt THEN ResetRing(coh) ELSE coh
Pow0 == IF Rebuilt THEN ResetRing(pow) ELSE pow
Detects(m, dit, xs, ys) ==
    /\ xs = Passed(m)
    /\ ys = [i \in 1..Len(xs) |-> Delayed(xs, i)]
    /\ n' = n + m
    /\ KeepSignal(xs)
    /\ coh' = Detected(Coh0, CohLen(dit), ys)
    /\ pow' = Detected(Pow0, PowLen(dit), ys)
    /\ heard' = [i \in 1..Len(xs) |-> heard'[i]]
    /\ \A i \in 1..Len(xs) : heard'[i].out = ys[i]

LEMMA BlockDetected ==
    ASSUME Process
    PROVE  \E m \in 1..MaxBlock, dit \in Dits : \E xs, ys : Detects(m, dit, xs, ys)
<1>1. PICK m \in 1..MaxBlock, dit \in Dits :
          LET d0 == IF Rebuilt THEN [factor |-> set.decim, counter |-> 0] ELSE dec
              f0 == IF Redesign THEN NewFir(set.taps) ELSE fir
              r0 == IF Rebuilt THEN ResetRing(coh) ELSE coh
              p0 == IF Rebuilt THEN ResetRing(pow) ELSE pow
              xs == Decimated(d0, [i \in 1..m |-> n + i])
              conv == Convolve(f0, xs)
              ys == [i \in 1..Len(xs) |-> Delayed(xs, i)]
          IN /\ n' = n + m
             /\ KeepSignal(xs)
             /\ coh' = Detected(r0, CohLen(dit), ys)
             /\ pow' = Detected(p0, PowLen(dit), ys)
             /\ heard' = [i \in 1..Len(xs) |->
                    [in |-> xs[i], out |-> ys[i],
                     conv |-> IF InFir THEN conv.out[i] ELSE <<>>,
                     looked |-> IF set.lookahead THEN Looked(xs, i) ELSE <<>>]]
    BY Zenon DEF Process
<1>2. PICK xs : xs = Passed(m)
    OBVIOUS
<1>3. PICK ys : ys = [i \in 1..Len(xs) |-> Delayed(xs, i)]
    OBVIOUS
<1>4. /\ n' = n + m /\ KeepSignal(xs)
      /\ coh' = Detected(Coh0, CohLen(dit), ys)
      /\ pow' = Detected(Pow0, PowLen(dit), ys)
    BY <1>1, <1>2, <1>3, Zenon DEF D0, Passed, Coh0, Pow0
<1>5. PICK conv :
          heard' = [i \in 1..Len(xs) |->
               [in |-> xs[i], out |-> ys[i],
                conv |-> IF InFir THEN conv[i] ELSE <<>>,
                looked |-> IF set.lookahead THEN Looked(xs, i) ELSE <<>>]]
    BY <1>1, <1>2, <1>3, Zenon DEF D0, Passed
<1>6. \A i \in 1..Len(xs) : heard'[i].out = ys[i]
    BY <1>5
<1>7. heard' = [i \in 1..Len(xs) |-> heard'[i]]
    <2>1. PICK g : heard' = [i \in 1..Len(xs) |-> g[i]]
        <3>1. PICK g : g = heard'
            OBVIOUS
        <3>2. \A i \in 1..Len(xs) : g[i] =
                   [in |-> xs[i], out |-> ys[i],
                    conv |-> IF InFir THEN conv[i] ELSE <<>>,
                    looked |-> IF set.lookahead THEN Looked(xs, i) ELSE <<>>]
            BY <1>5, <3>1
        <3>3. heard' = [i \in 1..Len(xs) |-> g[i]]
            BY <1>5, <3>2
        <3> QED BY <3>3
    <2> QED BY <2>1
<1>8. Detects(m, dit, xs, ys)
    BY <1>2, <1>3, <1>4, <1>6, <1>7 DEF Detects
<1> QED BY <1>8

(* A block is thinned to samples in order.                                 *)
LEMMA PassedIs ==
    ASSUME ChainTypes, NEW m \in Nat
    PROVE  Passed(m) \in Seq((n + 1)..(n + m)) /\ Ascending(Passed(m))
<1>0. PICK xs : xs = Passed(m)
    OBVIOUS
<1>1. n \in Nat /\ D0.factor \in Nat \ {0} /\ D0.counter \in Nat /\ D0.counter < D0.factor
    <2>1. dec \in [factor : Factors, counter : Nat] /\ dec.counter < dec.factor
          /\ set.decim \in Factors /\ n \in Nat
        BY DEF ChainTypes, Settings
    <2>2. CASE Rebuilt
        <3>1. D0 = [factor |-> set.decim, counter |-> 0] /\ set.decim \in Nat \ {0}
            BY <2>1, <2>2, FactorAssumption DEF D0
        <3> QED BY <2>1, <3>1
    <2>3. CASE ~Rebuilt
        BY <2>1, <2>3, FactorAssumption DEF D0
    <2> QED BY <2>2, <2>3
<1>2. xs = Decimated(D0, [i \in 1..m |-> n + i])
    BY <1>0 DEF Passed
<1>3. /\ xs \in Seq((n + 1)..(n + m))
      /\ \A i, j \in 1..Len(xs) : i < j => xs[i] < xs[j]
      /\ \A k \in (n + 1)..(n + m) :
             k \in ToSet(xs) <=> (D0.counter + (k - n)) % D0.factor = 0
    <2>1. PICK a, d : a \in Nat /\ a = n /\ d = D0
        BY <1>1
    <2>2. /\ xs \in Seq((a + 1)..(a + m))
          /\ \A i, j \in 1..Len(xs) : i < j => xs[i] < xs[j]
          /\ \A k \in (a + 1)..(a + m) :
                 k \in ToSet(xs) <=> (d.counter + (k - a)) % d.factor = 0
        <3>1. /\ d.factor \in Nat \ {0} /\ d.counter \in Nat
              /\ d.counter < d.factor
            BY <1>1, <2>1
        <3>2. PICK s : s = [i \in 1..m |-> a + i]
            OBVIOUS
        <3>3. Numbered(s, a, m)
            BY <3>2 DEF Numbered
        <3>4. xs = Decimated(d, s)
            BY <1>2, <2>1, <3>2, Zenon
        <3>5. a \in Nat
            BY <2>1
        <3>6. Thins(xs, d, a, m)
            BY <3>1, <3>3, <3>4, <3>5, Thinned
        <3> QED BY <3>6 DEF Thins
    <2> QED BY <2>1, <2>2
<1> QED BY <1>0, <1>3 DEF Ascending

(* A block keeps the detector's rings sound.                               *)
LEMMA ProcessDetects ==
    ASSUME ChainInv, DetectorInv, Process
    PROVE  DetectorInv'
<1>a. PICK m \in 1..MaxBlock, dit \in Dits : \E xs, ys : Detects(m, dit, xs, ys)
    BY BlockDetected
<1>0. PICK xs, ys : Detects(m, dit, xs, ys)
    BY <1>a
<1>1. /\ xs = Passed(m)
      /\ ys = [i \in 1..Len(xs) |-> Delayed(xs, i)]
      /\ n' = n + m
      /\ KeepSignal(xs)
      /\ coh' = Detected(Coh0, CohLen(dit), ys)
      /\ pow' = Detected(Pow0, PowLen(dit), ys)
      /\ heard' = [i \in 1..Len(xs) |-> heard'[i]]
      /\ \A i \in 1..Len(xs) : heard'[i].out = ys[i]
    BY <1>0 DEF Detects
<1>2. m \in Nat /\ ChainTypes /\ set \in Settings
    BY LengthAssumption DEF ChainInv, ChainTypes
<1>3. xs \in Seq((n + 1)..(n + m)) /\ Ascending(xs)
    BY <1>1, <1>2, PassedIs
<1>4. LineInv'
    BY <1>1, <1>2, <1>3, LineStep DEF DetectorInv
<1>5. PICK r, p : r = Coh0 /\ p = Pow0
    OBVIOUS
<1>6. Sound(r, line, n) /\ Sound(p, line, n)
    BY <1>2, <1>5, ResetSound DEF DetectorInv, Coh0, Pow0
<1>7. PICK a \in Nat \ {0}, b \in Nat \ {0} : a = CohLen(dit) /\ b = PowLen(dit)
    BY <1>2, LengthsAre
<1>8. coh' = Detected(r, a, ys) /\ pow' = Detected(p, b, ys)
    BY <1>1, <1>5, <1>7
<1>9. Sound(coh', line', n + m) /\ EndsWith(coh', ys)
    BY <1>1, <1>2, <1>3, <1>6, <1>8, RingStep DEF DetectorInv
<1>10. Sound(pow', line', n + m) /\ EndsWith(pow', ys)
    BY <1>1, <1>2, <1>3, <1>6, <1>8, RingStep DEF DetectorInv
<1>11. PICK k \in Nat : k = Len(xs)
    BY <1>3, LenProperties
<1>12. Len(heard') = k /\ Len(ys) = k
    BY <1>1, <1>11
<1>13. heard' # <<>> => k # 0
    BY <1>1, <1>11
<1>14. ys = <<>> => k = 0
    BY <1>12
<1>15. k # 0 => k \in 1..k /\ heard'[k].out = ys[k]
    BY <1>1, <1>11
<1>16. Latest(coh)'
    BY <1>9, <1>12, <1>13, <1>14, <1>15 DEF Latest, EndsWith, Old
<1>17. Latest(pow)'
    BY <1>10, <1>12, <1>13, <1>14, <1>15 DEF Latest, EndsWith, Old
<1>18. Sound(coh', line', n') /\ Sound(pow', line', n')
    BY <1>1, <1>9, <1>10
<1> QED BY <1>4, <1>16, <1>17, <1>18 DEF DetectorInv, Sound

(* A new detector has rings of no length.                                  *)
LEMMA InitDetects ==
    ASSUME Init
    PROVE  DetectorInv
<1>1. coh = NewRing /\ pow = NewRing /\ line = <<>> /\ heard = <<>> /\ n = 0
    BY DEF Init
<1>2. ASSUME NEW r, r = NewRing PROVE Sound(r, <<>>, 0)
    <2>1. r = [buf |-> <<>>, pos |-> 1, sum |-> 0, len |-> 1]
        BY <1>2 DEF NewRing
    <2>2. Ring(r)
        BY <2>1, EmptySeq DEF Ring, RingOK
    <2> QED BY <2>1, <2>2 DEF Sound, Summed, InOrder, Below
<1> QED BY <1>1, <1>2 DEF DetectorInv, LineInv, Rising, Latest

(* A change of the settings alone does not touch the detector.             *)
LEMMA ChangeDetects ==
    ASSUME DetectorInv, Change \/ UNCHANGED vars
    PROVE  DetectorInv'
<1>1. UNCHANGED <<n, line, coh, pow, heard>>
    BY DEF Change, vars, gains
<1>2. LineInv' /\ Latest(coh)' /\ Latest(pow)'
    BY <1>1 DEF DetectorInv, LineInv, Latest
<1>3. Sound(coh, line, n)' /\ Sound(pow, line, n)'
    BY <1>1 DEF DetectorInv
<1> QED BY <1>2, <1>3 DEF DetectorInv

(* The running sums are the sums of the rings, and the rings hold their    *)
(* samples in the order they came, up to the newest, through every resize  *)
(* (MovingAverage::push and resize).                                       *)
THEOREM IntegratorOrdered == Spec => []IntegratorKeepsOrder
<1>1. ChainInv /\ DetectorInv /\ [Next]_vars => DetectorInv'
    BY ProcessDetects, ChangeDetects DEF Next
<1>2. DetectorInv => IntegratorKeepsOrder
    <2> SUFFICES ASSUME DetectorInv, NEW r \in {coh, pow}
                 PROVE  /\ r.buf # <<>> => r.sum = Total(r.buf)
                        /\ \A i, j \in DOMAIN OldestFirst(r) :
                              i < j /\ OldestFirst(r)[i] # 0 /\ OldestFirst(r)[j] # 0
                                => OldestFirst(r)[i] < OldestFirst(r)[j]
                        /\ r.len > 1 /\ heard # <<>> =>
                              OldestFirst(r)[Len(OldestFirst(r))] = heard[Len(heard)].out
        BY DEF IntegratorKeepsOrder
    <2>1. Sound(r, line, n) /\ Latest(r)
        BY DEF DetectorInv
    <2>2. Ring(r) /\ Summed(r) /\ InOrder(r)
        BY <2>1 DEF Sound
    <2>3. OldestFirst(r) \in Seq(Nat) /\ Len(OldestFirst(r)) = Len(r.buf)
        BY <2>2, OldestIs
    <2>4. DOMAIN OldestFirst(r) = 1..Len(r.buf)
        BY <2>3, LenProperties
    <2> QED BY <2>1, <2>2, <2>3, <2>4 DEF Summed, InOrder, Old, Latest
<1> QED BY <1>1, <1>2, InitDetects, ChainInvariant, PTL DEF Spec
-----------------------------------------------------------------------------
(* The channel filter: one sample at a time.                               *)
(* The filter's delay line of l samples, and the i-th newest of them.      *)
Filter(f, l) == f \in [delay : Seq(Nat), pos : Nat] /\ Len(f.delay) = l /\ f.pos \in 1..l
Place(l, p, i) == IF i < p THEN p - i ELSE p - i + l
Recalled(f, l, i) == f.delay[Place(l, f.pos, i)]

LEMMA PlaceIs ==
    ASSUME NEW l \in Nat \ {0}, NEW p \in 1..l, NEW i \in 0..(l - 1)
    PROVE  ((p - 1 - i) % l) + 1 = Place(l, p, i) /\ Place(l, p, i) \in 1..l
<1>1. PICK a \in Int : a = p - 1 - i /\ -l <= a /\ a < l + l
    OBVIOUS
<1>2. a % l = IF a < 0 THEN a + l ELSE IF a < l THEN a ELSE a - l
    BY <1>1, Turn
<1> QED BY <1>1, <1>2 DEF Place

(* The i-th newest sample when k of xs have followed those of q.           *)
Back(q, i) == IF i <= Len(q) THEN q[Len(q) + 1 - i] ELSE 0
Seen(q, xs, k, i) == IF i <= k THEN xs[k + 1 - i] ELSE Back(q, i - k)
View(l, q, xs, k) == [i \in 1..l |-> Seen(q, xs, k, i)]

LEMMA SeenIs ==
    ASSUME NEW q, q \in Seq(Nat), NEW xs, xs \in Seq(Nat),
           NEW k \in 0..Len(xs), NEW i \in Nat \ {0}
    PROVE  Seen(q, xs, k, i) \in Nat
<1>1. CASE i <= k
    <2>1. k + 1 - i \in 1..Len(xs)
        BY <1>1, LenProperties
    <2> QED BY <1>1, <2>1, ElementOfSeq DEF Seen
<1>2. CASE ~(i <= k)
    <2>1. PICK j \in Nat \ {0} : j = i - k
        BY <1>2, LenProperties
    <2>2. Back(q, j) \in Nat
        <3>1. CASE j <= Len(q)
            <4>1. Len(q) + 1 - j \in 1..Len(q)
                BY <3>1, LenProperties
            <4> QED BY <3>1, <4>1, ElementOfSeq DEF Back
        <3>2. CASE ~(j <= Len(q))
            BY <3>2 DEF Back
        <3> QED BY <3>1, <3>2
    <2> QED BY <1>2, <2>1, <2>2 DEF Seen
<1> QED BY <1>1, <1>2

(* Later, the same samples are older.                                      *)
Later(a, b, u) == b = a + u

LEMMA SeenLater ==
    ASSUME NEW q, NEW xs, NEW k \in Nat, NEW i \in Nat, NEW u \in Nat,
           NEW m, Later(k, m, u), NEW j, Later(i, j, u)
    PROVE  Seen(q, xs, m, j) = Seen(q, xs, k, i)
<1>1. m + 1 - j = k + 1 - i /\ j - m = i - k
    BY DEF Later
<1>2. j <= m <=> i <= k
    BY DEF Later
<1> QED BY <1>1, <1>2 DEF Seen

(* A sample that is fed is the newest, and the others are one older.       *)
LEMMA FeedIs ==
    ASSUME NEW l \in Nat \ {0, 1}, NEW f, Filter(f, l), NEW x \in Nat, NEW g, g = Feed(f, x)
    PROVE  /\ Filter(g, l) /\ Recalled(g, l, 1) = x
           /\ \A i \in 1..(l - 2) : Recalled(g, l, i + 1) = Recalled(f, l, i)
<1>1. /\ f \in [delay : Seq(Nat), pos : Nat] /\ f.delay \in Seq(Nat)
      /\ Len(f.delay) = l /\ f.pos \in 1..l
    BY DEF Filter
<1>0. PICK c \in 1..l : c = f.pos
    BY <1>1
<1>2. PICK d : d = [f.delay EXCEPT ![f.pos] = x]
    OBVIOUS
<1>3. d \in Seq(Nat) /\ Len(d) = l
    BY <1>1, <1>2, ExceptSeq
<1>4. \A i \in 1..l : d[i] = IF i = f.pos THEN x ELSE f.delay[i]
    BY <1>1, <1>2, LenProperties
<1>5. PICK p : p = (c % l) + 1
    OBVIOUS
<1>6. p = (IF c = l THEN 1 ELSE c + 1) /\ p \in 1..l
    <2>1. PICK a \in Int : a = c /\ -l <= a /\ a < l + l
        OBVIOUS
    <2>2. a % l = IF a < 0 THEN a + l ELSE IF a < l THEN a ELSE a - l
        BY <2>1, Turn
    <2> QED BY <1>5, <2>1, <2>2
<1>7. g = [delay |-> d, pos |-> p]
    BY <1>0, <1>1, <1>2, <1>5 DEF Feed
<1>8. Filter(g, l) /\ g.delay = d /\ g.pos = p
    BY <1>3, <1>6, <1>7 DEF Filter
<1>9. Place(l, p, 1) = c
    BY <1>6 DEF Place
<1>10. ASSUME NEW i \in 1..(l - 2)
       PROVE  Place(l, p, i + 1) = Place(l, c, i) /\ Place(l, c, i) # c /\ Place(l, c, i) \in 1..l
    BY <1>6 DEF Place
<1>11. Recalled(g, l, 1) = x
    BY <1>0, <1>4, <1>8, <1>9 DEF Recalled
<1>12. ASSUME NEW i \in 1..(l - 2)
       PROVE  Recalled(g, l, i + 1) = Recalled(f, l, i)
    BY <1>0, <1>4, <1>8, <1>10 DEF Recalled
<1> QED BY <1>8, <1>11, <1>12

(* The taps read backwards from the newest sample.                         *)
LEMMA BackwardsIs ==
    ASSUME NEW l \in Nat \ {0, 1}, NEW f, Filter(f, l), NEW x \in Nat
    PROVE  Backwards(f, x) = [i \in 1..l |-> IF i = 1 THEN x ELSE Recalled(f, l, i - 1)]
<1>1. /\ f \in [delay : Seq(Nat), pos : Nat] /\ f.delay \in Seq(Nat)
      /\ Len(f.delay) = l /\ f.pos \in 1..l
    BY DEF Filter
<1>0. PICK c \in 1..l : c = f.pos
    BY <1>1
<1>2. PICK d : d = [f.delay EXCEPT ![f.pos] = x]
    OBVIOUS
<1>4. \A i \in 1..l : d[i] = IF i = f.pos THEN x ELSE f.delay[i]
    BY <1>1, <1>2, LenProperties
<1>5. Backwards(f, x) = [i \in 1..l |-> d[((f.pos - i) % l) + 1]]
    BY <1>1, <1>2 DEF Backwards
<1>6. ASSUME NEW i \in 1..l
      PROVE  d[((f.pos - i) % l) + 1] = IF i = 1 THEN x ELSE Recalled(f, l, i - 1)
    <2>1. PICK j \in 0..(l - 1) : j = i - 1 /\ c - 1 - j = c - i
        OBVIOUS
    <2>2. ((c - 1 - j) % l) + 1 = Place(l, c, j) /\ Place(l, c, j) \in 1..l
        BY PlaceIs
    <2>3. Place(l, c, j) = c <=> i = 1
        BY <2>1 DEF Place
    <2> QED BY <1>0, <1>4, <2>1, <2>2, <2>3 DEF Recalled
<1> QED BY <1>5, <1>6

(* The delay line holds the newest samples when k of xs followed those of q. *)
Recalls(f, l, q, xs, k) == \A i \in 1..(l - 1) : Recalled(f, l, i) = Seen(q, xs, k, i)

(* What a convolution must do with a block xs after the samples of q.      *)
Streams(r, l, q, xs) ==
    /\ Filter(r.fir, l) /\ Recalls(r.fir, l, q, xs, Len(xs))
    /\ r.out = [k \in 1..Len(xs) |-> View(l, q, xs, k)]

(* The step from f to g feeds the k-th sample.                             *)
Feeds(f, g, l, q, xs, k) ==
    /\ Filter(g, l) /\ Recalls(g, l, q, xs, k)
    /\ Backwards(f, xs[k]) = View(l, q, xs, k)

LEMMA RecallsFeed ==
    ASSUME NEW l \in Nat \ {0, 1}, NEW f, Filter(f, l), NEW q, NEW xs, NEW k \in Nat \ {0},
           xs[k] \in Nat, NEW j, j = k - 1, Recalls(f, l, q, xs, j),
           NEW g, g = Feed(f, xs[k])
    PROVE  Feeds(f, g, l, q, xs, k)
<1>1. PICK h \in Nat : h = k - 1 /\ k = h + 1 /\ h = j
    OBVIOUS
<1>2. \A i \in 1..(l - 1) : Recalled(f, l, i) = Seen(q, xs, h, i)
    BY <1>1 DEF Recalls
<1>3. Seen(q, xs, k, 1) = xs[k]
    BY DEF Seen
<1>4. ASSUME NEW i \in Nat PROVE Seen(q, xs, k, i + 1) = Seen(q, xs, h, i)
    <2>1. PICK a \in Nat : a = i + 1
        OBVIOUS
    <2>2. Later(h, k, 1) /\ Later(i, a, 1)
        BY <1>1, <2>1 DEF Later
    <2>3. Seen(q, xs, k, a) = Seen(q, xs, h, i)
        BY <1>1, <2>2, SeenLater
    <2> QED BY <2>1, <2>3
<1>5. Filter(g, l)
    BY FeedIs
<1>6. Recalled(g, l, 1) = xs[k]
    BY FeedIs
<1>7. \A i \in 1..(l - 2) : Recalled(g, l, i + 1) = Recalled(f, l, i)
    BY FeedIs
<1>8. ASSUME NEW i \in 1..(l - 1) PROVE Recalled(g, l, i) = Seen(q, xs, k, i)
    <2>1. CASE i = 1
        BY <1>3, <1>6, <2>1
    <2>2. CASE i # 1
        <3>1. PICK b \in 1..(l - 2) : i = b + 1
            BY <2>2
        <3>2. b \in 1..(l - 1) /\ b \in Nat
            OBVIOUS
        <3> QED BY <1>2, <1>4, <1>7, <3>1, <3>2
    <2> QED BY <2>1, <2>2
<1>9. Backwards(f, xs[k]) = [i \in 1..l |-> IF i = 1 THEN xs[k] ELSE Recalled(f, l, i - 1)]
    BY BackwardsIs
<1>10. ASSUME NEW i \in 1..l
       PROVE  (IF i = 1 THEN xs[k] ELSE Recalled(f, l, i - 1)) = Seen(q, xs, k, i)
    <2>1. CASE i = 1
        BY <1>3, <2>1
    <2>2. CASE i # 1
        <3>1. PICK b \in 1..(l - 1) : i = b + 1 /\ i - 1 = b
            BY <2>2
        <3>2. b \in Nat
            OBVIOUS
        <3> QED BY <1>2, <1>4, <2>2, <3>1, <3>2
    <2> QED BY <2>1, <2>2
<1>11. Backwards(f, xs[k]) = View(l, q, xs, k)
    BY <1>9, <1>10 DEF View
<1> QED BY <1>5, <1>8, <1>11 DEF Recalls, Feeds

(* One sample at a time.                                                   *)
LEMMA OneByOneIs ==
    ASSUME NEW l \in Nat \ {0, 1}, NEW f, Filter(f, l),
           NEW q, NEW xs, xs \in Seq(Nat), Recalls(f, l, q, xs, 0)
    PROVE  Streams(OneByOne(f, xs), l, q, xs)
<1>1. PICK N \in Nat : N = Len(xs)
    BY LenProperties
<1>2. \A k \in 1..N : xs[k] \in Nat
    BY <1>1, ElementOfSeq
<1> DEFINE S == {g \in [delay : Seq(Nat), pos : Nat] : Filter(g, l)}
           F(r) == [k \in 0..Len(xs) |-> IF k = 0 THEN f ELSE Feed(r[k - 1], xs[k])]
<1>3. f \in S
    BY DEF Filter
<1>4. ASSUME NEW g \in S, NEW x \in Nat PROVE Feed(g, x) \in S
    <2>1. PICK h : h = Feed(g, x)
        OBVIOUS
    <2>2. Filter(g, l)
        OBVIOUS
    <2>3. Filter(h, l)
        BY <2>1, <2>2, FeedIs
    <2> QED BY <2>1, <2>3 DEF Filter
<1>5. \A g \in S : Filter(g, l)
    OBVIOUS
<1> HIDE DEF S
<1>6. PICK r : /\ r \in [0..N -> S] /\ r[0] = f
               /\ \A k \in 1..N : r[k] = Feed(r[k - 1], xs[k])
    <2>1. PICK G : G = [k \in 1..N |-> [g \in S |-> Feed(g, xs[k])]]
        OBVIOUS
    <2>2. \A k \in 1..N : G[k] = [g \in S |-> Feed(g, xs[k])]
        BY <2>1
    <2>3. ASSUME NEW k \in 1..N, NEW g \in S
          PROVE  G[k][g] = Feed(g, xs[k]) /\ G[k][g] \in S
        <3>1. G[k][g] = Feed(g, xs[k])
            BY <2>2
        <3> QED BY <1>2, <1>4, <3>1
    <2>4. Closed(G, N, S)
        BY <2>3 DEF Closed
    <2>5. PICK r : Unrolls(r, G, N, S, f)
        BY <1>3, <2>4, Recursion
    <2>6. /\ r \in [0..N -> S] /\ r[0] = f
          /\ \A k \in 1..N : r[k] = G[k][r[k - 1]]
        BY <2>5 DEF Unrolls
    <2>7. ASSUME NEW k \in 1..N PROVE r[k] = Feed(r[k - 1], xs[k])
        <3>1. k - 1 \in 0..N
            OBVIOUS
        <3>2. r[k - 1] \in S
            BY <2>6, <3>1
        <3> QED BY <2>3, <2>6, <3>2
    <2> QED BY <2>6, <2>7
<1>7. r = F(r)
    <2>1. \A k \in 0..N : r[k] = IF k = 0 THEN f ELSE Feed(r[k - 1], xs[k])
        <3>1. \A k \in 0..N : k = 0 \/ k \in 1..N
            OBVIOUS
        <3> QED BY <1>6, <3>1
    <2>2. r = [k \in 0..N |-> r[k]]
        BY <1>6
    <2> QED BY <1>1, <2>1, <2>2
<1> DEFINE P == CHOOSE r1 : r1 = F(r1)
<1>8. OneByOne(f, xs) =
          [fir |-> P[Len(xs)], out |-> [k \in 1..Len(xs) |-> Backwards(P[k - 1], xs[k])]]
    BY Zenon DEF OneByOne
<1>9. P = F(P)
    <2> HIDE DEF F
    <2> QED BY <1>7
<1> HIDE DEF P
<1>10. OneByOne(f, xs) = [fir |-> P[N], out |-> [k \in 1..N |-> Backwards(P[k - 1], xs[k])]]
    BY <1>1, <1>8
<1>11. P[0] = f
    BY <1>1, <1>9
<1>12. ASSUME NEW k \in 1..N PROVE P[k] = Feed(P[k - 1], xs[k])
    <2>1. k \in 0..N /\ k # 0
        OBVIOUS
    <2> QED BY <1>1, <1>9, <2>1
<1> HIDE DEF F
<1> DEFINE T == {k \in 0..N : Filter(P[k], l) /\ Recalls(P[k], l, q, xs, k)}
<1>13. 0 \in T
    BY <1>11
<1>14. ASSUME NEW k \in 1..N, k - 1 \in T
       PROVE  k \in T /\ Backwards(P[k - 1], xs[k]) = View(l, q, xs, k)
    <2>1. PICK g : g = P[k - 1]
        OBVIOUS
    <2>6. PICK j : j = k - 1
        OBVIOUS
    <2>2. Filter(g, l) /\ Recalls(g, l, q, xs, j)
        BY <1>14, <2>1, <2>6
    <2>3. PICK h : h = P[k] /\ h = Feed(g, xs[k])
        BY <1>12, <2>1
    <2>4. xs[k] \in Nat /\ k \in Nat \ {0}
        BY <1>2
    <2>5. Feeds(g, h, l, q, xs, k)
        BY <2>2, <2>3, <2>4, <2>6, RecallsFeed
    <2>7. Filter(P[k], l) /\ Recalls(P[k], l, q, xs, k)
        BY <2>3, <2>5 DEF Feeds
    <2>8. k \in 0..N
        OBVIOUS
    <2>9. Backwards(P[k - 1], xs[k]) = View(l, q, xs, k)
        BY <2>1, <2>5 DEF Feeds
    <2> QED BY <2>7, <2>8, <2>9
<1> HIDE DEF T
<1>15. \A k \in 0..N : k \in T
    BY <1>13, <1>14, Along
<1>16. \A k \in 1..N : Backwards(P[k - 1], xs[k]) = View(l, q, xs, k)
    <2>1. \A k \in 1..N : k - 1 \in 0..N
        OBVIOUS
    <2> QED BY <1>14, <1>15, <2>1
<1>17. Filter(P[N], l) /\ Recalls(P[N], l, q, xs, N)
    <2>1. N \in T
        BY <1>15
    <2> QED BY <2>1 DEF T
<1>18. PICK o : o = OneByOne(f, xs)
    OBVIOUS
<1>19. o.fir = P[N] /\ o.out = [k \in 1..N |-> View(l, q, xs, k)]
    <2>1. o.fir = P[N] /\ o.out = [k \in 1..N |-> Backwards(P[k - 1], xs[k])]
        BY <1>10, <1>18
    <2> QED BY <1>16, <2>1
<1> QED BY <1>1, <1>17, <1>18, <1>19 DEF Streams
-----------------------------------------------------------------------------
(* The channel filter: by overlap-save.                                    *)
(* The history and the output of the overlap-save convolution after b      *)
(* samples of the block.                                                   *)
State(l, q, xs, b) ==
    [past |-> [j \in 1..(l - 1) |-> Seen(q, xs, b, l - j)],
     out |-> [t \in 1..b |-> View(l, q, xs, t)]]

(* The ring read from the oldest sample is the history.                    *)
LEMMA PastIs ==
    ASSUME NEW l \in Nat \ {0, 1}, NEW f, Filter(f, l), NEW q, NEW xs, Recalls(f, l, q, xs, 0)
    PROVE  Past(f) = [j \in 1..(l - 1) |-> Seen(q, xs, 0, l - j)]
<1>1. PICK c \in 1..l : c = f.pos /\ Len(f.delay) = l
    BY DEF Filter
<1>2. Past(f) = [j \in 1..(l - 1) |-> f.delay[((c + j - 1) % l) + 1]]
    BY <1>1 DEF Past
<1>3. ASSUME NEW j \in 1..(l - 1)
      PROVE  f.delay[((c + j - 1) % l) + 1] = Seen(q, xs, 0, l - j)
    <2>1. PICK i \in 1..(l - 1) : i = l - j
        OBVIOUS
    <2>2. PICK a \in Int : a = c + j - 1 /\ -l <= a /\ a < l + l /\ 0 <= a
        OBVIOUS
    <2>3. a % l = IF a < 0 THEN a + l ELSE IF a < l THEN a ELSE a - l
        BY <2>2, Turn
    <2>4. (a % l) + 1 = Place(l, c, i)
        BY <2>1, <2>2, <2>3 DEF Place
    <2>5. Recalled(f, l, i) = Seen(q, xs, 0, i)
        BY DEF Recalls
    <2> QED BY <1>1, <2>1, <2>2, <2>4, <2>5 DEF Recalled
<1> QED BY <1>2, <1>3

(* The ring filled again from the history remembers as much.               *)
LEMMA ReseedIs ==
    ASSUME NEW l \in Nat \ {0, 1}, NEW q, q \in Seq(Nat), NEW xs, xs \in Seq(Nat),
           NEW b \in 0..Len(xs),
           NEW p, p = [j \in 1..(l - 1) |-> Seen(q, xs, b, l - j)],
           NEW f, f = Reseed(l, p)
    PROVE  Filter(f, l) /\ Recalls(f, l, q, xs, b)
<1>1. PICK e \in Nat : e = l - 1
    OBVIOUS
<1>2. p \in Seq(Nat) /\ Len(p) = e
    <2>1. \A j \in 1..(l - 1) : l - j \in Nat \ {0}
        OBVIOUS
    <2>2. \A j \in 1..(l - 1) : Seen(q, xs, b, l - j) \in Nat
        BY <2>1, SeenIs
    <2>3. p \in [1..e -> Nat]
        BY <1>1, <2>2
    <2> QED BY <2>3, SeqDef
<1>3. PICK d : d = Append(p, 0)
    OBVIOUS
<1>4. d \in Seq(Nat) /\ Len(d) = l /\ \A j \in 1..(l - 1) : d[j] = p[j]
    <2>1. /\ d \in Seq(Nat) /\ Len(d) = Len(p) + 1
          /\ \A j \in 1..Len(p) : d[j] = p[j]
        BY <1>2, <1>3, AppendProperties
    <2> QED BY <1>1, <1>2, <2>1
<1>5. f.delay = d /\ f.pos = l /\ f = [delay |-> d, pos |-> l]
    BY <1>3 DEF Reseed
<1>6. Filter(f, l)
    BY <1>4, <1>5 DEF Filter
<1>7. ASSUME NEW i \in 1..(l - 1) PROVE Recalled(f, l, i) = Seen(q, xs, b, i)
    <2>1. PICK j \in 1..(l - 1) : j = l - i /\ i = l - j
        OBVIOUS
    <2>2. Place(l, l, i) = j
        BY <2>1 DEF Place
    <2>3. p[j] = Seen(q, xs, b, i)
        BY <2>1
    <2> QED BY <1>4, <1>5, <2>2, <2>3 DEF Recalled
<1> QED BY <1>6, <1>7 DEF Recalls

(* A piece of n places from lo on.                                         *)
Spans(lo, hi, m) == hi = lo + m - 1

Piece(t, s, lo, m) ==
    t \in Seq(Nat) /\ Len(t) = m /\ \A i \in 1..m : t[i] = s[lo + i - 1]

LEMMA Cut ==
    ASSUME NEW s, s \in Seq(Nat), NEW lo \in Nat \ {0}, NEW m \in Nat,
           NEW hi \in Int, Spans(lo, hi, m), hi <= Len(s),
           NEW t, t = SubSeq(s, lo, hi)
    PROVE  Piece(t, s, lo, m)
<1>1. \A i \in lo..hi : i \in 1..Len(s)
    BY LenProperties
<1>2. \A i \in lo..hi : s[i] \in Nat
    BY <1>1, ElementOfSeq
<1>3. /\ t \in Seq(Nat)
      /\ Len(t) = IF lo <= hi THEN hi - lo + 1 ELSE 0
      /\ \A i \in 1..(hi - lo + 1) : t[i] = s[lo + i - 1]
    BY <1>2, SubSeqProperties
<1>4. hi - lo + 1 = m /\ (lo <= hi <=> m # 0)
    BY DEF Spans
<1>5. Len(t) = m
    BY <1>3, <1>4
<1> QED BY <1>3, <1>4, <1>5 DEF Piece

(* Two pieces of a sequence of views, one after the other.                 *)
LEMMA Joined ==
    ASSUME NEW l \in Nat, NEW q, NEW xs, NEW b \in Nat, NEW s \in Nat,
           NEW A, A = [t \in 1..b |-> View(l, q, xs, t)],
           NEW B, B = [t \in 1..s |-> View(l, q, xs, b + t)],
           NEW m \in Nat, m = b + s
    PROVE  A \o B = [t \in 1..m |-> View(l, q, xs, t)]
<1>1. PICK V : V = {View(l, q, xs, t) : t \in Nat}
    OBVIOUS
<1>2. A \in Seq(V) /\ Len(A) = b /\ \A t \in 1..b : A[t] = View(l, q, xs, t)
    <2>1. A \in [1..b -> V]
        BY <1>1
    <2> QED BY <2>1, SeqDef
<1>3. B \in Seq(V) /\ Len(B) = s /\ \A t \in 1..s : B[t] = View(l, q, xs, b + t)
    <2>1. \A t \in 1..s : b + t \in Nat
        OBVIOUS
    <2>2. B \in [1..s -> V]
        BY <1>1, <2>1
    <2>3. B \in Seq(V)
        BY <2>2, SeqDef
    <2>4. Len(B) = s
        OBVIOUS
    <2> QED BY <2>3, <2>4
<1>4. PICK C : C = A \o B
    OBVIOUS
<1>5. C \in Seq(V) /\ Len(C) = m
    BY <1>2, <1>3, <1>4, ConcatProperties
<1>6. \A t \in 1..(Len(A) + Len(B)) : C[t] = IF t <= Len(A) THEN A[t] ELSE B[t - Len(A)]
    BY <1>2, <1>3, <1>4, ConcatProperties
<1>7. ASSUME NEW t \in 1..m PROVE C[t] = View(l, q, xs, t)
    <2>1. C[t] = IF t <= b THEN A[t] ELSE B[t - b]
        BY <1>2, <1>3, <1>6
    <2>2. CASE t <= b
        BY <1>2, <2>1, <2>2
    <2>3. CASE ~(t <= b)
        <3>1. PICK u \in 1..s : u = t - b /\ b + u = t
            BY <2>3
        <3> QED BY <1>3, <2>1, <2>3, <3>1
    <2> QED BY <2>2, <2>3
<1>8. C = [t \in 1..m |-> C[t]]
    BY <1>5, LenProperties
<1> QED BY <1>4, <1>7, <1>8

(* A segment of s samples goes on where the one before ended.              *)
Goes(l, q, xs, b, z) ==
    Segment(l, State(l, q, xs, b), SubSeq(xs, b + 1, z)) = State(l, q, xs, z)

LEMMA SegmentIs ==
    ASSUME NEW l \in Nat \ {0, 1}, NEW q, q \in Seq(Nat), NEW xs, xs \in Seq(Nat),
           NEW b \in Nat, NEW z \in Nat, b <= z, z <= Len(xs)
    PROVE  Goes(l, q, xs, b, z)
<1>a. PICK s \in Nat : z = b + s
    <2>1. z - b \in Nat /\ z = b + (z - b)
        OBVIOUS
    <2> QED BY <2>1
<1>b. PICK y \in Nat : y = b + 1
    OBVIOUS
<1>0. PICK seg, a :
          /\ z = b + s /\ y = b + 1
          /\ seg = SubSeq(xs, y, z) /\ a = State(l, q, xs, b)
    BY <1>a, <1>b
<1>1. PICK N \in Nat, e \in Nat \ {0} : N = Len(xs) /\ e = l - 1 /\ l = e + 1
    BY LenProperties
<1>2. \A i \in 1..N : xs[i] \in Nat
    BY <1>1, ElementOfSeq
<1>3. seg \in Seq(Nat) /\ Len(seg) = s /\ \A i \in 1..s : seg[i] = xs[b + i]
    <2>1. PICK lo \in Nat \ {0}, hi \in Int : lo = b + 1 /\ hi = b + s /\ hi = lo + s - 1
        OBVIOUS
    <2>4. Spans(lo, hi, s) /\ seg = SubSeq(xs, lo, hi) /\ hi <= Len(xs)
        BY <1>0, <2>1 DEF Spans
    <2>5. Piece(seg, xs, lo, s)
        BY <2>4, Cut
    <2>2. /\ seg \in Seq(Nat) /\ Len(seg) = s
          /\ \A i \in 1..s : seg[i] = xs[lo + i - 1]
        BY <2>5 DEF Piece
    <2>3. \A i \in 1..s : lo + i - 1 = b + i
        BY <2>1
    <2> QED BY <2>2, <2>3
<1>4. PICK p : p = a.past /\ p = [j \in 1..e |-> Seen(q, xs, b, l - j)]
    BY <1>0, <1>1 DEF State
<1>5. p \in Seq(Nat) /\ Len(p) = e /\ \A j \in 1..e : p[j] = Seen(q, xs, b, l - j)
    <2>1. \A j \in 1..e : l - j \in Nat \ {0}
        BY <1>1
    <2>0. b \in 0..Len(xs)
        BY <1>0, <1>1
    <2>2. \A j \in 1..e : Seen(q, xs, b, l - j) \in Nat
        BY <2>0, <2>1, SeenIs
    <2>3. p \in [1..e -> Nat]
        BY <1>4, <2>2
    <2>5. Len(p) = e
        BY <1>1, <1>4
    <2>6. p \in Seq(Nat)
        BY <1>1, <2>3, SeqDef
    <2>4. p \in Seq(Nat) /\ Len(p) = e
        BY <2>5, <2>6
    <2> QED BY <1>4, <2>4
<1>6. PICK c : c = p \o seg
    OBVIOUS
<1>7. /\ c \in Seq(Nat) /\ Len(c) = e + s
      /\ \A j \in 1..(e + s) : c[j] = IF j <= e THEN p[j] ELSE seg[j - e]
    <2>0. p \in Seq(Nat) /\ seg \in Seq(Nat)
        BY <1>3, <1>5
    <2>1. c \in Seq(Nat) /\ Len(c) = Len(p) + Len(seg)
        BY <1>6, <2>0, ConcatProperties
    <2>2. \A j \in 1..(Len(p) + Len(seg)) : c[j] = IF j <= Len(p) THEN p[j] ELSE seg[j - Len(p)]
        BY <1>6, <2>0, ConcatProperties
    <2> QED BY <1>3, <1>5, <2>1, <2>2
<1>8. ASSUME NEW j \in 1..(e + s)
      PROVE  c[j] = Seen(q, xs, b + s, l + s - j)
    <2>1. CASE j <= e
        <3>1. PICK i \in Nat : i = l - j /\ i + s = l + s - j
            BY <1>1, <2>1
        <3>2. c[j] = Seen(q, xs, b, i)
            BY <1>5, <1>7, <2>1, <3>1
        <3>3. PICK m \in Nat, h \in Nat : m = b + s /\ h = i + s
            OBVIOUS
        <3>5. Later(b, m, s) /\ Later(i, h, s)
            BY <3>3 DEF Later
        <3>4. Seen(q, xs, m, h) = Seen(q, xs, b, i)
            BY <3>5, SeenLater
        <3> QED BY <3>1, <3>2, <3>3, <3>4
    <2>2. CASE ~(j <= e)
        <3>1. PICK i \in 1..s : i = j - e /\ l + s - j = s + 1 - i
            BY <1>1, <2>2
        <3>2. c[j] = xs[b + i]
            BY <1>3, <1>7, <2>2, <3>1
        <3>3. s + 1 - i <= b + s /\ (b + s) + 1 - (s + 1 - i) = b + i
            OBVIOUS
        <3>4. Seen(q, xs, b + s, s + 1 - i) = xs[b + i]
            BY <3>3 DEF Seen
        <3> QED BY <3>1, <3>2, <3>4
    <2> QED BY <2>1, <2>2
<1>9. Newest(e, c) = [j \in 1..e |-> Seen(q, xs, b + s, l - j)]
    <2>1. e \in 0..Len(c) /\ Len(c) - e = s
        BY <1>7
    <2>2. PICK t : t = Newest(e, c)
        OBVIOUS
    <2>3. t \in Seq(Nat) /\ Len(t) = e
        BY <1>7, <2>1, <2>2, Newer
    <2>4. \A j \in 1..e : t[j] = c[Len(c) - e + j]
        BY <1>7, <2>1, <2>2, Newer
    <2>5. ASSUME NEW j \in 1..e PROVE t[j] = Seen(q, xs, b + s, l - j)
        <3>1. s + j \in 1..(e + s) /\ l + s - (s + j) = l - j
            BY <1>1
        <3>2. t[j] = c[s + j]
            BY <2>1, <2>4
        <3> QED BY <1>8, <3>1, <3>2
    <2>6. t = [j \in 1..e |-> t[j]]
        BY <2>3, LenProperties
    <2> QED BY <2>2, <2>5, <2>6
<1>10. ASSUME NEW k \in 1..s
       PROVE  Reverse(SubSeq(c, k, k + l - 1)) = View(l, q, xs, b + k)
    <2>1. PICK w : w = SubSeq(c, k, k + l - 1)
        OBVIOUS
    <2>2. w \in Seq(Nat) /\ Len(w) = l /\ \A i \in 1..l : w[i] = c[k + i - 1]
        <3>1. PICK hi \in Int : hi = k + l - 1 /\ hi <= e + s /\ k \in Nat \ {0}
            BY <1>1
        <3>2. hi <= Len(c) /\ w = SubSeq(c, k, hi) /\ Spans(k, hi, l)
            BY <1>7, <2>1, <3>1 DEF Spans
        <3>3. c \in Seq(Nat)
            BY <1>7
        <3>4. Piece(w, c, k, l)
            BY <3>1, <3>2, <3>3, Cut
        <3> QED BY <3>4 DEF Piece
    <2>3. Reverse(w) = [i \in 1..l |-> w[(l - i) + 1]]
        BY <2>2 DEF Reverse
    <2>4. ASSUME NEW i \in 1..l PROVE w[(l - i) + 1] = Seen(q, xs, b + k, i)
        <3>1. PICK j \in 1..l : j = (l - i) + 1
            OBVIOUS
        <3>2. PICK u \in Nat : u = s - k /\ s = k + u
            OBVIOUS
        <3>3. PICK h \in 1..(e + s) : h = k + j - 1 /\ l + s - h = i + u
            BY <1>1, <3>1, <3>2
        <3>4. w[j] = Seen(q, xs, b + s, i + u)
            BY <1>8, <2>2, <3>3
        <3>5. PICK g \in Nat : g = b + k /\ b + s = g + u
            BY <3>2
        <3>6. PICK m \in Nat, v \in Nat : m = g + u /\ v = i + u
            OBVIOUS
        <3>8. Later(g, m, u) /\ Later(i, v, u) /\ i \in Nat
            BY <3>6 DEF Later
        <3>7. Seen(q, xs, m, v) = Seen(q, xs, g, i)
            BY <3>8, SeenLater
        <3> QED BY <3>1, <3>4, <3>5, <3>6, <3>7
    <2> QED BY <2>1, <2>3, <2>4 DEF View
<1>11. PICK A, B : /\ A = a.out
                   /\ B = [k \in 1..s |-> Reverse(SubSeq(c, k, k + l - 1))]
    OBVIOUS
<1>12. A = [t \in 1..b |-> View(l, q, xs, t)]
    BY <1>0, <1>11 DEF State
<1>13. B = [k \in 1..s |-> View(l, q, xs, b + k)]
    BY <1>10, <1>11
<1>14. PICK m \in Nat : m = b + s
    OBVIOUS
<1>15. A \o B = [t \in 1..m |-> View(l, q, xs, t)]
    BY <1>12, <1>13, <1>14, Joined
<1>16. Segment(l, a, seg) = [past |-> Newest(e, c), out |-> A \o B]
    <2>1. Segment(l, a, seg) =
             [past |-> Newest(l - 1, c),
              out |-> A \o [k \in 1..Len(seg) |-> Reverse(SubSeq(c, k, k + l - 1))]]
        BY <1>4, <1>6, <1>11 DEF Segment
    <2> QED BY <1>1, <1>3, <1>11, <2>1
<1>17. Segment(l, a, seg) = State(l, q, xs, z)
    BY <1>0, <1>1, <1>9, <1>14, <1>15, <1>16 DEF State
<1> QED BY <1>0, <1>17 DEF Goes

(* How many samples the first k segments take.                             *)
Taken(l, m, k) == IF k * l < m THEN k * l ELSE m
Parts(l, m) == (m + l - 1) \div l

LEMMA TakenIs ==
    ASSUME NEW l \in Nat \ {0}, NEW m \in Nat
    PROVE  /\ Parts(l, m) \in Nat
           /\ Taken(l, m, 0) = 0 /\ Taken(l, m, Parts(l, m)) = m
           /\ \A k \in 0..Parts(l, m) : Taken(l, m, k) \in 0..m
           /\ \A k \in 1..Parts(l, m) :
                 Taken(l, m, k - 1) = (k - 1) * l /\ Taken(l, m, k - 1) <= Taken(l, m, k)
<1>1. PICK N : N = Parts(l, m)
    OBVIOUS
<1>2. PICK a \in Nat : a = m + l - 1
    OBVIOUS
<1>3. N \in Nat /\ N * l <= a /\ a < N * l + l
    <2>1. a \div l \in Nat /\ (a \div l) * l <= a /\ a < (a \div l) * l + l
        BY Floor
    <2>2. N = a \div l
        BY <1>1, <1>2 DEF Parts
    <2> QED BY <2>1, <2>2
<1>4. N * l \in Nat /\ N * l >= m /\ N * l < m + l
    BY <1>2, <1>3
<1>5. 0 * l = 0
    OBVIOUS
<1>6. Taken(l, m, 0) = 0
    BY <1>5 DEF Taken
<1>7. Taken(l, m, N) = m
    BY <1>4 DEF Taken
<1>8. ASSUME NEW k \in 0..N PROVE Taken(l, m, k) \in 0..m
    <2>1. k * l \in Nat
        BY <1>3
    <2> QED BY <2>1 DEF Taken
<1>9. ASSUME NEW k \in 1..N
      PROVE  Taken(l, m, k - 1) = (k - 1) * l /\ Taken(l, m, k - 1) <= Taken(l, m, k)
    <2>1. PICK j \in Nat : j = k - 1 /\ j < N /\ k = j + 1
        BY <1>3
    <2>2. PICK u \in Nat, v \in Nat : u = j * l /\ v = k * l /\ v = u + l
        BY <2>1
    <2>3. u < m
        <3>1. v <= N * l
            <4>1. k <= N /\ k \in Nat
                BY <1>3
            <4>2. CASE k = N
                BY <1>4, <2>2, <4>2
            <4>3. CASE k < N
                BY <1>3, <2>2, <4>1, <4>3, Stretch
            <4> QED BY <1>3, <4>1, <4>2, <4>3
        <3> QED BY <1>4, <2>2, <3>1
    <2> QED BY <2>1, <2>2, <2>3 DEF Taken
<1> QED BY <1>1, <1>3, <1>6, <1>7, <1>8, <1>9

(* A whole block by overlap-save.                                          *)
LEMMA ByBlockIs ==
    ASSUME NEW l \in Nat \ {0, 1}, NEW f, Filter(f, l), NEW q, q \in Seq(Nat),
           NEW xs, xs \in Seq(Nat), Recalls(f, l, q, xs, 0)
    PROVE  Streams(ByBlock(f, xs), l, q, xs)
<1>1. PICK m \in Nat : m = Len(xs)
    BY LenProperties
<1>2. PICK N \in Nat : N = Parts(l, m)
    BY TakenIs
<1>3. /\ Taken(l, m, 0) = 0 /\ Taken(l, m, N) = m
      /\ \A k \in 0..N : Taken(l, m, k) \in 0..m
    BY <1>2, TakenIs
<1>4. \A k \in 1..N :
          Taken(l, m, k - 1) = (k - 1) * l /\ Taken(l, m, k - 1) <= Taken(l, m, k)
    BY <1>2, TakenIs
<1>5. Len(f.delay) = l
    BY DEF Filter
<1> DEFINE segs == Segments(Len(f.delay), xs)
           F(r) == [k \in 0..Len(segs) |->
                       IF k = 0 THEN [past |-> Past(f), out |-> <<>>]
                       ELSE Segment(Len(f.delay), r[k - 1], segs[k])]
           P == CHOOSE r1 : r1 = F(r1)
           D == [k \in 0..N |-> State(l, q, xs, Taken(l, m, k))]
<1>6. ByBlock(f, xs) = [fir |-> Reseed(Len(f.delay), P[Len(segs)].past), out |-> P[Len(segs)].out]
    BY Zenon DEF ByBlock
<1>7. segs = [i \in 1..N |-> SubSeq(xs, (i - 1) * l + 1, Taken(l, m, i))]
    BY <1>1, <1>2, <1>5 DEF Segments, SegmentLen, Parts, Taken
<1>8. Len(segs) = N
    BY <1>7
<1>9. State(l, q, xs, 0) = [past |-> Past(f), out |-> <<>>]
    <2>1. Past(f) = [j \in 1..(l - 1) |-> Seen(q, xs, 0, l - j)]
        BY PastIs
    <2>2. [t \in 1..0 |-> View(l, q, xs, t)] = <<>>
        OBVIOUS
    <2> QED BY <2>1, <2>2 DEF State
<1>10. ASSUME NEW k \in 1..N
       PROVE  D[k] = Segment(l, D[k - 1], segs[k])
    <2>1. k - 1 \in 0..N /\ k \in 0..N
        OBVIOUS
    <2>2. PICK b \in Nat, c \in Nat :
              b = Taken(l, m, k - 1) /\ c = Taken(l, m, k) /\ b <= c /\ c <= m /\ b = (k - 1) * l
        <3>1. Taken(l, m, k - 1) \in 0..m /\ Taken(l, m, k) \in 0..m
            BY <1>3, <2>1
        <3> QED BY <1>4, <3>1
    <2>4. segs[k] = SubSeq(xs, b + 1, c)
        BY <1>7, <2>2
    <2>5. D[k - 1] = State(l, q, xs, b) /\ D[k] = State(l, q, xs, c)
        BY <2>1, <2>2
    <2> HIDE DEF D, segs
    <2>8. Goes(l, q, xs, b, c)
        BY <1>1, <2>2, SegmentIs
    <2> QED BY <2>4, <2>5, <2>8 DEF Goes
<1>11. D[0] = [past |-> Past(f), out |-> <<>>]
    BY <1>3, <1>9
<1>12. D = F(D)
    <2>1. \A k \in 0..N :
             D[k] = IF k = 0 THEN [past |-> Past(f), out |-> <<>>]
                    ELSE Segment(l, D[k - 1], segs[k])
        <3>1. \A k \in 0..N : k = 0 \/ k \in 1..N
            OBVIOUS
        <3> HIDE DEF D, segs
        <3> QED BY <1>10, <1>11, <3>1
    <2>2. D = [k \in 0..N |-> D[k]]
        OBVIOUS
    <2> HIDE DEF D, segs
    <2> QED BY <1>5, <1>8, <2>1, <2>2
<1>13. P = F(P)
    <2> HIDE DEF F, D
    <2> QED BY <1>12
<1> HIDE DEF P, D, segs
<1>14. P[0] = D[0]
    BY <1>8, <1>11, <1>13
<1>15. ASSUME NEW k \in 1..N PROVE P[k] = Segment(l, P[k - 1], segs[k])
    <2>1. k \in 0..N /\ k # 0
        OBVIOUS
    <2> QED BY <1>5, <1>8, <1>13, <2>1
<1> HIDE DEF F
<1> DEFINE T == {k \in 0..N : P[k] = D[k]}
<1>16. 0 \in T
    BY <1>14
<1>17. ASSUME NEW k \in 1..N, k - 1 \in T PROVE k \in T
    <2>1. P[k - 1] = D[k - 1]
        BY <1>17
    <2>2. P[k] = D[k]
        BY <1>10, <1>15, <2>1
    <2> QED BY <2>2
<1> HIDE DEF T
<1>18. N \in T
    <2>1. N \in 0..N
        OBVIOUS
    <2> QED BY <1>16, <1>17, <2>1, Along
<1>19. P[N] = State(l, q, xs, m)
    <2>1. P[N] = D[N]
        BY <1>18 DEF T
    <2>2. D[N] = State(l, q, xs, m)
        BY <1>3 DEF D
    <2> QED BY <2>1, <2>2
<1>20. PICK o : o = ByBlock(f, xs)
    OBVIOUS
<1>21. PICK p : p = P[N].past /\ p = [j \in 1..(l - 1) |-> Seen(q, xs, m, l - j)]
    BY <1>19 DEF State
<1>25. ByBlock(f, xs) = [fir |-> Reseed(l, P[N].past), out |-> P[N].out]
    BY <1>5, <1>6, <1>8
<1>26. PICK v : v = P[N].out
    OBVIOUS
<1>27. o = [fir |-> Reseed(l, p), out |-> v]
    BY <1>20, <1>21, <1>25, <1>26
<1>22. /\ o.fir = Reseed(l, p)
       /\ o.out = [k \in 1..m |-> View(l, q, xs, k)]
    <2>1. o.fir = Reseed(l, p) /\ o.out = P[N].out
        BY <1>26, <1>27
    <2>2. P[N].out = [k \in 1..m |-> View(l, q, xs, k)]
        BY <1>19 DEF State
    <2> QED BY <2>1, <2>2
<1>23. PICK g : g = o.fir
    OBVIOUS
<1>24. Filter(g, l) /\ Recalls(g, l, q, xs, m)
    <2>1. m \in 0..Len(xs)
        BY <1>1
    <2> QED BY <1>21, <1>22, <1>23, <2>1, ReseedIs
<1> QED BY <1>1, <1>20, <1>22, <1>23, <1>24 DEF Streams
-----------------------------------------------------------------------------
(* The channel filter, from block to block.                                *)
(* The first k of a sequence, the newest first, and silence before them.   *)
Hears(u, k, l) == [j \in 1..l |-> IF j <= k THEN u[k + 1 - j] ELSE 0]

Follows(u, q, xs) == u = q \o xs

LEMMA ViewIs ==
    ASSUME NEW l \in Nat, NEW q, q \in Seq(Nat), NEW xs, xs \in Seq(Nat),
           NEW i \in 0..Len(xs), NEW u, Follows(u, q, xs), NEW k \in Nat, Later(Len(q), k, i)
    PROVE  View(l, q, xs, i) = Hears(u, k, l)
<1>1. PICK a \in Nat : a = Len(q) /\ k = a + i
    BY LenProperties DEF Later
<1>2. \A j \in 1..(Len(q) + Len(xs)) : u[j] = IF j <= Len(q) THEN q[j] ELSE xs[j - Len(q)]
    BY ConcatProperties DEF Follows
<1>3. PICK b \in Nat : b = Len(xs) /\ i <= b /\ i \in Nat
    BY LenProperties
<1>4. \A j \in 1..(a + b) : u[j] = IF j <= a THEN q[j] ELSE xs[j - a]
    BY <1>1, <1>2, <1>3
<1>5. ASSUME NEW j \in 1..l
      PROVE  Seen(q, xs, i, j) = IF j <= k THEN u[k + 1 - j] ELSE 0
    <2>1. CASE j <= i
        <3>1. PICK c \in 1..(a + b) : c = k + 1 - j /\ ~(c <= a) /\ c - a = i + 1 - j
            <4>1. PICK c \in Int : c = k + 1 - j
                <5>1. k + 1 - j \in Int
                    OBVIOUS
                <5> QED BY <5>1
            <4>2. c \in 1..(a + b) /\ ~(c <= a) /\ c - a = i + 1 - j
                BY <1>1, <1>3, <2>1, <4>1
            <4> QED BY <4>1, <4>2
        <3>2. j <= k
            BY <1>1, <2>1
        <3> QED BY <1>4, <2>1, <3>1, <3>2 DEF Seen
    <2>2. CASE ~(j <= i) /\ j <= k
        <3>1. PICK c \in 1..a : c = k + 1 - j /\ c = a + 1 - (j - i) /\ j - i <= a
            <4>1. PICK c \in Int : c = k + 1 - j
                <5>1. k + 1 - j \in Int
                    OBVIOUS
                <5> QED BY <5>1
            <4>2. c \in 1..a /\ c = a + 1 - (j - i) /\ j - i <= a
                BY <1>1, <1>3, <2>2, <4>1
            <4> QED BY <4>1, <4>2
        <3>2. c \in 1..(a + b) /\ c <= a
            BY <1>3
        <3>3. u[c] = q[c]
            BY <1>4, <3>2
        <3>4. Seen(q, xs, i, j) = q[c]
            BY <1>1, <2>2, <3>1 DEF Seen, Back
        <3> QED BY <2>2, <3>1, <3>3, <3>4
    <2>3. CASE ~(j <= k)
        <3>1. ~(j <= i) /\ ~(j - i <= a)
            BY <1>1, <1>3, <2>3
        <3> QED BY <1>1, <2>3, <3>1 DEF Seen, Back
    <2> QED BY <2>1, <2>2, <2>3
<1> QED BY <1>5 DEF View, Hears

(* What is recalled after a block is the end of the longer sequence.       *)
LEMMA BackIs ==
    ASSUME NEW q, q \in Seq(Nat), NEW xs, xs \in Seq(Nat),
           NEW u, Follows(u, q, xs), NEW i \in Nat \ {0}
    PROVE  Back(u, i) = Seen(q, xs, Len(xs), i) /\ Seen(q, xs, 0, i) = Back(q, i)
<1>1. PICK a \in Nat, b \in Nat : a = Len(q) /\ b = Len(xs)
    BY LenProperties
<1>2. /\ Len(u) = Len(q) + Len(xs)
      /\ \A j \in 1..(Len(q) + Len(xs)) : u[j] = IF j <= Len(q) THEN q[j] ELSE xs[j - Len(q)]
    BY ConcatProperties DEF Follows
<1>3. Len(u) = a + b /\ \A j \in 1..(a + b) : u[j] = IF j <= a THEN q[j] ELSE xs[j - a]
    BY <1>1, <1>2
<1>6. Seen(q, xs, 0, i) = Back(q, i)
    <2>1. ~(i <= 0) /\ i - 0 = i
        OBVIOUS
    <2> QED BY <2>1 DEF Seen
<1>4. CASE i <= b
    <2>1. PICK c \in 1..(a + b) : c = a + b + 1 - i /\ ~(c <= a) /\ c - a = b + 1 - i
        BY <1>4
    <2>2. i <= a + b
        BY <1>4
    <2> QED BY <1>1, <1>3, <1>4, <1>6, <2>1, <2>2 DEF Back, Seen
<1>5. CASE ~(i <= b) /\ i <= a + b
    <2>1. PICK c \in 1..a : c = a + b + 1 - i /\ c = a + 1 - (i - b) /\ i - b <= a
        BY <1>5
    <2>2. c \in 1..(a + b) /\ c <= a
        OBVIOUS
    <2>3. u[c] = q[c]
        BY <1>3, <2>2
    <2>4. Seen(q, xs, Len(xs), i) = q[c]
        BY <1>1, <1>5, <2>1 DEF Seen, Back
    <2>5. Back(u, i) = u[c]
        BY <1>3, <1>5, <2>1 DEF Back
    <2> QED BY <1>6, <2>3, <2>4, <2>5
<1>7. CASE ~(i <= a + b)
    <2>1. ~(i <= b) /\ ~(i - b <= a)
        BY <1>7
    <2> QED BY <1>1, <1>3, <1>6, <1>7, <2>1 DEF Seen, Back
<1> QED BY <1>4, <1>5, <1>6, <1>7

(* Two sequences in order, the second after the first.                     *)
Block(xs, a, z) == xs \in Seq((a + 1)..z) /\ Ascending(xs)

LEMMA OrderedOn ==
    ASSUME NEW a \in Nat, NEW z \in Nat, a <= z, NEW q, q \in Seq(1..a), Ascending(q),
           NEW xs, Block(xs, a, z), NEW u, Follows(u, q, xs)
    PROVE  u \in Seq(1..z) /\ Ascending(u) /\ ToSet(u) = ToSet(q) \cup ToSet(xs)
<1>0. PICK m \in Nat : z = a + m
    <2>1. z - a \in Nat /\ z = a + (z - a)
        OBVIOUS
    <2> QED BY <2>1
<1>12. xs \in Seq((a + 1)..(a + m)) /\ Ascending(xs)
    <2>1. xs \in Seq((a + 1)..z) /\ Ascending(xs)
        BY DEF Block
    <2>2. PICK S : S = (a + 1)..z /\ S = (a + 1)..(a + m)
        BY <1>0
    <2> QED BY <2>1, <2>2
<1>1. PICK d \in Nat, e \in Nat : d = Len(q) /\ e = Len(xs)
    BY <1>12, LenProperties
<1>2. /\ DOMAIN q = 1..d /\ \A i \in 1..d : q[i] \in 1..a
      /\ DOMAIN xs = 1..e /\ \A i \in 1..e : xs[i] \in (a + 1)..(a + m)
    <2>1. DOMAIN q = 1..Len(q) /\ \A i \in 1..Len(q) : q[i] \in 1..a
        BY LenProperties, ElementOfSeq
    <2>2. DOMAIN xs = 1..Len(xs) /\ \A i \in 1..Len(xs) : xs[i] \in (a + 1)..(a + m)
        BY <1>12, LenProperties, ElementOfSeq
    <2> QED BY <1>1, <2>1, <2>2
<1>3. q \in Seq(Nat) /\ xs \in Seq(Nat)
    <2>1. q \in [1..d -> Nat] /\ xs \in [1..e -> Nat]
        <3>1. q = [i \in 1..d |-> q[i]] /\ xs = [i \in 1..e |-> xs[i]]
            <4>1. q \in [1..Len(q) -> 1..a] /\ xs \in [1..Len(xs) -> (a + 1)..(a + m)]
                BY <1>12, LenProperties
            <4> QED BY <1>1, <4>1
        <3>2. \A i \in 1..d : q[i] \in Nat
            BY <1>2
        <3>3. \A i \in 1..e : xs[i] \in Nat
            BY <1>2
        <3> QED BY <3>1, <3>2, <3>3
    <2> QED BY <2>1, SeqDef
<1>4. /\ u \in Seq(Nat) /\ Len(u) = d + e
      /\ \A j \in 1..(d + e) : u[j] = IF j <= d THEN q[j] ELSE xs[j - d]
    <2>1. /\ u \in Seq(Nat) /\ Len(u) = Len(q) + Len(xs)
          /\ \A j \in 1..(Len(q) + Len(xs)) :
                 u[j] = IF j <= Len(q) THEN q[j] ELSE xs[j - Len(q)]
        BY <1>3, ConcatProperties DEF Follows
    <2> QED BY <1>1, <2>1
<1>5. \A j \in 1..d : j \in 1..(d + e) /\ u[j] = q[j]
    BY <1>4
<1>6. \A j \in 1..e : d + j \in 1..(d + e) /\ u[d + j] = xs[j]
    <2>1. \A j \in 1..e : d + j \in 1..(d + e) /\ ~(d + j <= d) /\ (d + j) - d = j
        OBVIOUS
    <2> QED BY <1>4, <2>1
<1>7. \A j \in 1..(d + e) : j \in 1..d \/ \E i \in 1..e : j = d + i
    <2>1. ASSUME NEW j \in 1..(d + e), j \notin 1..d PROVE \E i \in 1..e : j = d + i
        <3>1. j - d \in 1..e /\ j = d + (j - d)
            BY <2>1
        <3> QED BY <3>1
    <2> QED BY <2>1
<1>8. \A j \in 1..(d + e) : u[j] \in 1..(a + m)
    <2>1. \A x \in 1..a : x \in 1..(a + m)
        OBVIOUS
    <2>2. \A x \in (a + 1)..(a + m) : x \in 1..(a + m)
        OBVIOUS
    <2> QED BY <1>2, <1>5, <1>6, <1>7, <2>1, <2>2
<1>9. u \in Seq(1..(a + m))
    <2>1. u \in [1..(d + e) -> Nat] /\ d + e \in Nat
        <3>1. u \in [1..Len(u) -> Nat]
            BY <1>4, LenProperties
        <3> QED BY <1>4, <3>1
    <2>2. u \in [1..(d + e) -> 1..(a + m)]
        BY <1>8, <2>1
    <2> QED BY <2>1, <2>2, SeqDef
<1>10. Ascending(u)
    <2> SUFFICES ASSUME NEW i \in 1..(d + e), NEW j \in 1..(d + e), i < j PROVE u[i] < u[j]
        BY <1>4 DEF Ascending
    <2>1. CASE i \in 1..d /\ j \in 1..d
        BY <1>1, <1>5, <2>1 DEF Ascending
    <2>2. CASE i \in 1..d /\ j \notin 1..d
        <3>1. PICK c \in 1..e : j = d + c
            BY <1>7, <2>2
        <3>2. u[i] \in 1..a
            BY <1>2, <1>5, <2>2
        <3>3. u[j] \in (a + 1)..(a + m)
            <4>1. u[j] = xs[c]
                BY <1>6, <3>1
            <4> QED BY <1>2, <4>1
        <3>4. PICK x \in 1..a : x = u[i]
            BY <3>2
        <3>5. PICK y \in (a + 1)..(a + m) : y = u[j]
            BY <3>3
        <3>6. x < y
            OBVIOUS
        <3> QED BY <3>4, <3>5, <3>6
    <2>3. CASE i \notin 1..d
        <3>1. j \notin 1..d
            BY <2>3
        <3>2. PICK b \in 1..e : i = d + b
            BY <1>7, <2>3
        <3>3. PICK c \in 1..e : j = d + c
            BY <1>7, <3>1
        <3>4. b < c
            BY <3>2, <3>3
        <3>5. xs[b] < xs[c]
            BY <1>1, <1>12, <3>4 DEF Ascending
        <3> QED BY <1>6, <3>2, <3>3, <3>5
    <2> QED BY <2>1, <2>2, <2>3
<1>11. ToSet(u) = ToSet(q) \cup ToSet(xs)
    <2>1. DOMAIN u = 1..(d + e)
        BY <1>4, LenProperties
    <2>2. \A x : x \in ToSet(q) <=> \E i \in 1..d : x = q[i]
        BY <1>2 DEF ToSet
    <2>3. \A x : x \in ToSet(xs) <=> \E i \in 1..e : x = xs[i]
        BY <1>2 DEF ToSet
    <2>4. \A x : x \in ToSet(u) <=> \E i \in 1..(d + e) : x = u[i]
        BY <2>1 DEF ToSet
    <2>5. ASSUME NEW x, x \in ToSet(u) PROVE x \in ToSet(q) \cup ToSet(xs)
        <3>1. PICK i \in 1..(d + e) : x = u[i]
            BY <2>4, <2>5
        <3>2. CASE i \in 1..d
            <4>1. x = q[i]
                BY <1>5, <3>1, <3>2
            <4> QED BY <2>2, <3>2, <4>1
        <3>3. CASE i \notin 1..d
            <4>1. PICK j \in 1..e : i = d + j
                BY <1>7, <3>3
            <4>2. x = xs[j]
                BY <1>6, <3>1, <4>1
            <4> QED BY <2>3, <4>2
        <3> QED BY <3>2, <3>3
    <2>6. ASSUME NEW x, x \in ToSet(q) PROVE x \in ToSet(u)
        <3>1. PICK i \in 1..d : x = q[i]
            BY <2>2, <2>6
        <3>2. i \in 1..(d + e) /\ x = u[i]
            BY <1>5, <3>1
        <3> QED BY <2>4, <3>2
    <2>7. ASSUME NEW x, x \in ToSet(xs) PROVE x \in ToSet(u)
        <3>1. PICK i \in 1..e : x = xs[i]
            BY <2>3, <2>7
        <3> QED BY <1>6, <2>4, <3>1
    <2> QED BY <2>5, <2>6, <2>7
<1> QED BY <1>0, <1>9, <1>10, <1>11

(* How many elements stand from the a-th to the k-th.                      *)
LEMMA Counted ==
    ASSUME NEW k \in Nat, NEW u, \A i, j \in 1..k : i < j => u[i] < u[j],
           \A i \in 1..k : u[i] \in Nat, NEW a \in 1..k
    PROVE  Cardinality({u[i] : i \in a..k}) = k + 1 - a
<1>1. PICK b \in Nat, n0 \in Nat : a = b + 1 /\ n0 = k + 1 - a /\ k = b + n0
    <2>1. a - 1 \in Nat /\ k + 1 - a \in Nat /\ k = (a - 1) + (k + 1 - a) /\ a = (a - 1) + 1
        OBVIOUS
    <2> QED BY <2>1
<1> DEFINE T == {u[i] : i \in a..k}
           M == [i \in 1..n0 |-> u[b + i]]
<1>2. \A i \in 1..n0 : b + i \in a..k /\ b + i \in 1..k
    BY <1>1
<1>3. M \in [1..n0 -> T]
    BY <1>2
<1>4. ASSUME NEW i \in 1..n0, NEW j \in 1..n0, M[i] = M[j] PROVE i = j
    <2>1. PICK x \in 1..k, y \in 1..k : x = b + i /\ y = b + j
        BY <1>2
    <2>2. u[x] = u[y]
        BY <1>4, <2>1
    <2>3. ~(x < y) /\ ~(y < x)
        <3>1. PICK v \in Nat, w \in Nat : v = u[x] /\ w = u[y]
            OBVIOUS
        <3>2. x < y => v < w
            BY <3>1
        <3>3. y < x => w < v
            BY <3>1
        <3> QED BY <2>2, <3>1, <3>2, <3>3
    <2> QED BY <2>1, <2>3
<1>5. ASSUME NEW t \in T PROVE \E i \in 1..n0 : M[i] = t
    <2>1. PICK j \in a..k : t = u[j]
        OBVIOUS
    <2>2. PICK i \in 1..n0 : j = b + i
        <3>1. j - b \in 1..n0 /\ j = b + (j - b)
            BY <1>1
        <3> QED BY <3>1
    <2> QED BY <2>1, <2>2
<1> HIDE DEF M, T
<1>6. M \in Bijection(1..n0, T)
    <2>1. DOMAIN M = 1..n0
        BY <1>3
    <2> QED BY <1>3, <1>4, <1>5, <2>1 DEF Bijection, Injection, Surjection, IsInjective
<1>7. ExistsBijection(1..n0, T)
    BY <1>6 DEF ExistsBijection
<1>8. Cardinality(T) = n0
    BY <1>7, FS_CountingElements
<1> QED BY <1>1, <1>8 DEF T

(* The newest of a set in order.                                           *)
NewestOf(U, i) ==
    {x \in U : \E s \in SUBSET U : s = {y \in U : y >= x} /\ Cardinality(s) = i}

Climbs(u, k) ==
    /\ \A i, j \in 1..k : i < j => u[i] < u[j]
    /\ \A i \in 1..k : u[i] \in Nat

Firsts(u, k) == {u[i] : i \in 1..k}
Nth(u, k, i) == IF i <= k THEN {u[k + 1 - i]} ELSE {}

LEMMA NewestIs ==
    ASSUME NEW k \in Nat, NEW u, Climbs(u, k),
           NEW U, U = Firsts(u, k), NEW i \in Nat \ {0}
    PROVE  NewestOf(U, i) = Nth(u, k, i)
<1>6. U = {u[h] : h \in 1..k}
    BY DEF Firsts
<1>0. /\ \A h, j \in 1..k : h < j => u[h] < u[j]
      /\ \A h \in 1..k : u[h] \in Nat
    BY DEF Climbs
<1>1. ASSUME NEW a \in 1..k
      PROVE  {y \in U : y >= u[a]} = {u[j] : j \in a..k}
    <2>1. ASSUME NEW j \in 1..k PROVE u[j] >= u[a] <=> j \in a..k
        <3>1. PICK v \in Nat, w \in Nat : v = u[j] /\ w = u[a]
            BY <1>0
        <3>2. j < a => v < w
            BY <1>0, <3>1
        <3>3. a < j => w < v
            BY <1>0, <3>1
        <3>4. j = a => v = w
            BY <3>1
        <3> QED BY <3>1, <3>2, <3>3, <3>4
    <2>2. \A j \in a..k : j \in 1..k
        OBVIOUS
    <2> QED BY <1>6, <2>1, <2>2
<1>2. ASSUME NEW a \in 1..k
      PROVE  (\E s \in SUBSET U : s = {y \in U : y >= u[a]} /\ Cardinality(s) = i)
                <=> k + 1 - a = i
    <2>1. PICK s : s = {y \in U : y >= u[a]}
        OBVIOUS
    <2>2. s \in SUBSET U
        BY <2>1
    <2>3. Cardinality({u[j] : j \in a..k}) = k + 1 - a
        BY <1>0, Counted
    <2>4. Cardinality(s) = k + 1 - a
        BY <1>1, <2>1, <2>3
    <2> QED BY <2>1, <2>2, <2>4
<1>3. ASSUME NEW x
      PROVE  x \in NewestOf(U, i) <=> \E a \in 1..k : x = u[a] /\ k + 1 - a = i
    <2>1. x \in NewestOf(U, i) <=>
             /\ x \in U
             /\ \E s \in SUBSET U : s = {y \in U : y >= x} /\ Cardinality(s) = i
        BY DEF NewestOf
    <2>2. x \in U <=> \E a \in 1..k : x = u[a]
        BY <1>6
    <2> QED BY <1>2, <2>1, <2>2
<1>4. CASE i <= k
    <2>1. PICK a \in 1..k : a = k + 1 - i
        <3>1. k + 1 - i \in 1..k
            BY <1>4
        <3> QED BY <3>1
    <2>2. \A c \in 1..k : k + 1 - c = i <=> c = a
        BY <2>1
    <2>3. \A x : x \in NewestOf(U, i) <=> x = u[a]
        BY <1>3, <2>2
    <2> QED BY <1>4, <2>1, <2>3 DEF Nth
<1>5. CASE ~(i <= k)
    <2>1. \A c \in 1..k : k + 1 - c # i
        BY <1>5
    <2>2. \A x : x \notin NewestOf(U, i)
        BY <1>3, <2>1
    <2> QED BY <1>5, <2>2 DEF Nth
<1> QED BY <1>4, <1>5

(* What a sample must see of the samples fed, when it is the k-th of them. *)
LEMMA LastFedIs ==
    ASSUME NEW b \in Nat, NEW u, u \in Seq(1..b), Ascending(u), fed = ToSet(u),
           NEW k \in 1..Len(u), NEW l \in Nat
    PROVE  LastFed(u[k], l) = Hears(u, k, l)
<1>1. PICK c \in Nat : c = Len(u) /\ k \in 1..c /\ k \in Nat
    BY LenProperties
<1>2. DOMAIN u = 1..c /\ \A i \in 1..c : u[i] \in Nat
    <2>1. DOMAIN u = 1..c /\ \A i \in 1..c : u[i] \in 1..b
        BY <1>1, LenProperties, ElementOfSeq
    <2> QED BY <2>1
<1>3. \A i, j \in 1..c : i < j => u[i] < u[j]
    BY <1>1 DEF Ascending
<1>4. fed = {u[i] : i \in 1..c}
    BY <1>2 DEF ToSet
<1> DEFINE U == {x \in fed : x <= u[k]}
<1>5. U = {u[i] : i \in 1..k}
    <2>1. ASSUME NEW i \in 1..c PROVE u[i] <= u[k] <=> i \in 1..k
        <3>1. PICK v \in Nat, w \in Nat : v = u[i] /\ w = u[k]
            BY <1>1, <1>2
        <3>2. i < k => v < w
            BY <1>1, <1>3, <3>1
        <3>3. k < i => w < v
            BY <1>1, <1>3, <3>1
        <3>4. i = k => v = w
            BY <3>1
        <3> QED BY <1>1, <3>1, <3>2, <3>3, <3>4
    <2>2. \A i \in 1..k : i \in 1..c
        BY <1>1
    <2> QED BY <1>4, <2>1, <2>2
<1>6. LastFed(u[k], l) =
         [i \in 1..l |-> IF NewestOf(U, i) = {} THEN 0 ELSE CHOOSE x \in NewestOf(U, i) : TRUE]
    BY Zenon DEF LastFed, NewestOf
<1> HIDE DEF U
<1>7. ASSUME NEW i \in 1..l
      PROVE  (IF NewestOf(U, i) = {} THEN 0 ELSE CHOOSE x \in NewestOf(U, i) : TRUE)
                = IF i <= k THEN u[k + 1 - i] ELSE 0
    <2>1. \A j, h \in 1..k : j < h => u[j] < u[h]
        BY <1>1, <1>3
    <2>2. \A j \in 1..k : u[j] \in Nat
        BY <1>1, <1>2
    <2>3. i \in Nat \ {0} /\ k \in Nat
        BY <1>1
    <2>7. Climbs(u, k)
        BY <2>1, <2>2 DEF Climbs
    <2>4. NewestOf(U, i) = IF i <= k THEN {u[k + 1 - i]} ELSE {}
        <3>1. U = Firsts(u, k)
            BY <1>5 DEF Firsts
        <3>2. NewestOf(U, i) = Nth(u, k, i)
            BY <2>3, <2>7, <3>1, NewestIs
        <3> QED BY <3>2 DEF Nth
    <2>5. PICK y : y = u[k + 1 - i]
        OBVIOUS
    <2>6. (CHOOSE x \in {y} : TRUE) = y
        OBVIOUS
    <2> QED BY <2>4, <2>5, <2>6
<1> QED BY <1>6, <1>7 DEF Hears

(* Either way to convolve carries the stream on.                           *)
LEMMA ConvolveIs ==
    ASSUME NEW l \in Nat \ {0, 1}, NEW f, Filter(f, l), NEW q, q \in Seq(Nat),
           NEW xs, xs \in Seq(Nat), Recalls(f, l, q, xs, 0)
    PROVE  Streams(Convolve(f, xs), l, q, xs)
<1>1. Streams(OneByOne(f, xs), l, q, xs)
    BY OneByOneIs
<1>2. Streams(ByBlock(f, xs), l, q, xs)
    BY ByBlockIs
<1>3. Convolve(f, xs) = OneByOne(f, xs) \/ Convolve(f, xs) = ByBlock(f, xs)
    BY DEF Convolve
<1> QED BY <1>1, <1>2, <1>3

(* The delay line f holds the end of q, the samples s fed since the design. *)
Holding(f, l, q, s, b) ==
    /\ Filter(f, l) /\ q \in Seq(1..b) /\ Ascending(q) /\ s = ToSet(q)
    /\ \A i \in 1..(l - 1) : Recalled(f, l, i) = Back(q, i)

LEMMA Widened ==
    ASSUME NEW b \in Nat, NEW q, q \in Seq(1..b)
    PROVE  q \in Seq(Nat) /\ \A z \in Nat : b <= z => q \in Seq(1..z)
<1>1. q \in [1..Len(q) -> 1..b] /\ Len(q) \in Nat
    BY LenProperties
<1>2. PICK c \in Nat : c = Len(q) /\ q \in [1..c -> 1..b]
    BY <1>1
<1>3. q \in [1..c -> Nat]
    BY <1>2
<1>4. ASSUME NEW z \in Nat, b <= z PROVE q \in Seq(1..z)
    <2>1. \A x \in 1..b : x \in 1..z
        BY <1>4
    <2>2. q \in [1..c -> 1..z]
        BY <1>2, <2>1
    <2> QED BY <2>2, SeqDef
<1> QED BY <1>3, <1>4, SeqDef

(* A new filter holds nothing.                                             *)
LEMMA FreshFilter ==
    ASSUME NEW l \in Nat \ {0, 1}, NEW b \in Nat
    PROVE  Holding(NewFir(l), l, <<>>, {}, b)
<1>1. PICK z, f : z = Zeros(l) /\ f = [delay |-> z, pos |-> 1] /\ f = NewFir(l)
    BY DEF NewFir
<1>2. z \in Seq(Nat) /\ Len(z) = l /\ \A i \in 1..l : z[i] = 0
    BY <1>1, Silence
<1>3. Filter(f, l) /\ f.delay = z /\ f.pos = 1
    BY <1>1, <1>2 DEF Filter
<1>4. PICK e : e = <<>> /\ e \in Seq(1..b) /\ Len(e) = 0 /\ DOMAIN e = {}
    <2>1. <<>> \in Seq(1..b) /\ Len(<<>>) = 0
        BY EmptySeq
    <2>2. DOMAIN <<>> = {}
        OBVIOUS
    <2> QED BY <2>1, <2>2
<1>5. Ascending(e) /\ ToSet(e) = {}
    BY <1>4 DEF Ascending, ToSet
<1>6. ASSUME NEW i \in 1..(l - 1) PROVE Recalled(f, l, i) = Back(e, i)
    <2>1. Place(l, 1, i) \in 1..l
        BY DEF Place
    <2>2. Recalled(f, l, i) = 0
        BY <1>2, <1>3, <2>1 DEF Recalled
    <2>3. Back(e, i) = 0
        <3>1. ~(i <= 0)
            OBVIOUS
        <3> QED BY <1>4, <3>1 DEF Back
    <2> QED BY <2>2, <2>3
<1>7. Holding(f, l, e, {}, b)
    BY <1>3, <1>4, <1>5, <1>6 DEF Holding
<1> QED BY <1>1, <1>4, <1>7

(* A block goes on from what the delay line holds: afterwards it holds the *)
(* longer sequence, and each output heard the end of it at that sample.    *)
Continues(r, l, xs, s, z) ==
    \E u : /\ Holding(r.fir, l, u, s \cup ToSet(xs), z)
           /\ \A i \in 1..Len(xs) :
                  \E k \in 1..Len(u) : u[k] = xs[i] /\ r.out[i] = Hears(u, k, l)

LEMMA Continued ==
    ASSUME NEW l \in Nat \ {0, 1}, NEW a \in Nat, NEW z \in Nat, a <= z,
           NEW f, NEW q, NEW s, Holding(f, l, q, s, a),
           NEW xs, Block(xs, a, z), NEW r, r = Convolve(f, xs)
    PROVE  Continues(r, l, xs, s, z)
<1>1. PICK m \in Nat : z = a + m
    <2>1. z - a \in Nat /\ z = a + (z - a)
        OBVIOUS
    <2> QED BY <2>1
<1>2. /\ Filter(f, l) /\ q \in Seq(1..a) /\ Ascending(q) /\ s = ToSet(q)
      /\ \A i \in 1..(l - 1) : Recalled(f, l, i) = Back(q, i)
    BY DEF Holding
<1>3. xs \in Seq((a + 1)..(a + m)) /\ Ascending(xs)
    BY <1>1 DEF Block
<1>4. PICK u : u = q \o xs
    OBVIOUS
<1>13. Follows(u, q, xs)
    BY <1>4 DEF Follows
<1>5. u \in Seq(1..z) /\ Ascending(u) /\ ToSet(u) = ToSet(q) \cup ToSet(xs)
    BY <1>2, <1>13, OrderedOn
<1>6. q \in Seq(Nat) /\ xs \in Seq(Nat)
    <2>1. q \in Seq(Nat)
        BY <1>2, Widened
    <2>2. PICK e \in Nat : e = Len(xs) /\ xs \in [1..e -> (a + 1)..(a + m)]
        BY <1>3, LenProperties
    <2>3. \A x \in (a + 1)..(a + m) : x \in Nat
        OBVIOUS
    <2>4. xs \in [1..e -> Nat]
        BY <2>2, <2>3
    <2> QED BY <2>1, <2>4, SeqDef
<1>7. Recalls(f, l, q, xs, 0)
    <2>1. ASSUME NEW i \in 1..(l - 1) PROVE Recalled(f, l, i) = Seen(q, xs, 0, i)
        <3>1. i \in Nat \ {0}
            OBVIOUS
        <3>2. Seen(q, xs, 0, i) = Back(q, i)
            BY <1>6, <1>13, <3>1, BackIs
        <3> QED BY <1>2, <3>2
    <2> QED BY <2>1 DEF Recalls
<1>8. Streams(r, l, q, xs)
    BY <1>2, <1>6, <1>7, ConvolveIs
<1>9. Filter(r.fir, l) /\ Recalls(r.fir, l, q, xs, Len(xs))
    BY <1>8 DEF Streams
<1>10. ASSUME NEW i \in 1..(l - 1) PROVE Recalled(r.fir, l, i) = Back(u, i)
    <2>1. i \in Nat \ {0}
        OBVIOUS
    <2>2. Back(u, i) = Seen(q, xs, Len(xs), i)
        BY <1>6, <1>13, <2>1, BackIs
    <2> QED BY <1>9, <2>2 DEF Recalls
<1>11. Holding(r.fir, l, u, s \cup ToSet(xs), z)
    BY <1>1, <1>2, <1>5, <1>9, <1>10 DEF Holding
<1>12. ASSUME NEW i \in 1..Len(xs)
       PROVE  \E k \in 1..Len(u) : u[k] = xs[i] /\ r.out[i] = Hears(u, k, l)
    <2>1. PICK d \in Nat, e \in Nat : d = Len(q) /\ e = Len(xs) /\ i \in 1..e
        BY <1>6, LenProperties
    <2>2. PICK k \in Nat : k = d + i
        OBVIOUS
    <2>3. /\ Len(u) = Len(q) + Len(xs)
          /\ \A j \in 1..(Len(q) + Len(xs)) :
                 u[j] = IF j <= Len(q) THEN q[j] ELSE xs[j - Len(q)]
        BY <1>4, <1>6, ConcatProperties
    <2>4. k \in 1..(d + e) /\ ~(k <= d) /\ k - d = i
        BY <2>1, <2>2
    <2>5. k \in 1..Len(u) /\ u[k] = xs[i]
        BY <2>1, <2>3, <2>4
    <2>6. Later(Len(q), k, i) /\ i \in 0..Len(xs)
        BY <2>1, <2>2 DEF Later
    <2>7. View(l, q, xs, i) = Hears(u, k, l)
        BY <1>6, <1>13, <2>6, ViewIs
    <2>8. r.out[i] = View(l, q, xs, i)
        BY <1>8 DEF Streams
    <2> QED BY <2>5, <2>7, <2>8
<1> QED BY <1>11, <1>12 DEF Continues

(* The filter in use holds what was fed since its design, and every output *)
(* of the last block heard all of it.                                      *)
Shows(q, l) ==
    \A i \in DOMAIN heard :
        heard[i].conv # <<>> =>
            \E k \in 1..Len(q) : q[k] = heard[i].in /\ heard[i].conv = Hears(q, k, l)
StreamInv == \E l \in Nat \ {0, 1} : \E q : Holding(fir, l, q, fed, n) /\ Shows(q, l)

LEMMA InitStreams ==
    ASSUME Init
    PROVE  StreamInv
<1>1. /\ set.taps \in Taps /\ fir = NewFir(set.taps) /\ fed = {} /\ n = 0 /\ heard = <<>>
    BY DEF Init, Settings
<1>2. PICK l \in Nat \ {0, 1} : l = set.taps
    BY <1>1, TapAssumption
<1>3. Holding(fir, l, <<>>, fed, n)
    BY <1>1, <1>2, FreshFilter
<1>4. Shows(<<>>, l)
    BY <1>1 DEF Shows
<1> QED BY <1>3, <1>4 DEF StreamInv

LEMMA ChangeStreams ==
    ASSUME StreamInv, Change \/ UNCHANGED vars
    PROVE  StreamInv'
<1>1. UNCHANGED <<n, fir, fed, heard>>
    BY DEF Change, vars, filters
<1>a. PICK l \in Nat \ {0, 1} : \E q : Holding(fir, l, q, fed, n) /\ Shows(q, l)
    BY DEF StreamInv
<1>2. PICK q : Holding(fir, l, q, fed, n) /\ Shows(q, l)
    BY <1>a
<1>3. Holding(fir', l, q, fed', n') /\ Shows(q, l)'
    BY <1>1, <1>2 DEF Shows
<1> QED BY <1>3 DEF StreamInv

(* What a block of m samples does to the channel filter.                   *)
Fir0 == IF Redesign THEN NewFir(set.taps) ELSE fir
Fed0 == IF Redesign THEN {} ELSE fed
Filters(m, xs, r) ==
    /\ xs = Passed(m) /\ r = Convolve(Fir0, xs)
    /\ n' = n + m
    /\ fir' = IF InFir THEN r.fir ELSE Fir0
    /\ fed' = IF InFir THEN Fed0 \cup ToSet(xs) ELSE Fed0
    /\ DOMAIN heard' = 1..Len(xs)
    /\ \A i \in 1..Len(xs) :
           heard'[i].in = xs[i] /\ heard'[i].conv = IF InFir THEN r.out[i] ELSE <<>>

LEMMA BlockFiltered ==
    ASSUME Process
    PROVE  \E m \in 1..MaxBlock : \E xs, r : Filters(m, xs, r)
<1>1. PICK m \in 1..MaxBlock, dit \in Dits :
          LET d0 == IF Rebuilt THEN [factor |-> set.decim, counter |-> 0] ELSE dec
              f0 == IF Redesign THEN NewFir(set.taps) ELSE fir
              fed0 == IF Redesign THEN {} ELSE fed
              xs == Decimated(d0, [i \in 1..m |-> n + i])
              conv == Convolve(f0, xs)
              ys == [i \in 1..Len(xs) |-> Delayed(xs, i)]
          IN /\ n' = n + m
             /\ fir' = IF InFir THEN conv.fir ELSE f0
             /\ fed' = IF InFir THEN fed0 \cup ToSet(xs) ELSE fed0
             /\ heard' = [i \in 1..Len(xs) |->
                    [in |-> xs[i], out |-> ys[i],
                     conv |-> IF InFir THEN conv.out[i] ELSE <<>>,
                     looked |-> IF set.lookahead THEN Looked(xs, i) ELSE <<>>]]
    BY Zenon DEF Process
<1>2. PICK xs : xs = Passed(m)
    OBVIOUS
<1>3. PICK r : r = Convolve(Fir0, xs)
    OBVIOUS
<1>4. /\ n' = n + m
      /\ fir' = IF InFir THEN r.fir ELSE Fir0
      /\ fed' = IF InFir THEN Fed0 \cup ToSet(xs) ELSE Fed0
    BY <1>1, <1>2, <1>3, Zenon DEF D0, Passed, Fir0, Fed0
<1>5. PICK ys :
          heard' = [i \in 1..Len(xs) |->
               [in |-> xs[i], out |-> ys[i],
                conv |-> IF InFir THEN r.out[i] ELSE <<>>,
                looked |-> IF set.lookahead THEN Looked(xs, i) ELSE <<>>]]
    BY <1>1, <1>2, <1>3, Zenon DEF D0, Passed, Fir0
<1>6. /\ DOMAIN heard' = 1..Len(xs)
      /\ \A i \in 1..Len(xs) :
             heard'[i].in = xs[i] /\ heard'[i].conv = IF InFir THEN r.out[i] ELSE <<>>
    BY <1>5
<1>7. Filters(m, xs, r)
    BY <1>2, <1>3, <1>4, <1>6 DEF Filters
<1> QED BY <1>7

(* A block goes on with the stream, whichever way it is convolved, or      *)
(* begins a new one when the filter is designed anew.                      *)
LEMMA ProcessStreams ==
    ASSUME ChainInv, StreamInv, Process
    PROVE  StreamInv'
<1>a. PICK m \in 1..MaxBlock : \E xs, r : Filters(m, xs, r)
    BY BlockFiltered
<1>1. PICK xs, r : Filters(m, xs, r)
    BY <1>a
<1>2. /\ xs = Passed(m) /\ r = Convolve(Fir0, xs)
      /\ n' = n + m
      /\ fir' = IF InFir THEN r.fir ELSE Fir0
      /\ fed' = IF InFir THEN Fed0 \cup ToSet(xs) ELSE Fed0
      /\ DOMAIN heard' = 1..Len(xs)
      /\ \A i \in 1..Len(xs) :
             heard'[i].in = xs[i] /\ heard'[i].conv = IF InFir THEN r.out[i] ELSE <<>>
    BY <1>1 DEF Filters
<1>3. m \in Nat /\ ChainTypes /\ n \in Nat /\ set \in Settings
    BY LengthAssumption DEF ChainInv, ChainTypes
<1>4. PICK a \in Nat, z \in Nat : a = n /\ z = n' /\ a <= z /\ z = a + m
    BY <1>2, <1>3
<1>5. Block(xs, a, z)
    <2>1. xs \in Seq((n + 1)..(n + m)) /\ Ascending(xs)
        BY <1>2, <1>3, PassedIs
    <2> QED BY <1>4, <2>1 DEF Block
<1>b. PICK l \in Nat \ {0, 1} : \E q : Holding(Fir0, l, q, Fed0, a)
    <2>1. CASE Redesign
        <3>1. PICK l \in Nat \ {0, 1} : l = set.taps
            BY <1>3, TapAssumption DEF Settings
        <3>2. Holding(NewFir(l), l, <<>>, {}, a)
            BY FreshFilter
        <3> QED BY <2>1, <3>1, <3>2 DEF Fir0, Fed0
    <2>2. CASE ~Redesign
        BY <1>4, <2>2 DEF StreamInv, Fir0, Fed0
    <2> QED BY <2>1, <2>2
<1>6. PICK q : Holding(Fir0, l, q, Fed0, a)
    BY <1>b
<1>7. CASE InFir
    <2>1. Continues(r, l, xs, Fed0, z)
        BY <1>2, <1>4, <1>5, <1>6, Continued
    <2>2. PICK u : /\ Holding(r.fir, l, u, Fed0 \cup ToSet(xs), z)
                   /\ \A i \in 1..Len(xs) :
                          \E k \in 1..Len(u) : u[k] = xs[i] /\ r.out[i] = Hears(u, k, l)
        BY <2>1 DEF Continues
    <2>3. Holding(fir', l, u, fed', n')
        BY <1>2, <1>4, <1>7, <2>2
    <2>4. Shows(u, l)'
        <3>1. ASSUME NEW i \in DOMAIN heard', heard'[i].conv # <<>>
              PROVE  \E k \in 1..Len(u) :
                         u[k] = heard'[i].in /\ heard'[i].conv = Hears(u, k, l)
            <4>1. /\ i \in 1..Len(xs)
                  /\ heard'[i].in = xs[i] /\ heard'[i].conv = r.out[i]
                BY <1>2, <1>7, <3>1
            <4> QED BY <2>2, <4>1
        <3> QED BY <3>1 DEF Shows
    <2> QED BY <2>3, <2>4 DEF StreamInv
<1>8. CASE ~InFir
    <2>1. q \in Seq(1..a)
        BY <1>6 DEF Holding
    <2>2. q \in Seq(1..z)
        BY <1>4, <2>1, Widened
    <2>3. Holding(Fir0, l, q, Fed0, z)
        BY <1>6, <2>2 DEF Holding
    <2>4. Holding(fir', l, q, fed', n')
        BY <1>2, <1>4, <1>8, <2>3
    <2>5. Shows(q, l)'
        BY <1>2, <1>8 DEF Shows
    <2> QED BY <2>4, <2>5 DEF StreamInv
<1> QED BY <1>7, <1>8

LEMMA Streaming ==
    ASSUME ChainInv, StreamInv
    PROVE  FilterIsStreaming
<1>a. PICK l \in Nat \ {0, 1} : \E q : Holding(fir, l, q, fed, n) /\ Shows(q, l)
    BY DEF StreamInv
<1>1. PICK q : Holding(fir, l, q, fed, n) /\ Shows(q, l)
    BY <1>a
<1>2. /\ Len(fir.delay) = l /\ q \in Seq(1..n) /\ Ascending(q) /\ fed = ToSet(q)
    BY <1>1 DEF Holding, Filter
<1>3. n \in Nat /\ l \in Nat
    BY DEF ChainInv, ChainTypes
<1>4. ASSUME NEW i \in DOMAIN heard, heard[i].conv # <<>>
      PROVE  heard[i].conv = LastFed(heard[i].in, Len(fir.delay))
    <2>1. PICK k \in 1..Len(q) : q[k] = heard[i].in /\ heard[i].conv = Hears(q, k, l)
        BY <1>1, <1>4 DEF Shows
    <2>2. LastFed(q[k], l) = Hears(q, k, l)
        BY <1>2, <1>3, LastFedIs
    <2> QED BY <1>2, <2>1, <2>2
<1> QED BY <1>4 DEF FilterIsStreaming

(* Every output of the channel filter sees exactly the newest samples that *)
(* entered it since it was designed, newest first, and silence before      *)
(* them, whether its block was convolved sample by sample or by            *)
(* overlap-save and wherever the blocks were cut (FirFilter::process and   *)
(* FftConvolver::process_block).                                           *)
THEOREM FilterStreams == Spec => []FilterIsStreaming
<1>1. ChainInv /\ StreamInv /\ [Next]_vars => StreamInv'
    BY ProcessStreams, ChangeStreams DEF Next
<1>2. ChainInv /\ StreamInv => FilterIsStreaming
    BY Streaming
<1> QED BY <1>1, <1>2, InitStreams, ChainInvariant, PTL DEF Spec
=============================================================================
