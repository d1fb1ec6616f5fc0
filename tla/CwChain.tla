------------------------------ MODULE CwChain ------------------------------
(* The streaming part of the CW demodulator: the decimator, the channel     *)
(* filter with its two ways to convolve, the lookahead gain control and the *)
(* integrating detector (dsp/cw/channel.rs, decimator.rs, fir.rs, agc.rs,   *)
(* cw_detector.rs). Each keeps a piece of the past between two calls of     *)
(* process, in a ring, a delay line or a counter, and the user switches     *)
(* stages, lengths and modes between two blocks.                            *)
(*                                                                          *)
(* A sample is its number in the input, 0 a sample that never was. What a   *)
(* filter computes is the list of samples it multiplies with its taps, what *)
(* the gain control computes is the list of levels it looks at. Stages that *)
(* keep one number only (noise blanker, mixer, notches, meters, polish) are *)
(* left out: their past has no places to be confused.                       *)
EXTENDS Integers, Sequences, SequencesExt

CONSTANTS
    Factors,        \* decimation factors the user may choose
    Taps,           \* lengths of the channel filter
    Aheads,         \* lookahead times, in input samples
    Dits,           \* lengths of a dit the keyer speed estimator may give
    CoherentLen,    \* length of the coherent integration
    MinBlock,       \* FFT_BLOCK_MIN_INPUT: shorter blocks are convolved one by one
    MaxBlock,       \* samples given to one call of process
    MaxIn, MaxChange

ASSUME FactorAssumption == Factors \subseteq Nat \ {0} /\ 1 \in Factors
ASSUME TapAssumption == Taps \subseteq Nat \ {0, 1}
ASSUME LengthAssumption ==
    Aheads \cup Dits \cup {CoherentLen, MinBlock, MaxBlock} \subseteq Nat \ {0}

Settings == [decim : Factors, kind : {"fir", "shifted", "iir", "off"}, taps : Taps,
             lookahead : BOOLEAN, ahead : Aheads,
             mode : {"product", "coherent", "matched"}]

VARIABLES
    set,            \* the settings of the user
    n,              \* samples given to the demodulator
    dec,            \* the decimator: factor and counter
    fir, design,    \* the channel filter, and the length it was designed for
    hist, histLen,  \* levels the gain control looked at (lookahead_history)
    line, lineLen,  \* the delay line of the signal (agc_delay_line)
    coh, pow,       \* the rings of the detector
    heard,          \* what the last block became
    base,           \* history: samples given before the decimator was built
    emitted, fed,   \* history: samples that left the decimator, that
                    \* entered the channel filter since its design
    changes

filters == <<fir, design, fed>>
gains == <<hist, histLen, line, lineLen>>
vars == <<set, n, dec, filters, gains, coh, pow, heard, base, emitted, changes>>

Zeros(k) == [i \in 1 .. k |-> 0]
Newest(k, s) == SubSeq(s, Len(s) - k + 1, Len(s))
Total(s) ==
    LET sum[k \in 0 .. Len(s)] == IF k = 0 THEN 0 ELSE sum[k - 1] + s[k]
    IN sum[Len(s)]

NewFir(l) == [delay |-> Zeros(l), pos |-> 1]
NewRing == [buf |-> <<>>, pos |-> 1, sum |-> 0, len |-> 1]

Init ==
    /\ set \in {s \in Settings : s.decim = 1 /\ s.kind = "fir" /\ s.mode = "product"}
    /\ n = 0
    /\ dec = [factor |-> 1, counter |-> 0]
    /\ design = set.taps /\ fir = NewFir(set.taps)
    /\ hist = <<>> /\ histLen = 0 /\ line = <<>> /\ lineLen = 0
    /\ coh = NewRing /\ pow = NewRing
    /\ heard = <<>>
    /\ base = 0 /\ emitted = {} /\ fed = {} /\ changes = 0

-----------------------------------------------------------------------------
(* The decimator: the counter runs through the blocks. The j-th sample of a *)
(* block that is kept is the one that brings it to j times the factor.      *)

Decimated_PerBlock(d, xs) ==
    [j \in 1 .. (Len(xs) \div d.factor) |-> xs[j * d.factor]]
Decimated(d, xs) ==
    [j \in 1 .. ((d.counter + Len(xs)) \div d.factor) |-> xs[j * d.factor - d.counter]]

-----------------------------------------------------------------------------
(* The channel filter. One sample at a time: the delay line is a ring, and  *)
(* the taps read it backwards from the newest sample.                       *)

Feed(f, x) ==
    LET l == Len(f.delay)
    IN [f EXCEPT !.delay[f.pos] = x, !.pos = (f.pos % l) + 1]

Backwards(f, x) ==
    LET l == Len(f.delay)
        d == [f.delay EXCEPT ![f.pos] = x]
    IN [i \in 1 .. l |-> d[((f.pos - i) % l) + 1]]

OneByOne(f, xs) ==
    LET run[k \in 0 .. Len(xs)] == IF k = 0 THEN f ELSE Feed(run[k - 1], xs[k])
    IN [fir |-> run[Len(xs)],
        out |-> [k \in 1 .. Len(xs) |-> Backwards(run[k - 1], xs[k])]]

(* A whole block by overlap-save: the ring becomes a history, oldest first, *)
(* that goes before each segment; afterwards the ring is filled again.      *)
Past_WithOldest(f) ==
    LET l == Len(f.delay)
    IN [j \in 1 .. (l - 1) |-> f.delay[((f.pos + j - 2) % l) + 1]]
Past(f) ==
    LET l == Len(f.delay)
    IN [j \in 1 .. (l - 1) |-> f.delay[((f.pos + j - 1) % l) + 1]]

\* fft_size_for_taps less the history is never shorter than the filter.
SegmentLen(l) == l

Segments(l, xs) ==
    LET s == SegmentLen(l)
    IN [i \in 1 .. ((Len(xs) + s - 1) \div s) |->
            SubSeq(xs, (i - 1) * s + 1, IF i * s < Len(xs) THEN i * s ELSE Len(xs))]

Segment(l, a, xs) ==
    LET scratch == a.past \o xs
    IN [past |-> Newest(l - 1, scratch),
        out |-> a.out \o [k \in 1 .. Len(xs) |-> Reverse(SubSeq(scratch, k, k + l - 1))]]

Reseed(l, past) == [delay |-> Append(past, 0), pos |-> l]

ByBlock(f, xs) ==
    LET l == Len(f.delay)
        segs == Segments(l, xs)
        done[k \in 0 .. Len(segs)] ==
            IF k = 0 THEN [past |-> Past(f), out |-> <<>>]
            ELSE Segment(l, done[k - 1], segs[k])
        last == done[Len(segs)]
    IN [fir |-> Reseed(l, last.past), out |-> last.out]

\* apply_channel_filter: a shifted passband is mixed sample by sample.
Convolve(f, xs) ==
    IF set.kind = "shifted" \/ Len(xs) < MinBlock THEN OneByOne(f, xs) ELSE ByBlock(f, xs)

InFir == set.kind \in {"fir", "shifted"}

-----------------------------------------------------------------------------
(* The lookahead gain control: the levels of the coming samples, and a      *)
(* delay line of the signal that waits for them.                            *)

Delay == IF set.ahead \div set.decim = 0 THEN 1 ELSE set.ahead \div set.decim

History == IF Delay # histLen THEN Zeros(Delay) ELSE hist
Waiting == IF Delay # lineLen THEN Zeros(Delay) ELSE line

Looked_Late(xs, i) == SubSeq(History \o xs, i + 1, i + Delay)
Looked(xs, i) == SubSeq(History \o xs, i, i + Delay)

KeepLevels(xs) ==
    IF set.lookahead /\ xs # <<>>
    THEN hist' = Newest(Delay, History \o xs) /\ histLen' = Delay
    ELSE UNCHANGED <<hist, histLen>>

KeepSignal(xs) ==
    IF set.lookahead
    THEN line' = Newest(Delay, Waiting \o xs) /\ lineLen' = Delay
    ELSE line' = <<>> /\ lineLen' = 0

\* The sample that leaves the stage as the i-th of the block.
Delayed(xs, i) == IF set.lookahead THEN (Waiting \o xs)[i] ELSE xs[i]

-----------------------------------------------------------------------------
(* The detector: sliding sums over rings whose length follows the mode and  *)
(* the estimated speed. A resized ring keeps its newest samples.            *)

OldestFirst(r) == [i \in 1 .. Len(r.buf) |-> r.buf[((r.pos + i - 2) % Len(r.buf)) + 1]]

Resized(r, len) ==
    LET all == Zeros(len) \o OldestFirst(r)
        buf == Newest(len, all)
    IN IF len = r.len THEN r
       ELSE IF Len(r.buf) = len THEN [r EXCEPT !.len = len]
       ELSE [buf |-> buf, pos |-> 1, sum |-> Total(buf), len |-> len]

Pushed_SumKept(r, x) ==
    IF r.len <= 1 THEN r
    ELSE [r EXCEPT !.buf[r.pos] = x, !.sum = @ + x, !.pos = (@ % r.len) + 1]
Pushed(r, x) ==
    IF r.len <= 1 THEN r
    ELSE [r EXCEPT !.buf[r.pos] = x, !.sum = @ - r.buf[r.pos] + x,
                   !.pos = (@ % r.len) + 1]

Detected(r, len, xs) ==
    LET ring[k \in 0 .. Len(xs)] ==
            IF k = 0 THEN Resized(r, len) ELSE Pushed(ring[k - 1], xs[k])
    IN IF xs = <<>> THEN r ELSE ring[Len(xs)]

CohLen(dit) == CASE set.mode = "product" -> 1
                 [] set.mode = "coherent" -> CoherentLen
                 [] set.mode = "matched" -> dit
PowLen(dit) == IF set.mode = "matched" THEN dit ELSE 1

\* CwDetector::reset_state keeps the lengths.
ResetRing(r) == [r EXCEPT !.buf = Zeros(Len(r.buf)), !.pos = 1, !.sum = 0]

-----------------------------------------------------------------------------
(* process: sync_chain and then every stage, on one block.                  *)

Rebuilt == set.decim # dec.factor

\* The channel filter is designed anew when its design, or the rate, changed
\* and it is in use for this block.
Redesign == set.kind # "iir" /\ (Rebuilt \/ design # set.taps)

Process ==
    \E m \in 1 .. MaxBlock, dit \in Dits :
        LET d0 == IF Rebuilt THEN [factor |-> set.decim, counter |-> 0] ELSE dec
            f0 == IF Redesign THEN NewFir(set.taps) ELSE fir
            fed0 == IF Redesign THEN {} ELSE fed
            r0 == IF Rebuilt THEN ResetRing(coh) ELSE coh
            p0 == IF Rebuilt THEN ResetRing(pow) ELSE pow
            block == [i \in 1 .. m |-> n + i]
            xs == Decimated(d0, block)
            conv == Convolve(f0, xs)
            ys == [i \in 1 .. Len(xs) |-> Delayed(xs, i)]
        IN /\ n + m <= MaxIn
           /\ set.mode # "matched" => dit = CHOOSE x \in Dits : TRUE
           /\ n' = n + m
           /\ dec' = [d0 EXCEPT !.counter = IF d0.factor = 1 THEN @ ELSE (@ + m) % d0.factor]
           /\ base' = IF Rebuilt THEN n ELSE base
           /\ emitted' = emitted \cup ToSet(xs)
           /\ fir' = IF InFir THEN conv.fir ELSE f0
           /\ fed' = IF InFir THEN fed0 \cup ToSet(xs) ELSE fed0
           /\ design' = IF Redesign THEN set.taps ELSE IF Rebuilt THEN 0 ELSE design
           /\ KeepLevels(xs) /\ KeepSignal(xs)
           /\ coh' = Detected(r0, CohLen(dit), ys)
           /\ pow' = Detected(p0, PowLen(dit), ys)
           /\ heard' = [i \in 1 .. Len(xs) |->
                  [in |-> xs[i], out |-> ys[i],
                   conv |-> IF InFir THEN conv.out[i] ELSE <<>>,
                   looked |-> IF set.lookahead THEN Looked(xs, i) ELSE <<>>]]
    /\ UNCHANGED <<set, changes>>

\* The user changes a setting between two blocks.
Change ==
    /\ changes < MaxChange /\ n < MaxIn
    /\ changes' = changes + 1
    /\ \/ \E v \in Factors \ {set.decim} : set' = [set EXCEPT !.decim = v]
       \/ \E v \in {"fir", "shifted", "iir", "off"} \ {set.kind} :
              set' = [set EXCEPT !.kind = v]
       \/ \E v \in Taps \ {set.taps} : set' = [set EXCEPT !.taps = v]
       \/ set' = [set EXCEPT !.lookahead = ~@]
       \/ \E v \in Aheads \ {set.ahead} : set' = [set EXCEPT !.ahead = v]
       \/ \E v \in {"product", "coherent", "matched"} \ {set.mode} :
              set' = [set EXCEPT !.mode = v]
    /\ UNCHANGED <<n, dec, filters, gains, coh, pow, heard, base, emitted>>

Next == Process \/ Change

Spec == Init /\ [][Next]_vars

-----------------------------------------------------------------------------
(* Properties.                                                              *)

RingOK(r) ==
    /\ r.len \in Nat \ {0} /\ r.pos \in 1 .. r.len
    /\ Len(r.buf) = r.len \/ (r.buf = <<>> /\ r.len = 1)

(* The places of the rings and lines stay in them, whatever is resized.     *)
TypeOK ==
    /\ set \in Settings /\ n \in 0 .. MaxIn
    /\ dec.factor \in Factors /\ dec.counter \in 0 .. (dec.factor - 1)
    /\ fir.pos \in 1 .. Len(fir.delay) /\ design \in Taps \cup {0}
    /\ Len(hist) = histLen /\ Len(line) = lineLen
    /\ RingOK(coh) /\ RingOK(pow)

(* How the input is cut into blocks does not matter to which samples are    *)
(* kept: every factor-th since the decimator was built (decimator.rs:81).   *)
EvenlyDecimated ==
    \A k \in (base + 1) .. n : k \in emitted <=> (k - base) % dec.factor = 0

(* Nor does it matter to the channel filter, whichever way each block was   *)
(* convolved: an output sees exactly the newest samples that entered the    *)
(* filter since it was designed, newest first, and silence before them      *)
(* ("carries delay state across calls", fir.rs:100).                        *)
LastFed(k, l) ==
    LET upTo == {x \in fed : x <= k}
        newest(i) == {x \in upTo : \E s \in SUBSET upTo :
                          s = {y \in upTo : y >= x} /\ Cardinality(s) = i}
    IN [i \in 1 .. l |-> IF newest(i) = {} THEN 0 ELSE CHOOSE x \in newest(i) : TRUE]

FilterIsStreaming ==
    \A i \in DOMAIN heard :
        heard[i].conv # <<>> =>
            heard[i].conv = LastFed(heard[i].in, Len(fir.delay))

(* A gain lands on the sample whose forward window produced it: the window  *)
(* begins with that sample and misses none up to the newest, across blocks  *)
(* and after every change of mode, time or rate (agc.rs:164,                *)
(* channel.rs:489).                                                         *)
GainLandsOnItsSample ==
    \A i \in DOMAIN heard :
        LET h == heard[i] IN
        h.looked # <<>> /\ h.out # 0 =>
            /\ h.looked[1] = h.out
            /\ ToSet(h.looked) = {x \in emitted : h.out <= x /\ x <= h.in}

(* The running sum is the sum of the ring, and the ring holds samples in    *)
(* the order they came, up to the newest, through every resize              *)
(* (cw_detector.rs:86).                                                     *)
IntegratorKeepsOrder ==
    \A r \in {coh, pow} :
        LET s == OldestFirst(r) IN
        /\ r.buf # <<>> => r.sum = Total(r.buf)
        /\ \A i, j \in DOMAIN s : i < j /\ s[i] # 0 /\ s[j] # 0 => s[i] < s[j]
        /\ r.len > 1 /\ heard # <<>> => s[Len(s)] = heard[Len(heard)].out
=============================================================================
