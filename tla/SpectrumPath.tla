----------------------------- MODULE SpectrumPath -----------------------------
(***************************************************************************)
(* How the samples reach the waterfall: the bridge thread with its two     *)
(* rings (source/iq_bridge.rs), the part of a pump that chooses what the   *)
(* spectrum sees (engine/inner/pump.rs, engine/inner/spectrum.rs), and the *)
(* analyzer's circular buffer with its row cap and its reset               *)
(* (src/dsp/spectrum.rs).  A narrow source has one ring, a wideband one    *)
(* (ingress_decim > 1) has two.  Nothing is recorded or played here        *)
(* (IqPump), and the rows' way to the screen is in WaterfallView.          *)
(***************************************************************************)
EXTENDS Integers, Sequences

CONSTANTS
    Decim,      \* iq_ingress_decim of the wideband source
    Chunk,      \* BRIDGE_CHUNK
    RawCap,     \* slots of Connection::iq
    DecimCap,   \* slots of Connection::iq_spectrum
    DrainCap,   \* max_drain
    TailMax,    \* demod_tail_max: what the listener hears of a batch
    N,          \* FFT size
    Hop,        \* spectrum_hop
    Pending,    \* MAX_PENDING_FRAMES
    RowCaps,    \* what adaptive_spectrum_rows may answer
    MaxSample   \* bound: samples the device delivers

ASSUME SizeAssumption ==
    /\ Decim \in Nat /\ Decim > 1
    /\ Chunk \in Nat \ {0}
    /\ RawCap \in Nat \ {0}
    /\ DecimCap \in Nat \ {0}
    /\ DrainCap \in Nat \ {0}
    /\ TailMax \in Nat \ {0}
ASSUME WindowAssumption ==
    /\ N \in Nat \ {0}
    /\ Hop \in 1..N
    /\ Pending \in Nat
    /\ RowCaps \subseteq Nat \ {0} /\ RowCaps # {}
    /\ MaxSample \in Nat

(* A sample is known by its number at the device; a decimated one by the   *)
(* number of the last sample it was made from.                             *)
Raw(i) == [kind |-> "raw", at |-> i]
Dec(i) == [kind |-> "dec", at |-> i]
Item == [kind : {"raw", "dec"}, at : 1..MaxSample]

Cap == N + Hop * Pending

VARIABLES
    dual,       \* Connection::dual_ring_active
    (* The device and the bridge thread. *)
    produced,   \* samples that have left the device's ring
    left,       \* what the bridge still has to push, raw then decimated
    iq,         \* Connection::iq
    iqDecim,    \* Connection::iq_spectrum
    overflow,   \* items that found their ring full
    (* The engine. *)
    epc,        \* "loop", "drain", "decim", "slice", "push" or "emit"
    full,       \* EngineParams::full_drain_spectrum in this pump
    drain,      \* Engine::drain
    drainDecim, \* Engine::drain_decim
    skipped,    \* items dropped to catch up
    feed,       \* what the analyzer has not taken yet
    rowsLeft,   \* rows this pump may still emit
    (* The analyzer: SampleRing and the last row. *)
    data, head, count, dropped,
    row

bridgeVars == <<produced, left, iqDecim, overflow>>
ringVars == <<data, head, count, dropped, row>>
vars == <<dual, bridgeVars, iq, epc, full, drain, drainDecim, skipped, feed,
          rowsLeft, ringVars>>

Blank == [kind |-> "blank", at |-> 0]

TypeOK ==
    /\ dual \in BOOLEAN
    /\ produced \in 0..MaxSample
    /\ left \in Seq(Item)
    /\ iq \in Seq(Item) /\ Len(iq) <= RawCap
    /\ iqDecim \in Seq(Item) /\ Len(iqDecim) <= DecimCap
    /\ overflow \subseteq Item
    /\ epc \in {"loop", "drain", "decim", "slice", "push", "emit"}
    /\ full \in BOOLEAN
    /\ drain \in Seq(Item) /\ Len(drain) <= DrainCap
    /\ drainDecim \in Seq(Item)
    /\ skipped \subseteq Item
    /\ feed \in Seq(Item)
    /\ rowsLeft \in Nat
    /\ data \in [0..(Cap - 1) -> Item \cup {Blank}]
    /\ head \in 0..(Cap - 1)
    /\ count \in 0..Cap
    /\ dropped \in Nat
    /\ row \in Seq(Item)

Init ==
    /\ dual \in BOOLEAN
    /\ produced = 0 /\ left = <<>>
    /\ iq = <<>> /\ iqDecim = <<>> /\ overflow = {}
    /\ epc = "loop" /\ full = FALSE
    /\ drain = <<>> /\ drainDecim = <<>> /\ skipped = {}
    /\ feed = <<>> /\ rowsLeft = 0
    /\ data = [i \in 0..(Cap - 1) |-> Blank] /\ head = 0 /\ count = 0
    /\ dropped = 0 /\ row = <<>>
-----------------------------------------------------------------------------
(* The device, and the bridge between it and the engine. *)

Push(ring, cap, x, ring_) ==
    IF Len(ring) < cap
    THEN ring_ = Append(ring, x) /\ UNCHANGED overflow
    ELSE overflow' = overflow \cup {x} /\ ring_ = ring

(* Without a bridge the driver pushes into Connection::iq itself. *)
Deliver ==
    /\ ~dual
    /\ produced < MaxSample
    /\ produced' = produced + 1
    /\ Push(iq, RawCap, Raw(produced'), iq')
    /\ UNCHANGED <<dual, left, iqDecim, epc, full, drain, drainDecim, skipped,
                   feed, rowsLeft, ringVars>>

(* The samples of a chunk, and what decimate_block makes of them: the      *)
(* decimator keeps its phase from chunk to chunk.                          *)
Decimated(from, n) ==
    LET first == from \div Decim
    IN  [k \in 1..(((from + n) \div Decim) - first) |-> Dec((first + k) * Decim)]

BridgeTake ==
    /\ dual
    /\ left = <<>>
    /\ \E n \in 1..Chunk :
        /\ produced + n <= MaxSample
        /\ produced' = produced + n
        /\ left' = [k \in 1..n |-> Raw(produced + k)] \o Decimated(produced, n)
    /\ UNCHANGED <<dual, iq, iqDecim, overflow, epc, full, drain, drainDecim,
                   skipped, feed, rowsLeft, ringVars>>

BridgePush ==
    /\ left # <<>>
    /\ left' = Tail(left)
    /\ IF Head(left).kind = "raw"
       THEN Push(iq, RawCap, Head(left), iq') /\ UNCHANGED iqDecim
       ELSE Push(iqDecim, DecimCap, Head(left), iqDecim') /\ UNCHANGED iq
    /\ UNCHANGED <<dual, produced, epc, full, drain, drainDecim, skipped,
                   feed, rowsLeft, ringVars>>
-----------------------------------------------------------------------------
(* pump_stream *)

Items(s) == {s[k] : k \in 1..Len(s)}
First(s, n) == SubSeq(s, 1, n)
Rest(s, n) == SubSeq(s, n + 1, Len(s))
Last_(s, n) == SubSeq(s, Len(s) - n + 1, Len(s))
AtMost(a, b) == IF a <= b THEN a ELSE b
AtLeast(a, b) == IF a >= b THEN a ELSE b

(* ring_catchup_target_slots: at 55% of the ring, down to 25%. *)
CatchUpTo(slots) == IF 100 * slots >= 55 * RawCap THEN RawCap \div 4 ELSE slots

PumpStart ==
    /\ epc = "loop"
    /\ full' \in BOOLEAN
    /\ LET n == Len(iq) - AtMost(Len(iq), CatchUpTo(Len(iq)))
       IN  /\ skipped' = skipped \cup Items(First(iq, n))
           /\ iq' = Rest(iq, n)
    /\ epc' = "drain"
    /\ UNCHANGED <<dual, bridgeVars, drain, drainDecim, feed, rowsLeft, ringVars>>

(* Nothing to drain (`got == 0'): the decimated ring is left alone. *)
PumpDrain ==
    /\ epc = "drain"
    /\ LET n == AtMost(Len(iq), DrainCap)
       IN  /\ drain' = First(iq, n)
           /\ iq' = Rest(iq, n)
           /\ epc' = IF n = 0 THEN "loop" ELSE IF dual THEN "decim" ELSE "slice"
    /\ UNCHANGED <<dual, bridgeVars, full, drainDecim, skipped, feed, rowsLeft,
                   ringVars>>

Want(got) == AtLeast(got \div Decim, 1) + Hop

PumpDecim ==
    /\ epc = "decim"
    /\ LET n == AtMost(Len(iqDecim), Want(Len(drain)))
       IN  /\ drainDecim' = First(iqDecim, n)
           /\ iqDecim' = Rest(iqDecim, n)
    /\ epc' = "slice"
    /\ UNCHANGED <<dual, produced, left, overflow, iq, full, drain, skipped,
                   feed, rowsLeft, ringVars>>

(* ingress_base: the decimated samples, and the raw ones when there are none. *)
Base == IF dual /\ drainDecim # <<>> THEN drainDecim ELSE drain

(* spectrum_aligned_len *)
AlignedLen ==
    LET heard == AtMost(Len(drain), TailMax)
    IN  AtMost(IF dual THEN AtLeast(heard \div Decim, 1) ELSE heard, Len(Base))

SliceLen == IF full THEN Len(Base) ELSE AlignedLen

(* A plausible slip: the analyzer is not told that the stream jumped. *)
PumpSlice_NoReset ==
    /\ epc = "slice"
    /\ feed' = Last_(Base, SliceLen)
    /\ UNCHANGED <<head, count>>
    /\ rowsLeft' \in RowCaps
    /\ drain' = <<>>
    /\ epc' = "push"
    /\ UNCHANGED <<dual, bridgeVars, iq, full, drainDecim, skipped, data,
                   dropped, row>>

(* spectrum_fft_slice; a head that is cut off resets the analyzer. *)
PumpSlice ==
    /\ epc = "slice"
    /\ feed' = Last_(Base, SliceLen)
    /\ IF SliceLen < Len(Base) THEN head' = 0 /\ count' = 0
                               ELSE UNCHANGED <<head, count>>
    /\ rowsLeft' \in RowCaps
    /\ drain' = <<>>
    /\ epc' = "push"
    /\ UNCHANGED <<dual, bridgeVars, iq, full, drainDecim, skipped, data,
                   dropped, row>>
-----------------------------------------------------------------------------
(* SpectrumAnalyzer::process_limited: after each sample, as many rows as   *)
(* the cap and the samples allow.                                          *)
NextStep(rows, cnt, todo) ==
    IF rows > 0 /\ cnt >= N THEN "emit" ELSE IF todo = <<>> THEN "loop" ELSE "push"

(* A plausible slip: the oldest sample is overwritten in place, and stays  *)
(* the head of the ring.                                                   *)
AnalyzerPush_HeadStays ==
    /\ epc = "push"
    /\ LET x == Head(feed)
       IN  IF count < Cap
           THEN /\ data' = [data EXCEPT ![(head + count) % Cap] = x]
                /\ count' = count + 1
                /\ UNCHANGED <<head, dropped>>
           ELSE /\ data' = [data EXCEPT ![head] = x]
                /\ dropped' = dropped + 1
                /\ UNCHANGED <<head, count>>
    /\ feed' = Tail(feed)
    /\ epc' = NextStep(rowsLeft, count', feed')
    /\ UNCHANGED <<dual, bridgeVars, iq, full, drain, drainDecim, skipped,
                   rowsLeft, row>>

AnalyzerPush ==
    /\ epc = "push"
    /\ LET x == Head(feed)
       IN  IF count < Cap
           THEN /\ data' = [data EXCEPT ![(head + count) % Cap] = x]
                /\ count' = count + 1
                /\ UNCHANGED <<head, dropped>>
           ELSE /\ data' = [data EXCEPT ![head] = x]
                /\ head' = (head + 1) % Cap
                /\ dropped' = dropped + 1
                /\ UNCHANGED count
    /\ feed' = Tail(feed)
    /\ epc' = NextStep(rowsLeft, count', feed')
    /\ UNCHANGED <<dual, bridgeVars, iq, full, drain, drainDecim, skipped,
                   rowsLeft, row>>

(* emit_row; SampleRing::advance *)
AnalyzerEmit ==
    /\ epc = "emit"
    /\ row' = [i \in 1..N |-> data[(head + i - 1) % Cap]]
    /\ head' = (head + AtMost(Hop, count)) % Cap
    /\ count' = count - AtMost(Hop, count)
    /\ rowsLeft' = rowsLeft - 1
    /\ epc' = NextStep(rowsLeft', count', feed)
    /\ UNCHANGED <<dual, bridgeVars, iq, full, drain, drainDecim, skipped,
                   feed, data, dropped>>
-----------------------------------------------------------------------------
Next ==
    \/ Deliver \/ BridgeTake \/ BridgePush
    \/ PumpStart \/ PumpDrain \/ PumpDecim \/ PumpSlice
    \/ AnalyzerPush \/ AnalyzerEmit

Spec == Init /\ [][Next]_vars
-----------------------------------------------------------------------------
(* The samples that wait in the ring, oldest first. *)
Waiting == [i \in 1..count |-> data[(head + i - 1) % Cap]]

(* What its stream has between a and b. *)
Between(a, b) ==
    {x \in Item : /\ x.kind = a.kind
                  /\ a.at < x.at /\ x.at < b.at
                  /\ x.kind = "dec" => x.at % Decim = 0}

(* The samples of a row are in the order of their stream, and nothing is   *)
(* missing between two neighbours but these.                               *)
JumpsOnlyOver(gone) ==
    \A i \in 1..(Len(row) - 1) :
        row[i].kind = row[i + 1].kind =>
            /\ row[i].at < row[i + 1].at
            /\ Between(row[i], row[i + 1]) \subseteq gone

(* Samples the spectrum chose not to look at never leave a seam inside a   *)
(* window: whatever is missing between two neighbours of a row was lost on *)
(* the way (a full ring) or dropped by the catch-up, never cut off by      *)
(* spectrum_fft_slice, put off by the row cap or lost by the decimator     *)
(* between two chunks (spectrum.rs:41-68 and pump.rs:299-309).             *)
GapsAreLosses == JumpsOnlyOver(overflow \cup skipped)

(* What SpectrumAnalyzer::reset asks for: no window spans samples that     *)
(* were dropped to catch up.                                               *)
NoSplice == JumpsOnlyOver(overflow)

(* With two rings the spectrum sees the decimated samples only.            *)
SpectrumIsDecimated == dual => \A i \in 1..Len(row) : row[i].kind = "dec"

(* SampleRing and process_limited, with their circular buffer, row cap and *)
(* drop of the oldest, implement the sliding window of SlidingWindow.      *)
Window == INSTANCE SlidingWindow WITH waiting <- Waiting
RefinesWindow == Window!Spec
=============================================================================
