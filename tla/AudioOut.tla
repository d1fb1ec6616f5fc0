------------------------------- MODULE AudioOut -------------------------------
(***************************************************************************)
(* The speaker output (bin/waterfall/audio): the engine's push resamples a *)
(* block of demodulated audio onto the clock of the output, and            *)
(* skip_seconds throws away what was queued before samples were dropped    *)
(* from a receiver's ring.  On the desktop (cpal) the queue is a ring and  *)
(* the audio callback takes from it while push runs; in a browser (web) it *)
(* belongs to a worklet that is reached by messages, and that reports its  *)
(* depth back.  An output sample is the place in the source it was         *)
(* interpolated at, in parts of a source sample; its value and the volume  *)
(* are left out, and the drift servo is any of its steps.                  *)
(***************************************************************************)
EXTENDS Integers, Sequences

CONSTANTS
    Backends,    \* the kinds of output of an instance
    Unit,        \* parts of a source sample
    Steps,       \* servo_step: parts from one output sample to the next
    Nominal,     \* the step of equal clocks
    RingCap,     \* RING_CAPACITY
    Quantum,     \* samples the worklet plays at a time
    MaxBlock,    \* samples of a block at most
    MaxGap,      \* samples a catch-up drops at most
    MaxSource,   \* bound: source samples, dropped ones included
    MaxPort      \* bound: messages on their way, each direction

ASSUME AudioAssumption ==
    /\ Backends \subseteq {"cpal", "web"} /\ Backends # {}
    /\ Unit \in Nat \ {0}
    /\ Steps \subseteq Nat \ {0} /\ Nominal \in Steps
    /\ RingCap \in Nat \ {0} /\ Quantum \in Nat \ {0}
    /\ MaxBlock \in Nat \ {0} /\ MaxGap \in Nat
    /\ MaxSource \in Nat /\ MaxPort \in Nat

VARIABLES
    be,         \* which output
    (* push and skip_seconds. *)
    epc,        \* "idle", "push" or "skip"
    src,        \* source samples so far
    len,        \* samples of this block
    pos,        \* resample_pos, in parts
    step,       \* of this push
    gap,        \* source samples dropped before this block
    out,        \* web: the block for one postMessage
    (* The ring of cpal. *)
    ring,       \* its samples, oldest first
    skip,       \* skip_samples
    cpc,        \* the callback: "idle" or "drain"
    rem,        \* what it swapped out of skip
    (* The worklet of web and the messages to and from it. *)
    node,       \* "pending" until addModule resolves, then "ready"
    running,    \* the AudioContext is not suspended
    port,       \* messages to the worklet
    back,       \* its reports
    buffered,   \* the last report read
    alive,      \* this AudioOutput has not been dropped
    attached,   \* the port has our closure
    (* History. *)
    asked,      \* samples skip_seconds asked to skip
    posted,     \* of those, in a message on its way
    discarded,  \* samples skipped
    freshFrom,  \* where the source goes on after the last gap
    wasted,     \* a sample from after that gap was skipped
    seam,       \* the next output sample follows a break
    seams       \* the output samples that follow a break

pushVars == <<epc, src, len, pos, step, gap, out>>
portVars == <<node, running, port, back, buffered, alive, attached>>
histVars == <<asked, posted, discarded, freshFrom, wasted, seam, seams>>
vars == <<be, pushVars, ring, skip, cpc, rem, portVars, histVars>>

Samples == [kind : {"samples"}, data : Seq(Int)]
Skip == [kind : {"skip"}, n : Nat]

TypeOK ==
    /\ be \in {"cpal", "web"}
    /\ epc \in {"idle", "push", "skip"}
    /\ src \in 0..MaxSource /\ len \in 0..MaxBlock /\ gap \in 0..MaxGap
    /\ pos \in Int /\ pos >= -Unit /\ step \in Steps
    /\ out \in Seq(Int) /\ Len(out) <= RingCap
    /\ ring \in Seq(Int) /\ (be = "cpal" => Len(ring) <= RingCap)
    /\ skip \in Nat /\ rem \in Nat /\ cpc \in {"idle", "drain"}
    /\ node \in {"pending", "ready"} /\ running \in BOOLEAN
    /\ port \in Seq(Samples \cup Skip) /\ back \in Seq(Nat)
    /\ buffered \in Nat
    /\ alive \in BOOLEAN /\ attached \in BOOLEAN
    /\ asked \in Nat /\ posted \in Int /\ discarded \in Nat
    /\ freshFrom \in Int /\ wasted \in BOOLEAN
    /\ seam \in BOOLEAN /\ seams \subseteq Int

Init ==
    /\ be \in Backends
    /\ epc = "idle" /\ src = 0 /\ len = 0 /\ pos = 0 /\ step = Nominal /\ gap = 0
    /\ out = <<>> /\ ring = <<>> /\ skip = 0 /\ cpc = "idle" /\ rem = 0
    /\ node = IF be = "web" THEN "pending" ELSE "ready"
    /\ running = (be = "cpal")
    /\ port = <<>> /\ back = <<>> /\ buffered = 0
    /\ alive = TRUE /\ attached = FALSE
    /\ asked = 0 /\ posted = 0 /\ discarded = 0 /\ freshFrom = 0 /\ wasted = FALSE
    /\ seam = TRUE /\ seams = {}

AtLeast(a, b) == IF a >= b THEN a ELSE b
-----------------------------------------------------------------------------
(* The engine: pump_stream catches up with the receiver, pushes the block  *)
(* and skips as long as it dropped.                                        *)

(* g samples were dropped from the receiver's ring, u by the demodulator's *)
(* own limit, which nobody skips for; a block of n follows.                *)
NextBlock(g, u, n) ==
    /\ alive /\ epc = "idle"
    /\ src + g + u + n <= MaxSource
    /\ src' = src + g + u + n
    /\ gap' = g
    /\ freshFrom' = IF g > 0 THEN (src + g) * Unit ELSE freshFrom
    /\ len' = n
    /\ out' = <<>>
    /\ UNCHANGED <<be, pos, ring, skip, cpc, rem, portVars, asked, posted,
                   discarded, wasted, seams>>

PushBegin ==
    \E g, u \in 0..MaxGap, n \in 1..MaxBlock :
        /\ NextBlock(g, u, n)
        /\ step' \in Steps
        /\ seam' = (seam \/ g + u > 0)
        /\ epc' = "push"

(* With audio off, the volume at zero or an empty block: no push, and the  *)
(* phase stays as it was.                                                  *)
PushMuted ==
    \E g, u \in 0..MaxGap, n \in 0..MaxBlock :
        /\ NextBlock(g, u, n)
        /\ seam' = TRUE
        /\ epc' = "skip"
        /\ UNCHANGED step

Limit == (len - 1) * Unit
Place == (src - len) * Unit + pos      \* of the sample at pos in the source
Full == IF be = "cpal" THEN Len(ring) >= RingCap
        ELSE Len(out) >= AtLeast(RingCap - buffered, 1)

(* resample_push, sample by sample: the callback runs meanwhile. *)
PushSample ==
    /\ epc = "push"
    /\ pos < Limit /\ ~Full
    /\ IF be = "cpal" THEN ring' = Append(ring, Place) /\ UNCHANGED out
                      ELSE out' = Append(out, Place) /\ UNCHANGED ring
    /\ pos' = pos + step
    /\ seams' = IF seam THEN seams \cup {Place} ELSE seams
    /\ seam' = FALSE
    /\ UNCHANGED <<be, epc, src, len, step, gap, skip, cpc, rem, portVars, asked,
                   posted, discarded, freshFrom, wasted>>

(* A plausible slip: every block starts anew. *)
Carried_Reset == 0

(* The phase is carried over; what a full ring had no place for is lost. *)
Carried == AtLeast(pos - len * Unit, -Unit)

PushEnd ==
    /\ epc = "push"
    /\ pos >= Limit \/ Full
    /\ Len(port) < MaxPort
    /\ pos' = Carried
    /\ port' = IF out # <<>> /\ node = "ready"
               THEN Append(port, [kind |-> "samples", data |-> out]) ELSE port
    /\ seam' = (seam \/ pos < Limit \/ (out # <<>> /\ node = "pending"))
    /\ epc' = "skip"
    /\ UNCHANGED <<be, src, len, step, gap, out, ring, skip, cpc, rem, node, running,
                   back, buffered, alive, attached, asked, posted, discarded,
                   freshFrom, wasted, seams>>

(* As long as the samples that were dropped would have played. *)
SkipSeconds ==
    /\ epc = "skip"
    /\ Len(port) < MaxPort
    /\ LET n == (gap * Unit) \div Nominal
       IN  IF be = "cpal"
           THEN /\ skip' = skip + n
                /\ asked' = asked + n
                /\ UNCHANGED <<port, posted>>
           ELSE /\ IF n > 0 /\ node = "ready"
                   THEN /\ port' = Append(port, [kind |-> "skip", n |-> n])
                        /\ asked' = asked + n
                        /\ posted' = posted + n
                   ELSE UNCHANGED <<port, asked, posted>>
                /\ UNCHANGED skip
    /\ epc' = "idle"
    /\ UNCHANGED <<be, src, len, pos, step, gap, out, ring, cpc, rem, node, running,
                   back, buffered, alive, attached, discarded, freshFrom, wasted,
                   seam, seams>>
-----------------------------------------------------------------------------
(* The callback of cpal: next_output_sample. *)

CbSwap ==
    /\ be = "cpal" /\ cpc = "idle"
    /\ rem' = skip
    /\ skip' = 0
    /\ cpc' = "drain"
    /\ UNCHANGED <<be, pushVars, ring, portVars, histVars>>

(* The first k samples of the queue are thrown away. *)
Discard(k) ==
    /\ discarded' = discarded + k
    /\ wasted' = (wasted \/ \E i \in 1..k : ring[i] >= freshFrom)
    /\ UNCHANGED <<asked, posted, freshFrom, seam, seams>>

CbDrain ==
    /\ cpc = "drain"
    /\ rem > 0 /\ ring # <<>>
    /\ ring' = Tail(ring)
    /\ rem' = rem - 1
    /\ Discard(1)
    /\ UNCHANGED <<be, pushVars, skip, cpc, portVars>>

(* A plausible slip: the rest is stored back, over what was added since. *)
CbGiveBack_Store ==
    /\ cpc = "drain"
    /\ rem > 0 /\ ring = <<>>
    /\ skip' = rem
    /\ rem' = 0
    /\ cpc' = "idle"
    /\ UNCHANGED <<be, pushVars, ring, portVars, histVars>>

(* The ring is empty: silence, and the rest of the budget goes back. *)
CbGiveBack ==
    /\ cpc = "drain"
    /\ rem > 0 /\ ring = <<>>
    /\ skip' = skip + rem
    /\ rem' = 0
    /\ cpc' = "idle"
    /\ UNCHANGED <<be, pushVars, ring, portVars, histVars>>

(* A sample, or silence when there is none. *)
CbPlay ==
    /\ cpc = "drain"
    /\ rem = 0
    /\ ring' = IF ring = <<>> THEN ring ELSE Tail(ring)
    /\ cpc' = "idle"
    /\ UNCHANGED <<be, pushVars, skip, rem, portVars, histVars>>
-----------------------------------------------------------------------------
(* The worklet of web: its queue is ring, its budget skip. *)

WorkletMessage ==
    /\ port # <<>>
    /\ port' = Tail(port)
    /\ IF Head(port).kind = "samples"
       THEN ring' = ring \o Head(port).data /\ UNCHANGED <<skip, posted>>
       ELSE /\ skip' = skip + Head(port).n
            /\ posted' = posted - Head(port).n
            /\ UNCHANGED ring
    /\ UNCHANGED <<be, pushVars, cpc, rem, node, running, back, buffered, alive,
                   attached, asked, discarded, freshFrom, wasted, seam, seams>>

AtMost(a, b) == IF a <= b THEN a ELSE b
Beyond(s, k) == SubSeq(s, AtMost(k, Len(s)) + 1, Len(s))

(* One process(): it skips, then plays a quantum; every 8th one reports. *)
WorkletProcess ==
    /\ be = "web" /\ running /\ node = "ready"
    /\ LET k == AtMost(skip, Len(ring))
       IN  /\ ring' = Beyond(Beyond(ring, k), Quantum)
           /\ skip' = skip - k
           /\ Discard(k)
    /\ back' \in {back} \cup (IF Len(back) < MaxPort THEN {Append(back, Len(ring'))}
                                                     ELSE {})
    /\ UNCHANGED <<be, pushVars, cpc, rem, node, running, port, buffered, alive,
                   attached>>

ReadReport ==
    /\ back # <<>> /\ epc = "idle"
    /\ back' = Tail(back)
    /\ buffered' = IF attached /\ alive THEN Head(back) ELSE buffered
    /\ UNCHANGED <<be, pushVars, ring, skip, cpc, rem, node, running, port, alive,
                   attached, histVars>>

(* addModule resolves; the output may be gone by then. *)
NodeReady ==
    /\ node = "pending" /\ epc = "idle"
    /\ node' = "ready"
    /\ attached' = TRUE
    /\ UNCHANGED <<be, pushVars, ring, skip, cpc, rem, running, port, back, buffered,
                   alive, histVars>>

(* The user's first gesture, or resume(). *)
Resume ==
    /\ ~running /\ alive
    /\ running' = TRUE
    /\ UNCHANGED <<be, pushVars, ring, skip, cpc, rem, node, port, back, buffered,
                   alive, attached, histVars>>

(* Drop for AudioOutput closes the port of a node that is there. *)
DropWeb ==
    /\ be = "web" /\ alive /\ epc = "idle"
    /\ alive' = FALSE
    /\ running' = FALSE
    /\ attached' = FALSE
    /\ UNCHANGED <<be, pushVars, ring, skip, cpc, rem, node, port, back, buffered,
                   histVars>>
-----------------------------------------------------------------------------
Push == PushBegin \/ PushMuted \/ PushSample \/ PushEnd \/ SkipSeconds
Callback == CbSwap \/ CbDrain \/ CbGiveBack \/ CbPlay
Worklet == WorkletMessage \/ WorkletProcess

Next == Push \/ Callback \/ Worklet \/ ReadReport \/ NodeReady \/ Resume \/ DropWeb

Spec == Init /\ [][Next]_vars
-----------------------------------------------------------------------------
(* Output samples follow each other in the order of the source, a step     *)
(* apart, across the blocks they were pushed in too; only an overflow, a   *)
(* gap, a muted block or a worklet that was not ready breaks the pace.     *)
InPace(s) ==
    \A i \in 1..(Len(s) - 1) :
        /\ s[i] < s[i + 1]
        /\ s[i + 1] - s[i] \in Steps \/ s[i + 1] \in seams
EvenlySpaced == InPace(ring) /\ InPace(out)

(* What skip_seconds asked for is skipped or still to be skipped, whatever *)
(* the callback and the engine do at the same time (fetch_add, swap); none *)
(* of it is lost and none is skipped twice.                                *)
SkipsAddUp == asked = discarded + skip + rem + posted

(* "dropping stale samples in one go resumes fresh audio immediately       *)
(* instead of muting for the skip duration" (audio/mod.rs): only samples   *)
(* from before the gap are skipped.                                        *)
FreshIsPlayed == ~wasted

(* "so audio starts live instead of replaying a backlog" (audio/web.rs):   *)
(* a context that starts to run has no more queued than the ring holds.    *)
StartsLive == ~running /\ be = "web" => Len(ring) <= RingCap

(* "Detach everything JS still holds before the closures behind it are     *)
(* freed" (audio/web.rs).                                                  *)
NoFreedClosure == ~alive => ~attached
=============================================================================
