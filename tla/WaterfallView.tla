---------------------------- MODULE WaterfallView ----------------------------
(***************************************************************************)
(* The rows' way from the engine to the screen: publish_rows pushes them   *)
(* into a bounded queue and then publishes a snapshot (engine/link.rs,     *)
(* engine/inner/pump.rs), the user interface takes the snapshot and then   *)
(* the rows once a frame (engine/handle.rs, app/methods/engine.rs), and    *)
(* paints them into a ring of Height lines, by the shader or by the        *)
(* processor (app/methods/plot).  The two sides never wait for each other. *)
(* The row buffers' way back (spent_rows, row_pool) decides only when      *)
(* memory is allocated and is left out; a row is its number and its width. *)
(***************************************************************************)
EXTENDS Integers, Sequences, FiniteSets

CONSTANTS
    Queue,       \* ROW_QUEUE
    Height,      \* WATERFALL_ROWS
    PerFrame,    \* waterfall_rows_per_frame
    PendingCap,  \* waterfall_pending_cap
    Widths,      \* FFT sizes the user may choose
    MaxBatch,    \* rows a pump emits at most
    MaxRow,      \* bound: rows made
    MaxChange    \* bound: changes of the FFT size

ASSUME ViewAssumption ==
    /\ Queue \in Nat \ {0}
    /\ Height \in Nat \ {0}
    /\ PerFrame \in Nat \ {0}
    /\ PendingCap \in Nat \ {0}
    /\ Widths \subseteq Nat \ {0} /\ Widths # {}
    /\ MaxBatch \in Nat /\ MaxRow \in Nat /\ MaxChange \in Nat

Row == [no : 1..MaxRow, width : Widths]
Trace == [no : 0..MaxRow, width : Widths]    \* 0: nothing transformed yet

VARIABLES
    (* The engine. *)
    epc,       \* "pump" or "push"
    latest,    \* Engine::latest
    out,       \* rows of this pump, not pushed yet
    made,      \* rows made so far
    (* Between the two sides. *)
    params,    \* the FFT size in the params cell
    queue,     \* rows_tx / rows_rx
    snap,      \* the spectrum in the snapshot cell
    dropped,   \* rows that found the queue full
    (* The user interface. *)
    wish,      \* display.fft_size, as the user set it
    changes,   \* how often it was changed
    upc,       \* "frame", "pop", "ingest" or "paint"
    held,      \* the snapshot of this frame
    taken,     \* the rows of this frame
    plot,      \* plot.latest
    rows,      \* plot.rows, newest first
    pending,   \* pending_viewport_row_appends
    dirty,     \* force_texture_full or textures_dirty
    (* The lines on the screen. *)
    gpu,       \* waterfall_gpu_active
    texture,   \* gpu_row_width: the width of its rows, 0 for none
    line,      \* the ring texture: which row each line shows, 0 for none
    top        \* viewport_row_head or gpu_row_head: the next line to write

engineVars == <<epc, latest, out, made>>
linkVars == <<params, queue, snap, dropped>>
frameVars == <<upc, held, taken, plot, rows, pending, dirty>>
screenVars == <<line, top>>
viewVars == <<engineVars, linkVars, wish, changes, frameVars, gpu, texture,
          screenVars>>

Lines == 0..(Height - 1)

ViewTypeOK ==
    /\ epc \in {"pump", "push"}
    /\ latest \in Trace /\ snap \in Trace /\ held \in Trace /\ plot \in Trace
    /\ out \in Seq(Row) /\ Len(out) <= MaxBatch
    /\ made \in 0..MaxRow
    /\ params \in Widths /\ wish \in Widths
    /\ queue \in Seq(Row) /\ Len(queue) <= Queue
    /\ dropped \subseteq 1..MaxRow
    /\ changes \in 0..MaxChange
    /\ upc \in {"frame", "pop", "ingest", "paint"}
    /\ taken \in Seq(Row)
    /\ rows \in Seq(Row) /\ Len(rows) <= Height
    /\ pending \in 0..PendingCap
    /\ dirty \in BOOLEAN /\ gpu \in BOOLEAN
    /\ texture \in Widths \cup {0}
    /\ line \in [Lines -> 0..MaxRow]
    /\ top \in Lines

ViewInit ==
    /\ wish \in Widths
    /\ params = wish
    /\ latest = [no |-> 0, width |-> wish]
    /\ snap = latest /\ held = latest /\ plot = latest
    /\ epc = "pump" /\ out = <<>> /\ made = 0
    /\ queue = <<>> /\ dropped = {}
    /\ changes = 0
    /\ upc = "frame" /\ taken = <<>> /\ rows = <<>>
    /\ pending = 0 /\ dirty = TRUE
    /\ gpu \in BOOLEAN /\ texture = 0
    /\ line = [y \in Lines |-> 0] /\ top = 0
-----------------------------------------------------------------------------
(* The engine: sync_spectrum_chain, process_limited, publish_rows. *)

(* A new FFT size starts a new spectrum; then n rows are made. *)
Made(n) == [k \in 1..n |-> [no |-> made + k, width |-> params]]

(* A plausible slip: the snapshot goes out before its rows. *)
PumpRows_SnapshotFirst ==
    /\ epc = "pump"
    /\ \E n \in 0..MaxBatch :
        /\ made + n <= MaxRow
        /\ out' = Made(n)
        /\ made' = made + n
        /\ latest' = IF n > 0 THEN Made(n)[n]
                     ELSE IF latest.width = params THEN latest
                     ELSE [no |-> 0, width |-> params]
    /\ snap' = latest'
    /\ epc' = "push"
    /\ UNCHANGED <<params, queue, dropped, wish, changes, frameVars, gpu,
                   texture, screenVars>>

PumpRows ==
    /\ epc = "pump"
    /\ \E n \in 0..MaxBatch :
        /\ made + n <= MaxRow
        /\ out' = Made(n)
        /\ made' = made + n
        /\ latest' = IF n > 0 THEN Made(n)[n]
                     ELSE IF latest.width = params THEN latest
                     ELSE [no |-> 0, width |-> params]
    /\ epc' = "push"
    /\ UNCHANGED <<linkVars, wish, changes, frameVars, gpu, texture,
                   screenVars>>

PushRow ==
    /\ epc = "push"
    /\ out # <<>>
    /\ out' = Tail(out)
    /\ IF Len(queue) < Queue
       THEN queue' = Append(queue, Head(out)) /\ UNCHANGED dropped
       ELSE dropped' = dropped \cup {Head(out).no} /\ UNCHANGED queue
    /\ UNCHANGED <<epc, latest, made, params, snap, wish, changes, frameVars,
                   gpu, texture, screenVars>>

PublishSpectrum ==
    /\ epc = "push"
    /\ out = <<>>
    /\ snap' = latest
    /\ epc' = "pump"
    /\ UNCHANGED <<latest, out, made, params, queue, dropped, wish, changes,
                   frameVars, gpu, texture,
                   screenVars>>
-----------------------------------------------------------------------------
(* The user interface, frame by frame: pump_engine, then the waterfall.    *)

ChooseWidth ==
    /\ upc = "frame"
    /\ changes < MaxChange
    /\ wish' \in Widths \ {wish}
    /\ changes' = changes + 1
    /\ UNCHANGED <<engineVars, linkVars, frameVars, gpu, texture,
                   screenVars>>

(* set_params, and try_poll's fetch of the snapshot. *)
UiFetch ==
    /\ upc = "frame"
    /\ params' = wish
    /\ held' = snap
    /\ upc' = "pop"
    /\ UNCHANGED <<engineVars, queue, snap, dropped, wish, changes, taken,
                   plot, rows, pending, dirty, gpu, texture,
                   screenVars>>

(* try_poll's rows: all there are. *)
UiPop ==
    /\ upc = "pop"
    /\ taken' = queue
    /\ queue' = <<>>
    /\ upc' = "ingest"
    /\ UNCHANGED <<engineVars, params, snap, dropped, wish, changes, held,
                   plot, rows, pending, dirty, gpu, texture,
                   screenVars>>

AtMost(a, b) == IF a <= b THEN a ELSE b
Newest(s, n) == SubSeq(s, 1, AtMost(n, Len(s)))
Reversed(s) == [i \in 1..Len(s) |-> s[Len(s) + 1 - i]]

(* History with the rows of this frame; the excess over the cap of rows    *)
(* not painted yet costs as many of the oldest.                            *)
Excess == LET n == pending + Len(taken)
          IN  IF n > PendingCap THEN n - PendingCap ELSE 0
Ingested(old) ==
    LET all == Newest(Reversed(taken) \o old, Height)
    IN  IF taken = <<>> THEN old
        ELSE SubSeq(all, 1, Len(all) - AtMost(Excess, Len(all)))

(* Lines from `at' on show these rows. *)
Written(ring, at, nos) ==
    [y \in Lines |-> LET k == ((y - at) % Height) + 1
                     IN  IF k <= Len(nos) THEN nos[k] ELSE ring[y]]

Nos(s) == [i \in 1..Len(s) |-> s[i].no]
Blank == [y \in Lines |-> 0]

(* The rows of s that have this width, in their order: the r-th is the one *)
(* up to which there are r.                                                *)
OfWidth(s, width) ==
    LET upTo(i) == Cardinality({j \in 1..i : s[j].width = width})
    IN  [r \in 1..upTo(Len(s)) |->
            s[CHOOSE i \in 1..Len(s) : upTo(i) = r /\ upTo(i - 1) = r - 1]]

(* queue_waterfall_gpu_rows: the rows of this frame that have the width of *)
(* the newest, oldest first; another width than the texture's starts anew. *)
GpuBatch(all) == OfWidth(Reversed(Newest(all, Len(taken))), all[1].width)

(* A plausible slip: the rows are uploaded as they lie, newest first. *)
Upload_NewestFirst(all) ==
    LET new == Nos(Reversed(GpuBatch(all)))
    IN  IF ~gpu \/ taken = <<>>
        THEN UNCHANGED <<texture, screenVars>>
        ELSE /\ texture' = all[1].width
             /\ LET at == IF texture = texture' THEN top ELSE 0
                IN  /\ line' = Written(IF texture = texture' THEN line ELSE Blank, at, new)
                    /\ top' = (at + Len(new)) % Height

Upload(all) ==
    LET new == Nos(GpuBatch(all))
    IN  IF ~gpu \/ taken = <<>>
        THEN UNCHANGED <<texture, screenVars>>
        ELSE /\ texture' = all[1].width
             /\ LET at == IF texture = texture' THEN top ELSE 0
                IN  /\ line' = Written(IF texture = texture' THEN line ELSE Blank, at, new)
                    /\ top' = (at + Len(new)) % Height

(* A plausible slip: only a wider spectrum is adopted. *)
UiIngest_WiderOnly ==
    /\ upc = "ingest"
    /\ LET cleared == held.width > plot.width
           old == IF cleared THEN <<>> ELSE rows
       IN  /\ plot' = IF held.width < plot.width THEN plot ELSE held
           /\ rows' = Ingested(old)
           /\ dirty' = (dirty \/ cleared)
           /\ Upload(Newest(Reversed(taken) \o old, Height))
    /\ pending' = AtMost(pending + Len(taken), PendingCap)
    /\ taken' = <<>>
    /\ upc' = "paint"
    /\ UNCHANGED <<engineVars, linkVars, wish, changes, held, gpu>>

(* pump_engine's share: another FFT size than the trace's clears history.  *)
UiIngest ==
    /\ upc = "ingest"
    /\ LET cleared == held.width # plot.width
           old == IF cleared THEN <<>> ELSE rows
       IN  /\ plot' = held
           /\ rows' = Ingested(old)
           /\ dirty' = (dirty \/ cleared)
           /\ Upload(Newest(Reversed(taken) \o old, Height))
    /\ pending' = AtMost(pending + Len(taken), PendingCap)
    /\ taken' = <<>>
    /\ upc' = "paint"
    /\ UNCHANGED <<engineVars, linkVars, wish, changes, held, gpu>>
-----------------------------------------------------------------------------
(* sync_waterfall_viewport, once a frame. *)

(* No history, the shader paints, or nothing is due and nothing moved. *)
PaintNothing ==
    /\ upc = "paint"
    /\ rows = <<>> \/ gpu \/ (pending = 0 /\ ~dirty)
    /\ pending' = IF rows # <<>> THEN 0 ELSE pending
    /\ upc' = "frame"
    /\ UNCHANGED <<engineVars, linkVars, wish, changes, held, taken, plot, rows,
                   dirty, gpu, texture, screenVars>>

(* The rows that are due, one line each; the credit decides how many. *)
Due(p, n) == [i \in 1..n |-> LET k == p - n + i
                            IN  IF k <= Len(rows) THEN rows[k].no ELSE 0]

PaintDue ==
    /\ upc = "paint"
    /\ rows # <<>> /\ ~gpu /\ ~dirty
    /\ LET p == AtMost(pending, Height)
       IN  \E n \in 1..AtMost(p, PerFrame) :
            /\ line' = Written(line, top, Due(p, n))
            /\ top' = (top + n) % Height
            /\ pending' = pending - n
    /\ upc' = "frame"
    /\ UNCHANGED <<engineVars, linkVars, wish, changes, held, taken, plot, rows,
                   dirty, gpu, texture>>

(* Everything anew: no row is due although some wait, the picture is       *)
(* dirty, or the view has moved.  Lines beyond the history stay.           *)
PaintAll ==
    /\ upc = "paint"
    /\ rows # <<>> /\ ~gpu
    /\ line' = Written(line, 0, Nos(Reversed(rows)))
    /\ top' = Len(rows) % Height
    /\ pending' = 0
    /\ dirty' = FALSE
    /\ upc' = "frame"
    /\ UNCHANGED <<engineVars, linkVars, wish, changes, held, taken, plot, rows,
                   gpu, texture>>
-----------------------------------------------------------------------------
Engine == PumpRows \/ PushRow \/ PublishSpectrum
Frame == UiFetch \/ UiPop \/ UiIngest \/ PaintNothing \/ PaintDue \/ PaintAll

ViewNext == Engine \/ Frame \/ ChooseWidth

(* The engine's loop turns and pumps, the display repaints. *)
ViewSpec == ViewInit /\ [][ViewNext]_viewVars /\ WF_viewVars(Engine) /\ WF_viewVars(Frame)
-----------------------------------------------------------------------------
(* A frame's rows reach as far as its spectrum: every row that went into   *)
(* the snapshot the user interface holds has been taken by the time it is  *)
(* shown, or was dropped by a full queue (publish_rows, try_poll).         *)
Painted == IF rows = <<>> THEN 0 ELSE rows[1].no
RowsKeepUp ==
    upc = "paint" /\ rows # <<>> =>
        \A k \in (Painted + 1)..held.no : k \in dropped

(* The lines painted last, from the oldest to the newest, show the rows of *)
(* the history in the order they were made, whoever paints them            *)
(* (queue_waterfall_gpu_rows, sync_waterfall_viewport).  They are as many  *)
(* as the history has painted rows: once the cap has shortened the history *)
(* the lines beyond it keep what they showed, and may show a row twice.    *)
Shown(i) == line[(top + i - 1) % Height]
History == {rows[i].no : i \in 1..Len(rows)}
ScreenInOrder ==
    upc = "frame" =>
        \A i, j \in (Height - Len(rows) + pending + 1)..Height :
            i < j /\ Shown(i) \in History /\ Shown(j) \in History
                => Shown(i) < Shown(j)

(* "adopt the new width and reset buffers" (app/methods/engine.rs:146): the *)
(* history has the width of the trace above it.                            *)
HistoryHasOneWidth ==
    upc = "paint" => \A i \in 1..Len(rows) : rows[i].width = plot.width

(* The FFT size the user settles on is the size of the spectrum he sees in *)
(* the end, through two cells that only keep the newest value.             *)
WidthAdopted == <>[](plot.width = wish)
=============================================================================
