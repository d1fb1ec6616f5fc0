----------------------------- MODULE LatestCell -----------------------------
(***************************************************************************)
(* src/sync/latest.rs: the triple buffer that hands the engine's snapshot  *)
(* to the UI and the UI's parameters to the engine.  Three slots; one is   *)
(* owned by the writer, one by the reader, one is published.  A slot is    *)
(* filled and read with plain accesses, one word at a time, and changes    *)
(* hands in one atomic swap of `published`.                                *)
(*                                                                         *)
(* The Rust memory model is kept as far as it matters here: `known' and    *)
(* `carried' are the happens-before edges that the AcqRel swaps create, so *)
(* an access of a slot that is not ordered after the other thread's        *)
(* accesses of the same slot is a visible state (a data race).  The        *)
(* Relaxed load of `fetch' may return a stale value, hence FetchMiss is    *)
(* possible whether or not something was published.                        *)
(***************************************************************************)
EXTENDS Naturals

CONSTANTS
    Words,     \* the words of a value, written and read one by one
    MaxGen     \* bound: how many values the writer publishes

ASSUME WordsAssumption == Words # {}
ASSUME MaxGenAssumption == MaxGen \in Nat

Slot == 0..2
Gen == 0..MaxGen
Thread == {"writer", "reader"}
Other(t) == IF t = "writer" THEN "reader" ELSE "writer"

(* Memory filled with the g-th value. *)
Filled(g) == [w \in Words |-> g]

VARIABLES
    slots,      \* Shared::slots
    published,  \* Shared::published: the index (INDEX_MASK) and FRESH_FLAG
    own,        \* LatestWriter::owned and LatestReader::owned
    gen,        \* number of the value the writer is filling or last published
    wTodo,      \* words of value gen still to be written
    lastPub,    \* number of the last published value
    rpc,        \* where the reader is in fetch: "idle" or "swap"
    rTodo,      \* words of the owned slot still to be read
    view,       \* what the reader copied out of its slot, word by word
    fetched,    \* number of the value the last successful fetch took
    known,      \* known[t]: slots whose accesses by the other thread
                \* all happened before t's next step
    carried     \* <<u, s>>: u's accesses of s happen before whoever
                \* acquires the current value of `published'

cellVars == <<slots, published, own, gen, wTodo, lastPub, rpc, rTodo, view,
          fetched, known, carried>>

CellTypeOK ==
    /\ slots \in [Slot -> [Words -> Gen]]
    /\ published \in [index : Slot, fresh : BOOLEAN]
    /\ own \in [Thread -> Slot]
    /\ gen \in Gen
    /\ wTodo \in SUBSET Words
    /\ lastPub \in Gen
    /\ rpc \in {"idle", "swap"}
    /\ rTodo \in SUBSET Words
    /\ view \in [Words -> Gen]
    /\ fetched \in Gen
    /\ known \in [Thread -> SUBSET Slot]
    /\ carried \in SUBSET (Thread \X Slot)

(* latest_cell: three seeds; the writer owns 0, the reader 2, 1 is stale. *)
CellInit ==
    /\ slots = [s \in Slot |-> Filled(0)]
    /\ published = [index |-> 1, fresh |-> FALSE]
    /\ own = [t \in Thread |-> IF t = "writer" THEN 0 ELSE 2]
    /\ gen = 0
    /\ wTodo = {}
    /\ lastPub = 0
    /\ rpc = "idle"
    /\ rTodo = {}
    /\ view = Filled(0)
    /\ fetched = 0
    /\ known = [t \in Thread |-> Slot]
    /\ carried = Thread \X Slot
-----------------------------------------------------------------------------
(* Happens-before.  A plain access by t is not yet known to the other      *)
(* thread, nor carried by `published'.                                     *)
Touch(t, s) ==
    /\ known' = [known EXCEPT ![Other(t)] = @ \ {s}]
    /\ carried' = carried \ {<<t, s>>}

(* A plausible slip: the swap acquires nothing. *)
Acquire_Relaxed(t) == known[t]

(* What t learns from the value of `published' that its swap reads ... *)
Acquire(t) == known[t] \cup {s \in Slot : <<Other(t), s>> \in carried}

(* ... and what the value that its swap stores carries. *)
Release(t) == carried \cup ({t} \X Slot) \cup ({Other(t)} \X known[t])

(* published.swap(owned | flag, AcqRel), owned = prev & INDEX_MASK *)
SwapAcqRel(t, flag) ==
    /\ published' = [index |-> own[t], fresh |-> flag]
    /\ own' = [own EXCEPT ![t] = published.index]
    /\ known' = [known EXCEPT ![t] = Acquire(t)]
    /\ carried' = Release(t)
-----------------------------------------------------------------------------
(* The writer: LatestWriter::slot and the stores through it. *)
StartFill ==
    /\ gen = lastPub
    /\ gen < MaxGen
    /\ gen' = gen + 1
    /\ wTodo' = Words
    /\ UNCHANGED <<slots, published, own, lastPub, rpc, rTodo, view, fetched,
                   known, carried>>

WriteWord(w) ==
    /\ w \in wTodo
    /\ slots' = [slots EXCEPT ![own["writer"]] = [@ EXCEPT ![w] = gen]]
    /\ wTodo' = wTodo \ {w}
    /\ Touch("writer", own["writer"])
    /\ UNCHANGED <<published, own, gen, lastPub, rpc, rTodo, view, fetched>>

(* A plausible slip: the publication forgets FRESH_FLAG. *)
Publish_NoFlag ==
    /\ gen # lastPub
    /\ wTodo = {}
    /\ SwapAcqRel("writer", FALSE)
    /\ lastPub' = gen
    /\ UNCHANGED <<slots, gen, wTodo, rpc, rTodo, view, fetched>>

(* A plausible slip: the value is handed over before it is complete. *)
Publish_Early ==
    /\ gen # lastPub
    /\ SwapAcqRel("writer", TRUE)
    /\ lastPub' = gen
    /\ wTodo' = {}
    /\ UNCHANGED <<slots, gen, rpc, rTodo, view, fetched>>

Publish ==
    /\ gen # lastPub
    /\ wTodo = {}
    /\ SwapAcqRel("writer", TRUE)
    /\ lastPub' = gen
    /\ UNCHANGED <<slots, gen, wTodo, rpc, rTodo, view, fetched>>
-----------------------------------------------------------------------------
(* The reader.  A borrow of slot() must end before fetch(&mut self), hence *)
(* the guard rTodo = {}.                                                   *)
ReaderIdle == rpc = "idle" /\ rTodo = {}

(* The Relaxed load saw the flag.  Only the reader's own swap clears it,   *)
(* so by coherence it is still set.                                        *)
FetchLoad ==
    /\ ReaderIdle
    /\ published.fresh
    /\ rpc' = "swap"
    /\ UNCHANGED <<slots, published, own, gen, wTodo, lastPub, rTodo, view,
                   fetched, known, carried>>

(* The load saw no flag, or an old value of `published': fetch is false. *)
FetchMiss ==
    /\ ReaderIdle
    /\ UNCHANGED cellVars

FetchSwap ==
    /\ rpc = "swap"
    /\ SwapAcqRel("reader", FALSE)
    /\ rpc' = "idle"
    /\ fetched' = lastPub
    /\ UNCHANGED <<slots, gen, wTodo, lastPub, rTodo, view>>

(* LatestReader::slot and the loads through it. *)
StartRead ==
    /\ ReaderIdle
    /\ rTodo' = Words
    /\ UNCHANGED <<slots, published, own, gen, wTodo, lastPub, rpc, view,
                   fetched, known, carried>>

ReadWord(w) ==
    /\ w \in rTodo
    /\ view' = [view EXCEPT ![w] = slots[own["reader"]][w]]
    /\ rTodo' = rTodo \ {w}
    /\ Touch("reader", own["reader"])
    /\ UNCHANGED <<slots, published, own, gen, wTodo, lastPub, rpc, fetched>>
-----------------------------------------------------------------------------
CellNext ==
    \/ StartFill
    \/ \E w \in Words : WriteWord(w)
    \/ Publish
    \/ FetchLoad
    \/ FetchMiss
    \/ FetchSwap
    \/ StartRead
    \/ \E w \in Words : ReadWord(w)

CellSpec == CellInit /\ [][CellNext]_cellVars

(* The reader polls again and again, between its reads (the UI once a      *)
(* frame, the engine once a pass), and a store becomes visible to later    *)
(* loads in finite time: a flag that is set is not missed forever.         *)
Fairness ==
    /\ SF_cellVars(FetchLoad)
    /\ WF_cellVars(FetchSwap)
    /\ WF_cellVars(\E w \in Words : ReadWord(w))

FairSpec == CellSpec /\ Fairness
-----------------------------------------------------------------------------
(* "The three indices are always a permutation of 0..3" (latest.rs:28). *)
Permutation ==
    /\ own["writer"] # own["reader"]
    /\ published.index \notin {own["writer"], own["reader"]}

(* Every plain access that either side is about to make is ordered after   *)
(* all accesses the other side made of the same slot: the SAFETY comments  *)
(* of the two slot() functions.                                            *)
NoDataRace ==
    /\ wTodo # {} => own["writer"] \in known["writer"]
    /\ rTodo # {} => own["reader"] \in known["reader"]

(* A completed read is one published value, never a mixture of two         *)
(* generations (test concurrent_handoff_never_tears).                      *)
NoTornRead == rTodo = {} => \E g \in Gen : view = Filled(g)

(* What the reader sees never goes back (same test, "value went            *)
(* backwards").                                                            *)
ReaderMonotonic == [][\A w \in Words : view'[w] >= view[w]]_cellVars

(* The cell implements the register, the reader's slot being what it       *)
(* shows: all words of it, at every moment.                                *)
Register ==
    INSTANCE LatestValue WITH
        Image  <- [g \in Gen |-> Filled(g)],
        latest <- lastPub,
        shown  <- slots[own["reader"]]

RefinesRegister == Register!Spec

(* A published value is fetched, or a newer one is. *)
Delivered == \A g \in Gen : (lastPub = g) ~> (fetched >= g)
=============================================================================
