--------------------------- MODULE Handover_proofs ---------------------------
(***************************************************************************)
(* Proofs about what one thread hands over to another: the cell of the     *)
(* newest snapshot (LatestCell), the queue of rows beside it and the       *)
(* screen they are painted on (WaterfallView), and the rings, fifos and    *)
(* ports between a receiver's threads and its owner (LocalReceivers).      *)
(*                                                                         *)
(* For the cell, for every set of words and every number of publications:  *)
(* types, the permutation of the three indices, the absence of data races  *)
(* and of torn reads, monotonic reading, and that the cell implements the  *)
(* register LatestValue.  For the rows: none is missing behind a spectrum  *)
(* that is shown, and the lines of the screen show them in their order.    *)
(* For the receivers: no thread, callback or query outlives its stream,    *)
(* and every sample is accounted for.                                      *)
(***************************************************************************)
EXTENDS LatestCell, WaterfallView, LocalReceivers, SequenceTheorems,
        FiniteSetTheorems, WellFoundedInduction, TLAPS

(* Every slot that may be handed over has been ordered after its last      *)
(* accesses: the slots in hand are known, the published one is carried.    *)
Ordered ==
    /\ \A t \in Thread : own[t] \in known[t]
    /\ \A t \in Thread : <<t, published.index>> \in carried

(* What the three slots hold. *)
Contents ==
    /\ \A w \in Words \ wTodo : gen # lastPub => slots[own["writer"]][w] = gen
    /\ published.fresh => slots[published.index] = Filled(lastPub)
    /\ slots[own["reader"]] = Filled(fetched)

(* The counters and the reader's program counter. *)
Progress ==
    /\ fetched <= lastPub
    /\ lastPub <= gen
    /\ gen <= lastPub + 1
    /\ gen = lastPub => wTodo = {}
    /\ rpc = "swap" => published.fresh /\ rTodo = {}

(* What the reader has copied so far. *)
Copied ==
    /\ \A w \in Words : view[w] <= fetched
    /\ rTodo # {} => \A w \in Words \ rTodo : view[w] = fetched
    /\ NoTornRead

IInv == CellTypeOK /\ Permutation /\ Ordered /\ Contents /\ Progress /\ Copied

(* The inductive invariant holds of the three seeds latest_cell builds. *)
LEMMA InitIInv == CellInit => IInv
  <1> SUFFICES ASSUME CellInit PROVE IInv
    OBVIOUS
  <1> USE MaxGenAssumption DEF CellInit, Slot, Gen, Thread, Filled
  <1>1. CellTypeOK
    BY DEF CellTypeOK
  <1>2. Permutation /\ Ordered /\ Contents /\ Progress
    BY DEF Permutation, Ordered, Contents, Progress
  <1>3. Copied
    BY DEF Copied, NoTornRead
  <1> QED
    BY <1>1, <1>2, <1>3 DEF IInv

(* The swap keeps the permutation and the order of accesses, whichever     *)
(* side performs it: this is the argument of the SAFETY comments.          *)
LEMMA SwapKeepsOrder ==
    ASSUME CellTypeOK, Permutation, Ordered,
           NEW t \in Thread, NEW mark \in BOOLEAN, SwapAcqRel(t, mark)
    PROVE  /\ published' \in [index : Slot, fresh : BOOLEAN]
           /\ own' \in [Thread -> Slot]
           /\ known' \in [Thread -> SUBSET Slot]
           /\ carried' \in SUBSET (Thread \X Slot)
           /\ own'[t] = published.index
           /\ own'[Other(t)] = own[Other(t)]
           /\ published'.index = own[t]
           /\ published'.fresh = mark
           /\ Permutation'
           /\ Ordered'
  <1> USE DEF Thread, Slot
  <1>0. Other(t) \in Thread /\ Other(t) # t
    BY DEF Other
  <1>1. /\ published' = [index |-> own[t], fresh |-> mark]
        /\ own' = [own EXCEPT ![t] = published.index]
        /\ known' = [known EXCEPT ![t] = Acquire(t)]
        /\ carried' = Release(t)
    BY DEF SwapAcqRel
  <1>2. /\ published' \in [index : Slot, fresh : BOOLEAN]
        /\ own' \in [Thread -> Slot]
        /\ known' \in [Thread -> SUBSET Slot]
        /\ carried' \in SUBSET (Thread \X Slot)
    <2>1. Acquire(t) \in SUBSET Slot
      BY <1>0 DEF Acquire, CellTypeOK
    <2>2. Release(t) \in SUBSET (Thread \X Slot)
      BY <1>0 DEF Release, CellTypeOK
    <2> QED
      BY <1>1, <2>1, <2>2 DEF CellTypeOK
  <1>3. /\ own'[t] = published.index
        /\ own'[Other(t)] = own[Other(t)]
        /\ published'.index = own[t]
        /\ published'.fresh = mark
    BY <1>0, <1>1 DEF CellTypeOK
  <1>4. Permutation'
    BY <1>3, <1>0 DEF Permutation, CellTypeOK, Other
  <1>5. Ordered'
    <2>1. own'[t] \in known'[t]
      <3>1. <<Other(t), published.index>> \in carried
        BY <1>0 DEF Ordered
      <3>2. published.index \in Acquire(t)
        BY <3>1 DEF Acquire, CellTypeOK
      <3> QED
        BY <3>2, <1>1, <1>3 DEF CellTypeOK
    <2>2. own'[Other(t)] \in known'[Other(t)]
      BY <1>0, <1>1, <1>3 DEF Ordered, CellTypeOK
    <2>3. <<t, own[t]>> \in Release(t)
      BY DEF Release, CellTypeOK
    <2>4. <<Other(t), own[t]>> \in Release(t)
      BY DEF Release, Ordered, CellTypeOK
    <2>5. \A u \in Thread : u = t \/ u = Other(t)
      BY DEF Other
    <2> QED
      BY <2>1, <2>2, <2>3, <2>4, <2>5, <1>1, <1>3 DEF Ordered
  <1> QED
    BY <1>2, <1>3, <1>4, <1>5

(* A plain access of the slot in hand disturbs no other slot's order. *)
LEMMA TouchKeepsOrder ==
    ASSUME CellTypeOK, Permutation, Ordered, NEW t \in Thread,
           Touch(t, own[t]), UNCHANGED <<own, published>>
    PROVE  /\ known' \in [Thread -> SUBSET Slot]
           /\ carried' \in SUBSET (Thread \X Slot)
           /\ Ordered'
  <1> USE DEF Thread
  <1>0. Other(t) \in Thread /\ Other(t) # t
    BY DEF Other
  <1>1. /\ known' = [known EXCEPT ![Other(t)] = @ \ {own[t]}]
        /\ carried' = carried \ {<<t, own[t]>>}
    BY DEF Touch
  <1>2. own[Other(t)] # own[t] /\ published.index # own[t]
    BY <1>0 DEF Permutation, Other
  <1>3. /\ known' \in [Thread -> SUBSET Slot]
        /\ carried' \in SUBSET (Thread \X Slot)
    BY <1>0, <1>1 DEF CellTypeOK
  <1>4. known'[t] = known[t] /\ known'[Other(t)] = known[Other(t)] \ {own[t]}
    BY <1>0, <1>1 DEF CellTypeOK
  <1>5. \A u \in Thread : u = t \/ u = Other(t)
    BY DEF Other
  <1>6. \A u \in Thread : own[u] \in known'[u]
    BY <1>0, <1>2, <1>4, <1>5 DEF Ordered
  <1>7. \A u \in Thread : <<u, published.index>> \in carried'
    BY <1>1, <1>2 DEF Ordered
  <1> QED
    BY <1>3, <1>6, <1>7 DEF Ordered

(* Every step of the cell preserves the inductive invariant. *)
LEMMA NextIInv == IInv /\ [CellNext]_cellVars => IInv'
  <1> SUFFICES ASSUME IInv, [CellNext]_cellVars PROVE IInv'
    OBVIOUS
  <1> USE MaxGenAssumption DEF IInv
  <1>1. CASE StartFill
    <2>1. CellTypeOK'
      BY <1>1 DEF StartFill, CellTypeOK, Gen
    <2>2. Permutation' /\ Ordered'
      BY <1>1 DEF StartFill, Permutation, Ordered
    <2>3. Contents'
      BY <1>1 DEF StartFill, Contents, Filled
    <2>4. Progress'
      BY <1>1 DEF StartFill, Progress, CellTypeOK, Gen
    <2>5. Copied'
      BY <1>1 DEF StartFill, Copied, NoTornRead, Filled
    <2> QED
      BY <2>1, <2>2, <2>3, <2>4, <2>5
  <1>2. ASSUME NEW w \in Words, WriteWord(w) PROVE IInv'
    <2>0. /\ "writer" \in Thread /\ "reader" \in Thread
          /\ Touch("writer", own["writer"])
          /\ UNCHANGED <<own, published>>
      BY <1>2 DEF WriteWord, Thread
    <2>1. /\ known' \in [Thread -> SUBSET Slot]
          /\ carried' \in SUBSET (Thread \X Slot)
          /\ Ordered'
      BY <2>0, TouchKeepsOrder
    <2>2. own["writer"] \in Slot /\ own["reader"] \in Slot
      BY <2>0 DEF CellTypeOK
    <2>3. slots' = [slots EXCEPT ![own["writer"]] = [@ EXCEPT ![w] = gen]]
      BY <1>2 DEF WriteWord
    <2>4. CellTypeOK'
      <3>1. slots' \in [Slot -> [Words -> Gen]]
        BY <2>2, <2>3 DEF CellTypeOK
      <3> QED
        BY <3>1, <1>2, <2>1 DEF CellTypeOK, WriteWord
    <2>5. Permutation'
      BY <1>2 DEF WriteWord, Permutation
    <2>6. Contents'
      <3>1. \A s \in Slot \ {own["writer"]} : slots'[s] = slots[s]
        BY <2>2, <2>3 DEF CellTypeOK
      <3>2. \A v \in Words \ {w} :
               slots'[own["writer"]][v] = slots[own["writer"]][v]
        BY <2>2, <2>3 DEF CellTypeOK
      <3>3. slots'[own["writer"]][w] = gen
        BY <2>2, <2>3 DEF CellTypeOK
      <3>4. published.index \in Slot \ {own["writer"]}
        BY DEF CellTypeOK, Permutation
      <3>5. own["reader"] \in Slot \ {own["writer"]}
        BY <2>2 DEF Permutation
      <3> QED
        BY <3>1, <3>2, <3>3, <3>4, <3>5, <1>2
           DEF Contents, WriteWord, Filled
    <2>7. Progress'
      BY <1>2 DEF WriteWord, Progress
    <2>8. Copied'
      BY <1>2 DEF WriteWord, Copied, NoTornRead, Filled
    <2> QED
      BY <2>1, <2>4, <2>5, <2>6, <2>7, <2>8
  <1>3. CASE Publish
    <2>0. /\ "writer" \in Thread /\ "reader" \in Thread
          /\ Other("writer") = "reader"
          /\ SwapAcqRel("writer", TRUE)
      BY <1>3 DEF Publish, Thread, Other
    <2>1. /\ published' \in [index : Slot, fresh : BOOLEAN]
          /\ own' \in [Thread -> Slot]
          /\ known' \in [Thread -> SUBSET Slot]
          /\ carried' \in SUBSET (Thread \X Slot)
          /\ own'["reader"] = own["reader"]
          /\ published'.index = own["writer"]
          /\ published'.fresh = TRUE
          /\ Permutation'
          /\ Ordered'
      BY <2>0, SwapKeepsOrder
    <2>2. CellTypeOK'
      BY <1>3, <2>1 DEF Publish, CellTypeOK
    <2>3. slots[own["writer"]] = Filled(gen)
      <3>1. slots[own["writer"]] \in [Words -> Gen]
        BY <2>0 DEF CellTypeOK
      <3>2. \A w \in Words : slots[own["writer"]][w] = gen
        BY <1>3 DEF Publish, Contents
      <3> QED
        BY <3>1, <3>2 DEF Filled
    <2>4. Contents'
      BY <1>3, <2>1, <2>3 DEF Publish, Contents, Filled
    <2>5. Progress'
      BY <1>3, <2>1 DEF Publish, Progress, CellTypeOK, Gen
    <2>6. Copied'
      BY <1>3 DEF Publish, Copied, NoTornRead, Filled
    <2> QED
      BY <2>1, <2>2, <2>4, <2>5, <2>6
  <1>4. CASE FetchLoad
    <2>1. CellTypeOK'
      BY <1>4 DEF FetchLoad, CellTypeOK
    <2>2. Permutation' /\ Ordered'
      BY <1>4 DEF FetchLoad, Permutation, Ordered
    <2>3. Contents'
      BY <1>4 DEF FetchLoad, Contents, Filled
    <2>4. Progress'
      BY <1>4 DEF FetchLoad, ReaderIdle, Progress
    <2>5. Copied'
      BY <1>4 DEF FetchLoad, Copied, NoTornRead, Filled
    <2> QED
      BY <2>1, <2>2, <2>3, <2>4, <2>5
  <1>5. CASE FetchSwap
    <2>0. /\ "writer" \in Thread /\ "reader" \in Thread
          /\ Other("reader") = "writer"
          /\ SwapAcqRel("reader", FALSE)
          /\ published.fresh
      BY <1>5 DEF FetchSwap, Thread, Other, Progress
    <2>1. /\ published' \in [index : Slot, fresh : BOOLEAN]
          /\ own' \in [Thread -> Slot]
          /\ known' \in [Thread -> SUBSET Slot]
          /\ carried' \in SUBSET (Thread \X Slot)
          /\ own'["reader"] = published.index
          /\ own'["writer"] = own["writer"]
          /\ published'.fresh = FALSE
          /\ Permutation'
          /\ Ordered'
      BY <2>0, SwapKeepsOrder
    <2>2. CellTypeOK'
      BY <1>5, <2>1 DEF FetchSwap, CellTypeOK
    <2>3. Contents'
      BY <1>5, <2>0, <2>1 DEF FetchSwap, Contents, Filled
    <2>4. Progress'
      BY <1>5 DEF FetchSwap, Progress, CellTypeOK, Gen
    <2>5. Copied'
      <3>1. rTodo = {}
        BY <1>5 DEF FetchSwap, Progress
      <3>2. \A w \in Words : view[w] <= lastPub
        BY DEF Copied, Progress, CellTypeOK, Gen
      <3> QED
        BY <1>5, <3>1, <3>2 DEF FetchSwap, Copied, NoTornRead, Filled
    <2> QED
      BY <2>1, <2>2, <2>3, <2>4, <2>5
  <1>6. CASE StartRead
    <2>1. CellTypeOK'
      BY <1>6 DEF StartRead, CellTypeOK
    <2>2. Permutation' /\ Ordered'
      BY <1>6 DEF StartRead, Permutation, Ordered
    <2>3. Contents'
      BY <1>6 DEF StartRead, Contents, Filled
    <2>4. Progress'
      BY <1>6 DEF StartRead, ReaderIdle, Progress
    <2>5. Copied'
      BY <1>6, WordsAssumption DEF StartRead, Copied, NoTornRead
    <2> QED
      BY <2>1, <2>2, <2>3, <2>4, <2>5
  <1>7. ASSUME NEW w \in Words, ReadWord(w) PROVE IInv'
    <2>0. /\ "reader" \in Thread
          /\ Touch("reader", own["reader"])
          /\ UNCHANGED <<own, published>>
          /\ rTodo # {}
      BY <1>7 DEF ReadWord, Thread
    <2>1. /\ known' \in [Thread -> SUBSET Slot]
          /\ carried' \in SUBSET (Thread \X Slot)
          /\ Ordered'
      BY <2>0, TouchKeepsOrder
    <2>2. slots[own["reader"]][w] = fetched
      BY DEF Contents, Filled
    <2>3. view' = [view EXCEPT ![w] = fetched]
      BY <1>7, <2>2 DEF ReadWord
    <2>4. CellTypeOK'
      BY <1>7, <2>1, <2>3 DEF ReadWord, CellTypeOK
    <2>5. Permutation' /\ Contents'
      BY <1>7 DEF ReadWord, Permutation, Contents, Filled
    <2>6. Progress'
      BY <1>7 DEF ReadWord, Progress
    <2>7. Copied'
      <3>1. \A v \in Words \ rTodo' : view'[v] = fetched
        BY <1>7, <2>0, <2>3 DEF ReadWord, Copied, CellTypeOK
      <3>2. \A v \in Words : view'[v] <= fetched
        BY <2>3 DEF Copied, CellTypeOK, Gen
      <3>3. rTodo' = {} => view' = Filled(fetched)
        BY <3>1, <2>3 DEF CellTypeOK, Filled
      <3>4. NoTornRead'
        BY <3>3 DEF NoTornRead, CellTypeOK, Filled
      <3> QED
        BY <1>7, <3>1, <3>2, <3>4 DEF ReadWord, Copied
    <2> QED
      BY <2>1, <2>4, <2>5, <2>6, <2>7
  <1>8. CASE FetchMiss \/ UNCHANGED cellVars
    BY <1>8 DEF FetchMiss, cellVars, CellTypeOK, Permutation, Ordered, Contents,
               Progress, Copied, NoTornRead, Filled
  <1> QED
    BY <1>1, <1>2, <1>3, <1>4, <1>5, <1>6, <1>7, <1>8 DEF CellNext

(* The inductive invariant holds in every reachable state. *)
THEOREM AlwaysIInv == CellSpec => []IInv
  BY InitIInv, NextIInv, PTL DEF CellSpec

(* Types: the index read from `published' is always a slot, and the slots  *)
(* always hold published or nearly published values.                       *)
THEOREM TypeCorrect == CellSpec => []CellTypeOK
  BY AlwaysIInv, PTL DEF IInv

(* latest.rs:28: the three indices are always a permutation of 0..3.       *)
THEOREM AlwaysPermutation == CellSpec => []Permutation
  BY AlwaysIInv, PTL DEF IInv

(* The SAFETY comments of slot(): no access of a slot by one side is       *)
(* concurrent with an access of the same slot by the other.                *)
THEOREM RaceFree == CellSpec => []NoDataRace
  <1>1. IInv => NoDataRace
    BY DEF IInv, Ordered, NoDataRace, Thread
  <1> QED
    BY <1>1, AlwaysIInv, PTL

(* A value that was read completely is one published value.                *)
THEOREM TearFree == CellSpec => []NoTornRead
  <1>1. IInv => NoTornRead
    BY DEF IInv, Copied
  <1> QED
    BY <1>1, AlwaysIInv, PTL

(* No word the reader copies ever goes back to an older value.             *)
THEOREM Monotonic == CellSpec => ReaderMonotonic
  <1>1. IInv /\ [CellNext]_cellVars => [\A w \in Words : view'[w] >= view[w]]_cellVars
    <2> SUFFICES ASSUME IInv, CellNext
                 PROVE  \A w \in Words : view'[w] >= view[w]
      OBVIOUS
    <2> USE MaxGenAssumption DEF IInv
    <2>1. CASE UNCHANGED view
      BY <2>1 DEF CellTypeOK, Gen
    <2>2. ASSUME NEW w \in Words, ReadWord(w)
          PROVE  \A v \in Words : view'[v] >= view[v]
      <3>1. slots[own["reader"]][w] = fetched
        BY DEF Contents, Filled
      <3>2. view' = [view EXCEPT ![w] = fetched]
        BY <2>2, <3>1 DEF ReadWord
      <3>3. \A v \in Words : view[v] <= fetched
        BY DEF Copied
      <3> QED
        BY <3>2, <3>3 DEF CellTypeOK, Gen
    <2> QED
      BY <2>1, <2>2 DEF CellNext, StartFill, WriteWord, Publish, FetchLoad,
                       FetchMiss, FetchSwap, StartRead, cellVars
  <1> QED
    BY <1>1, AlwaysIInv, PTL DEF CellSpec, ReaderMonotonic

(* The cell implements the register: a publication or a fetch of the       *)
(* register is one swap of the cell, every other step leaves what the      *)
(* register shows alone.                                                   *)
THEOREM Refinement == CellSpec => RefinesRegister
  <1>1. CellInit => Register!Init
    BY MaxGenAssumption DEF CellInit, Register!Init, Gen, Slot, Filled, Thread
  <1>2. IInv /\ [CellNext]_cellVars => [Register!Next]_Register!vars
    <2> SUFFICES ASSUME IInv, [CellNext]_cellVars
                 PROVE  \/ Register!Next
                        \/ UNCHANGED <<lastPub, slots[own["reader"]]>>
      BY DEF Register!vars
    <2> USE MaxGenAssumption DEF IInv
    <2>1. CASE Publish
      <3>1. lastPub < MaxGen /\ lastPub' = lastPub + 1
        BY <2>1 DEF Publish, Progress, CellTypeOK, Gen
      <3>2. UNCHANGED slots[own["reader"]]
        <4>1. own'["reader"] = own["reader"]
          BY <2>1 DEF Publish, SwapAcqRel, CellTypeOK, Thread
        <4> QED
          BY <2>1, <4>1 DEF Publish
      <3> QED
        BY <3>1, <3>2 DEF Register!Next, Register!Publish
    <2>2. CASE FetchSwap
      <3>1. own'["reader"] = published.index
        BY <2>2 DEF FetchSwap, SwapAcqRel, CellTypeOK, Thread
      <3>2. slots'[own'["reader"]] = Filled(lastPub)
        BY <2>2, <3>1 DEF FetchSwap, Progress, Contents
      <3>3. [g \in Gen |-> Filled(g)][lastPub] = Filled(lastPub)
        BY DEF CellTypeOK
      <3> QED
        BY <2>2, <3>2, <3>3 DEF Register!Next, Register!Fetch, FetchSwap
    <2>3. ASSUME NEW w \in Words, WriteWord(w)
          PROVE  UNCHANGED <<lastPub, slots[own["reader"]]>>
      <3>1. own["writer"] # own["reader"] /\ own["reader"] \in Slot
        BY DEF Permutation, CellTypeOK, Thread
      <3>2. slots'[own["reader"]] = slots[own["reader"]]
        BY <2>3, <3>1 DEF WriteWord, CellTypeOK
      <3> QED
        BY <2>3, <3>2 DEF WriteWord
    <2>4. CASE \/ StartFill \/ FetchLoad \/ FetchMiss \/ StartRead
               \/ (\E w \in Words : ReadWord(w)) \/ UNCHANGED cellVars
      BY <2>4 DEF StartFill, FetchLoad, FetchMiss, StartRead, ReadWord, cellVars
    <2> QED
      BY <2>1, <2>2, <2>3, <2>4 DEF CellNext
  <1> QED
    BY <1>1, <1>2, AlwaysIInv, PTL DEF CellSpec, RefinesRegister, Register!Spec
-----------------------------------------------------------------------------
(***************************************************************************)
(* The rows: publish_rows pushes them before it publishes the snapshot and *)
(* try_poll takes the snapshot before it takes them.                       *)
(***************************************************************************)
(* Rows that left the pump: they went into the queue or found it full.      *)
Pushed == made - Len(out)
In(q, k) == \E i \in 1..Len(q) : q[i].no = k

RowTypes ==
    /\ made \in Nat /\ params \in Widths /\ wish \in Widths
    /\ out \in Seq(Row) /\ queue \in Seq(Row)
    /\ taken \in Seq(Row) /\ rows \in Seq(Row)
    /\ latest.no \in Nat /\ snap.no \in Nat /\ held.no \in Nat /\ pending \in Nat

(* The rows of a pump are pushed in the order they were made, and no        *)
(* spectrum is ahead of the rows that were made, or pushed, before it.      *)
PumpInv ==
    /\ made <= MaxRow
    /\ \A i \in 1..Len(out) : out[i].no = Pushed + i
    /\ epc = "pump" => out = <<>>
    /\ latest.no <= made /\ snap.no <= Pushed /\ held.no <= Pushed

(* Whatever was pushed after the newest row of a place is in a place behind *)
(* it, or was dropped; and behind the rows of the frame come only rows that *)
(* its spectrum does not have yet.                                          *)
PlaceInv ==
    /\ queue # <<>> =>
          \A k \in (queue[Len(queue)].no + 1)..Pushed : k \in dropped
    /\ taken # <<>> =>
          \A k \in (taken[Len(taken)].no + 1)..Pushed : k \in dropped \/ In(queue, k)
    /\ rows # <<>> =>
          \A k \in (rows[1].no + 1)..Pushed :
              k \in dropped \/ In(queue, k) \/ In(taken, k)
    /\ upc # "ingest" => taken = <<>>
    /\ upc \in {"ingest", "paint"} => \A i \in 1..Len(queue) : queue[i].no > held.no

ViewInv == RowTypes /\ PumpInv /\ PlaceInv

(* What was pushed is a number of rows, not more than were made.            *)
LEMMA PushedType ==
    ASSUME RowTypes
    PROVE  Len(out) \in Nat /\ Pushed \in Int /\ Pushed <= made
<1>1. Len(out) \in Nat
    BY LenProperties DEF RowTypes
<1> QED BY <1>1 DEF Pushed, RowTypes

(* An empty place has no row.                                               *)
LEMMA NoRowIn == \A k : ~In(<<>>, k)
<1>1. Len(<<>>) = 0
    BY EmptySeq
<1> QED BY <1>1 DEF In

(* The head of a sequence, and a sequence read backwards.                    *)
LEMMA NewestIs ==
    ASSUME NEW s \in Seq(Row), NEW n \in Nat, NEW c, c = Newest(s, n)
    PROVE  /\ c \in Seq(Row) /\ Len(s) \in Nat /\ Len(c) = AtMost(n, Len(s))
           /\ \A k \in 1..Len(c) : c[k] = s[k]
<1>1. PICK l \in Nat : l = Len(s)
    BY LenProperties
<1>2. PICK e \in Nat : e = AtMost(n, l) /\ e <= l
    BY <1>1 DEF AtMost
<1>3. \A i \in 1..e : s[i] \in Row
    BY <1>1, <1>2, ElementOfSeq
<1>4. c = SubSeq(s, 1, e)
    BY <1>1, <1>2 DEF Newest
<1>5. 1 \in Int /\ e \in Int
    OBVIOUS
<1>6. /\ c \in Seq(Row) /\ Len(c) = IF 1 <= e THEN e - 1 + 1 ELSE 0
      /\ \A i \in 1..(e - 1 + 1) : c[i] = s[1 + i - 1]
    BY <1>3, <1>4, <1>5, SubSeqProperties
<1>7. Len(c) = e
    BY <1>2, <1>6
<1>8. \A k \in 1..e : c[k] = s[k]
    BY <1>2, <1>6
<1> QED BY <1>1, <1>2, <1>6, <1>7, <1>8

LEMMA ReversedIs ==
    ASSUME NEW s \in Seq(Row), NEW c, c = Reversed(s)
    PROVE  /\ c \in Seq(Row) /\ Len(s) \in Nat /\ Len(c) = Len(s)
           /\ \A k \in 1..Len(s) : c[k] = s[Len(s) + 1 - k]
<1>1. PICK l \in Nat : l = Len(s)
    BY LenProperties
<1>2. \A k \in 1..l : l + 1 - k \in 1..l /\ s[l + 1 - k] \in Row
    BY <1>1, ElementOfSeq
<1>3. c = [k \in 1..l |-> s[l + 1 - k]]
    BY <1>1 DEF Reversed
<1>4. c \in Seq(Row) /\ Len(c) = l
    BY <1>2, <1>3, IsASeq, LenProperties
<1>5. \A k \in 1..l : c[k] = s[l + 1 - k]
    BY <1>3
<1> QED BY <1>1, <1>4, <1>5

(* The numbers of rows are naturals, and none is 0.                         *)
LEMMA NosIs ==
    ASSUME NEW s \in Seq(Row), NEW c, c = Nos(s)
    PROVE  /\ c \in Seq(Nat) /\ Len(s) \in Nat /\ Len(c) = Len(s)
           /\ \A k \in 1..Len(s) : c[k] = s[k].no /\ s[k].no \in Nat /\ s[k].no >= 1
<1>1. PICK l \in Nat : l = Len(s)
    BY LenProperties
<1>2. \A k \in 1..l : s[k].no \in Nat /\ s[k].no >= 1
    <2>1. \A k \in 1..l : s[k] \in Row
        BY <1>1, ElementOfSeq
    <2> QED BY <2>1, ViewAssumption DEF Row
<1>3. c = [k \in 1..l |-> s[k].no]
    BY <1>1 DEF Nos
<1>4. c \in Seq(Nat) /\ Len(c) = l
    BY <1>2, <1>3, IsASeq, LenProperties
<1>5. \A k \in 1..l : c[k] = s[k].no
    BY <1>3
<1> QED BY <1>1, <1>2, <1>4, <1>5

(* The frame's rows on top of the history, both newest first.               *)
LEMMA OnTop ==
    ASSUME taken \in Seq(Row), NEW old \in Seq(Row),
           NEW all, all = Newest(Reversed(taken) \o old, Height)
    PROVE  /\ all \in Seq(Row) /\ Len(taken) \in Nat /\ Len(old) \in Nat
           /\ Len(all) = AtMost(Height, Len(taken) + Len(old))
           /\ \A k \in 1..Len(all) :
                  all[k] = IF k <= Len(taken) THEN taken[Len(taken) + 1 - k]
                           ELSE old[k - Len(taken)]
<1>1. PICK m \in Nat, l \in Nat : m = Len(taken) /\ l = Len(old)
    BY LenProperties
<1>2. PICK r : r = Reversed(taken)
    OBVIOUS
<1>3. /\ r \in Seq(Row) /\ Len(r) = m
      /\ \A k \in 1..m : r[k] = taken[m + 1 - k]
    BY <1>1, <1>2, ReversedIs
<1>4. PICK w : w = r \o old
    OBVIOUS
<1>5. /\ w \in Seq(Row) /\ Len(w) = m + l
      /\ \A k \in 1..(m + l) : w[k] = IF k <= m THEN r[k] ELSE old[k - m]
    <2>1. /\ w \in Seq(Row) /\ Len(w) = Len(r) + Len(old)
          /\ \A k \in 1..(Len(r) + Len(old)) : w[k] = IF k <= Len(r) THEN r[k] ELSE old[k - Len(r)]
        BY <1>3, <1>4, ConcatProperties
    <2> QED BY <1>1, <1>3, <2>1
<1>6. Height \in Nat
    BY ViewAssumption
<1>7. /\ all \in Seq(Row) /\ Len(all) = AtMost(Height, m + l)
      /\ \A k \in 1..Len(all) : all[k] = w[k]
    <2>1. all = Newest(w, Height)
        BY <1>2, <1>4
    <2> QED BY <1>5, <1>6, <2>1, NewestIs
<1>8. Len(all) \in Nat /\ Len(all) <= m + l
    BY <1>6, <1>7 DEF AtMost
<1>9. ASSUME NEW k \in 1..Len(all)
      PROVE  all[k] = IF k <= m THEN taken[m + 1 - k] ELSE old[k - m]
    <2>1. k \in 1..(m + l) /\ (k <= m => k \in 1..m)
        BY <1>8
    <2> QED BY <1>3, <1>5, <1>7, <2>1
<1> QED BY <1>1, <1>7, <1>9

(* The new history: what is beyond the cap has been cut off its end.        *)
Kept(old) == AtMost(Height, Len(taken) + Len(old)) - Excess

LEMMA IngestedIs ==
    ASSUME taken \in Seq(Row), taken # <<>>, pending \in Nat, NEW old \in Seq(Row),
           NEW c, c = Ingested(old)
    PROVE  /\ c \in Seq(Row) /\ Len(taken) \in Nat /\ Len(old) \in Nat /\ Excess \in Nat
           /\ Len(c) = IF Kept(old) >= 1 THEN Kept(old) ELSE 0
           /\ \A k \in 1..Len(c) :
                  c[k] = IF k <= Len(taken) THEN taken[Len(taken) + 1 - k]
                         ELSE old[k - Len(taken)]
<1>1. PICK all : all = Newest(Reversed(taken) \o old, Height)
    OBVIOUS
<1>2. PICK h \in Nat : h = Len(all)
    BY <1>1, OnTop, LenProperties
<1>3. /\ all \in Seq(Row) /\ Len(taken) \in Nat /\ Len(old) \in Nat
      /\ h = AtMost(Height, Len(taken) + Len(old))
      /\ \A k \in 1..h :
             all[k] = IF k <= Len(taken) THEN taken[Len(taken) + 1 - k]
                      ELSE old[k - Len(taken)]
    BY <1>1, <1>2, OnTop
<1>4. PICK x \in Nat : x = Excess
    <2>1. PICK m \in Nat : m = Len(taken)
        BY <1>3
    <2>2. Excess \in Nat
        BY <2>1, ViewAssumption DEF Excess
    <2> QED BY <2>2
<1>5. PICK n : n = h - AtMost(x, h)
    OBVIOUS
<1>13. PICK d : d = Kept(old)
    OBVIOUS
<1>12. n \in Nat /\ n <= h /\ n = IF d >= 1 THEN d ELSE 0
    <2>1. d = h - x
        BY <1>3, <1>4, <1>13 DEF Kept
    <2> QED BY <1>5, <2>1 DEF AtMost
<1>6. c = SubSeq(all, 1, n)
    <2>1. n = Len(all) - AtMost(Excess, Len(all))
        BY <1>2, <1>4, <1>5, Zenon
    <2>2. Ingested(old) = SubSeq(all, 1, Len(all) - AtMost(Excess, Len(all)))
        BY <1>1, Zenon DEF Ingested
    <2>3. Ingested(old) = SubSeq(all, 1, n)
        BY <2>1, <2>2
    <2> QED BY <2>3
<1>7. \A i \in 1..n : all[i] \in Row
    <2>1. \A i \in 1..n : i \in 1..Len(all)
        BY <1>2, <1>12
    <2>2. \A i \in 1..Len(all) : all[i] \in Row
        BY <1>3, ElementOfSeq
    <2> QED BY <2>1, <2>2
<1>8. 1 \in Int /\ n \in Int
    BY <1>12
<1>9. /\ c \in Seq(Row) /\ Len(c) = IF 1 <= n THEN n - 1 + 1 ELSE 0
      /\ \A i \in 1..(n - 1 + 1) : c[i] = all[1 + i - 1]
    BY <1>6, <1>7, <1>8, SubSeqProperties
<1>10. Len(c) = n
    BY <1>9, <1>12
<1>11. ASSUME NEW k \in 1..n PROVE c[k] = all[k] /\ k \in 1..h
    BY <1>9, <1>12
<1> QED BY <1>3, <1>4, <1>9, <1>10, <1>11, <1>12, <1>13

(* The newest row of the new history is the newest of the frame.            *)
LEMMA Ingests ==
    ASSUME RowTypes, NEW old \in Seq(Row)
    PROVE  /\ Ingested(old) \in Seq(Row)
           /\ taken = <<>> => Ingested(old) = old
           /\ taken # <<>> /\ Ingested(old) # <<>> =>
                 Ingested(old)[1] = taken[Len(taken)]
<1>1. CASE taken = <<>>
    BY <1>1 DEF Ingested
<1>2. CASE taken # <<>>
    <2>1. PICK c : c = Ingested(old)
        OBVIOUS
    <2>2. /\ c \in Seq(Row) /\ Len(taken) \in Nat
          /\ \A k \in 1..Len(c) :
                 c[k] = IF k <= Len(taken) THEN taken[Len(taken) + 1 - k]
                        ELSE old[k - Len(taken)]
        BY <1>2, <2>1, IngestedIs DEF RowTypes
    <2>3. 1 <= Len(taken)
        BY <1>2, <2>2, EmptySeq DEF RowTypes
    <2>4. ASSUME c # <<>> PROVE c[1] = taken[Len(taken)]
        <3>1. 1 \in 1..Len(c)
            BY <2>2, <2>4, LenProperties, EmptySeq
        <3>2. c[1] = taken[Len(taken) + 1 - 1]
            BY <2>2, <2>3, <3>1
        <3> QED BY <2>2, <3>2
    <2> QED BY <1>2, <2>1, <2>2, <2>4
<1> QED BY <1>1, <1>2

(* The rows' invariant holds when the engine starts.                        *)
LEMMA InitView == ViewInit => ViewInv
<1> SUFFICES ASSUME ViewInit PROVE ViewInv
    OBVIOUS
<1>1. <<>> \in Seq(Row) /\ Len(<<>>) = 0
    BY EmptySeq
<1>2. latest.no = 0 /\ snap.no = 0 /\ held.no = 0
    BY DEF ViewInit
<1>3. RowTypes
    <2>1. /\ made = 0 /\ params \in Widths /\ wish \in Widths /\ pending = 0
          /\ out = <<>> /\ queue = <<>> /\ taken = <<>> /\ rows = <<>>
        BY DEF ViewInit
    <2> QED BY <1>1, <1>2, <2>1 DEF RowTypes
<1>4. Pushed = 0
    <2>1. made = 0 /\ out = <<>>
        BY DEF ViewInit
    <2>2. Len(out) = 0
        BY <2>1, <1>1, Zenon
    <2>3. 0 - 0 = 0
        OBVIOUS
    <2> QED BY <2>1, <2>2, <2>3, Zenon DEF Pushed
<1>5. PumpInv
    BY <1>1, <1>2, <1>4, ViewAssumption DEF ViewInit, PumpInv
<1>6. PlaceInv
    BY <1>1 DEF ViewInit, PlaceInv
<1> QED BY <1>3, <1>5, <1>6 DEF ViewInv

(* The engine makes rows, pushes them and publishes its spectrum.           *)
LEMMA Pumps ==
    ASSUME ViewInv, PumpRows
    PROVE  ViewInv' /\ Pushed' = Pushed
<1>1. PICK n \in 0..MaxBatch :
        /\ made + n <= MaxRow
        /\ out' = Made(n)
        /\ made' = made + n
        /\ latest' = IF n > 0 THEN Made(n)[n]
                     ELSE IF latest.width = params THEN latest
                     ELSE [no |-> 0, width |-> params]
    BY DEF PumpRows
<1>2. n \in Nat /\ made \in Nat /\ MaxRow \in Nat /\ params \in Widths
    BY ViewAssumption DEF ViewInv, RowTypes
<1>3. PICK b : b = Made(n)
    OBVIOUS
<1>4. /\ b \in Seq(Row) /\ Len(b) = n
      /\ \A i \in 1..n : b[i].no = made + i
    <2>1. b = [k \in 1..n |-> [no |-> made + k, width |-> params]]
        BY <1>3 DEF Made
    <2>2. \A k \in 1..n : [no |-> made + k, width |-> params] \in Row
        BY <1>1, <1>2 DEF Row
    <2>3. b \in [1..n -> Row]
        BY <2>1, <2>2
    <2>4. b \in Seq(Row) /\ Len(b) = n
        BY <1>2, <2>3, LenProperties
    <2> QED BY <2>1, <2>4
<1>5. latest'.no \in Nat /\ latest'.no <= made'
    <2>1. CASE n > 0
        <3>1. n \in 1..n /\ latest' = b[n]
            BY <1>1, <1>2, <1>3, <2>1
        <3> QED BY <1>1, <1>2, <1>4, <3>1
    <2>2. CASE ~(n > 0)
        BY <1>1, <1>2, <2>2 DEF ViewInv, RowTypes, PumpInv
    <2> QED BY <2>1, <2>2
<1>6. out = <<>> /\ Len(out) = 0
    BY EmptySeq DEF PumpRows, ViewInv, PumpInv
<1>7. Pushed' = made /\ Pushed = made
    BY <1>1, <1>2, <1>3, <1>4, <1>6 DEF Pushed
<1>8. /\ epc' = "push"
      /\ UNCHANGED <<params, queue, snap, dropped, wish, upc, held, taken, plot, rows, pending>>
    BY DEF PumpRows, linkVars, frameVars
<1>9. RowTypes'
    BY <1>1, <1>2, <1>3, <1>4, <1>5, <1>8 DEF ViewInv, RowTypes
<1>10. PumpInv'
    BY <1>1, <1>3, <1>4, <1>5, <1>7, <1>8 DEF ViewInv, PumpInv
<1>11. PlaceInv'
    BY <1>7, <1>8 DEF ViewInv, PlaceInv, In
<1> QED BY <1>7, <1>9, <1>10, <1>11 DEF ViewInv

LEMMA Pushes ==
    ASSUME ViewInv, PushRow
    PROVE  /\ ViewInv' /\ Pushed' = Pushed + 1
           /\ Head(out).no = Pushed + 1 /\ Head(out) \in Row
<1>1. PICK h : h = Head(out)
    OBVIOUS
<1>2. /\ out \in Seq(Row) /\ out # <<>> /\ out' = Tail(out) /\ queue \in Seq(Row)
      /\ made \in Nat
    BY DEF PushRow, ViewInv, RowTypes
<1>3. /\ h \in Row /\ out' \in Seq(Row) /\ Len(out') = Len(out) - 1
      /\ \A i \in 1..Len(out') : out'[i] = out[i + 1]
    BY <1>1, <1>2, HeadTailProperties
<1>4. Len(out) \in Nat /\ Len(out) >= 1 /\ h = out[1] /\ Len(queue) \in Nat
    BY <1>1, <1>2, LenProperties, EmptySeq
<1>5. made' = made /\ epc' = epc /\ epc # "pump"
    BY DEF PushRow
<1>6. Pushed \in Int /\ Pushed' = Pushed + 1
    BY <1>2, <1>3, <1>4, <1>5 DEF Pushed
<1>7. h.no = Pushed + 1
    BY <1>4 DEF ViewInv, PumpInv
<1>8. UNCHANGED <<latest, params, wish, snap, upc, held, taken, rows, pending>>
    BY DEF PushRow, frameVars
<1>9. \/ queue' = Append(queue, h) /\ dropped' = dropped
      \/ queue' = queue /\ dropped' = dropped \cup {h.no}
    BY <1>1 DEF PushRow
<1>10. RowTypes'
    <2>1. Append(queue, h) \in Seq(Row)
        BY <1>2, <1>3, AppendProperties
    <2>2. queue' \in Seq(Row)
        BY <1>2, <1>9, <2>1
    <2> QED BY <1>3, <1>5, <1>8, <2>2 DEF ViewInv, RowTypes
<1>11. PumpInv'
    <2>1. ASSUME NEW i \in 1..Len(out') PROVE out'[i].no = Pushed' + i
        <3>1. i + 1 \in 1..Len(out) /\ out'[i] = out[i + 1]
            BY <1>3, <1>4
        <3>2. out[i + 1].no = Pushed + (i + 1)
            BY <3>1 DEF ViewInv, PumpInv
        <3> QED BY <1>6, <3>1, <3>2
    <2>2. snap.no <= Pushed' /\ held.no <= Pushed'
        BY <1>6 DEF ViewInv, RowTypes, PumpInv
    <2> QED BY <1>5, <1>8, <2>1, <2>2 DEF ViewInv, PumpInv
<1>12. PlaceInv'
    <2>1. CASE queue' = Append(queue, h) /\ dropped' = dropped
        <3>1. /\ Len(queue') = Len(queue) + 1
              /\ \A i \in 1..Len(queue) : queue'[i] = queue[i] /\ i \in 1..Len(queue')
              /\ queue'[Len(queue')] = h /\ Len(queue') \in 1..Len(queue')
              /\ \A i \in 1..Len(queue') : i \in 1..Len(queue) \/ i = Len(queue')
            BY <1>2, <1>3, <1>4, <2>1, AppendProperties
        <3>2. In(queue', Pushed + 1) /\ \A k : In(queue, k) => In(queue', k)
            BY <1>7, <3>1 DEF In
        <3>3. (queue'[Len(queue')].no + 1)..Pushed' = {}
            BY <1>6, <1>7, <3>1
        <3>4. \A a \in Int : \A k \in (a + 1)..Pushed' : k \in (a + 1)..Pushed \/ k = Pushed + 1
            BY <1>6
        <3>5. /\ taken # <<>> => taken[Len(taken)].no \in Int
              /\ rows # <<>> => rows[1].no \in Int
            <4>1. /\ taken # <<>> => Len(taken) \in 1..Len(taken)
                  /\ rows # <<>> => 1 \in 1..Len(rows)
                BY LenProperties, EmptySeq DEF ViewInv, RowTypes
            <4>2. /\ \A i \in 1..Len(taken) : taken[i] \in Row
                  /\ \A i \in 1..Len(rows) : rows[i] \in Row
                BY ElementOfSeq DEF ViewInv, RowTypes
            <4> QED BY <4>1, <4>2, ViewAssumption DEF Row
        <3>6. held.no < h.no
            BY <1>6, <1>7 DEF ViewInv, RowTypes, PumpInv
        <3>7. upc' \in {"ingest", "paint"} => \A i \in 1..Len(queue') : queue'[i].no > held.no
            BY <1>8, <3>1, <3>6 DEF ViewInv, RowTypes, PlaceInv
        <3>8. taken' # <<>> => \A k \in (taken'[Len(taken')].no + 1)..Pushed' :
                                    k \in dropped' \/ In(queue', k)
            BY <1>8, <2>1, <3>2, <3>4, <3>5 DEF ViewInv, PlaceInv
        <3>9. rows' # <<>> => \A k \in (rows'[1].no + 1)..Pushed' :
                                    k \in dropped' \/ In(queue', k) \/ In(taken', k)
            BY <1>8, <2>1, <3>2, <3>4, <3>5 DEF ViewInv, PlaceInv
        <3>10. upc' # "ingest" => taken' = <<>>
            BY <1>8 DEF ViewInv, PlaceInv
        <3> QED BY <1>8, <3>3, <3>7, <3>8, <3>9, <3>10 DEF PlaceInv
    <2>2. CASE queue' = queue /\ dropped' = dropped \cup {h.no}
        <3>1. \A a \in Int : \A k \in (a + 1)..Pushed' : k \in (a + 1)..Pushed \/ k \in dropped'
            BY <1>6, <1>7, <2>2
        <3>2. /\ queue # <<>> => queue[Len(queue)].no \in Int
              /\ taken # <<>> => taken[Len(taken)].no \in Int
              /\ rows # <<>> => rows[1].no \in Int
            <4>1. /\ queue # <<>> => Len(queue) \in 1..Len(queue)
                  /\ taken # <<>> => Len(taken) \in 1..Len(taken)
                  /\ rows # <<>> => 1 \in 1..Len(rows)
                BY LenProperties, EmptySeq DEF ViewInv, RowTypes
            <4>2. /\ \A i \in 1..Len(queue) : queue[i] \in Row
                  /\ \A i \in 1..Len(taken) : taken[i] \in Row
                  /\ \A i \in 1..Len(rows) : rows[i] \in Row
                BY ElementOfSeq DEF ViewInv, RowTypes
            <4> QED BY <4>1, <4>2, ViewAssumption DEF Row
        <3> QED BY <1>8, <2>2, <3>1, <3>2 DEF ViewInv, PlaceInv
    <2> QED BY <1>9, <2>1, <2>2
<1> QED BY <1>1, <1>3, <1>6, <1>7, <1>10, <1>11, <1>12 DEF ViewInv

LEMMA Publishes ==
    ASSUME ViewInv, PublishSpectrum
    PROVE  ViewInv' /\ Pushed' = Pushed
<1>1. Len(out) = 0 /\ Pushed = made /\ Pushed' = Pushed
    BY EmptySeq DEF PublishSpectrum, Pushed, ViewInv, RowTypes
<1>2. /\ snap' = latest /\ out' = out /\ out = <<>>
      /\ UNCHANGED <<latest, made, params, queue, dropped, wish, upc, held, taken, rows, pending>>
    BY DEF PublishSpectrum, frameVars
<1>3. RowTypes' /\ PumpInv'
    BY <1>1, <1>2 DEF ViewInv, RowTypes, PumpInv
<1>4. PlaceInv'
    BY <1>1, <1>2 DEF ViewInv, PlaceInv, In
<1> QED BY <1>1, <1>3, <1>4 DEF ViewInv

(* The user interface takes the spectrum first and then the rows.           *)
LEMMA Frames ==
    ASSUME ViewInv, Frame \/ ChooseWidth \/ UNCHANGED viewVars
    PROVE  ViewInv' /\ Pushed' = Pushed
<1>1. UNCHANGED <<epc, latest, out, made, dropped, snap>> /\ Pushed' = Pushed
    BY DEF Frame, UiFetch, UiPop, UiIngest, PaintNothing,
           PaintDue, PaintAll, ChooseWidth, engineVars, linkVars, viewVars, Pushed
<1>2. CASE UiFetch
    <2>1. /\ params' = wish /\ held' = snap /\ upc' = "pop" /\ upc = "frame"
          /\ UNCHANGED <<queue, wish, taken, rows, pending>>
        BY <1>2 DEF UiFetch
    <2> QED BY <1>1, <2>1 DEF ViewInv, RowTypes, PumpInv, PlaceInv, In
<1>3. CASE UiPop
    <2>1. /\ taken' = queue /\ queue' = <<>> /\ upc' = "ingest" /\ taken = <<>>
          /\ UNCHANGED <<params, wish, held, rows, pending>>
        BY <1>3 DEF UiPop, ViewInv, PlaceInv
    <2>2. <<>> \in Seq(Row) /\ Len(<<>>) = 0 /\ \A k : ~In(<<>>, k)
        BY EmptySeq, NoRowIn
    <2>3. RowTypes' /\ PumpInv'
        BY <1>1, <2>1, <2>2 DEF ViewInv, RowTypes, PumpInv
    <2>4. PlaceInv'
        BY <1>1, <2>1, <2>2 DEF ViewInv, PlaceInv
    <2> QED BY <1>1, <2>3, <2>4 DEF ViewInv
<1>4. CASE UiIngest
    <2>1. PICK old : /\ old = IF held.width # plot.width THEN <<>> ELSE rows
                     /\ rows' = Ingested(old)
        BY <1>4 DEF UiIngest
    <2>2. old \in Seq(Row) /\ (old # <<>> => old = rows)
        BY <2>1, EmptySeq DEF ViewInv, RowTypes
    <2>3. /\ rows' \in Seq(Row)
          /\ taken = <<>> => rows' = old
          /\ taken # <<>> /\ rows' # <<>> => rows'[1] = taken[Len(taken)]
        BY <2>1, <2>2, Ingests DEF ViewInv
    <2>4. /\ taken' = <<>> /\ upc = "ingest" /\ upc' = "paint"
          /\ pending' = AtMost(pending + Len(taken), PendingCap)
          /\ UNCHANGED <<params, wish, held, queue>>
        BY <1>4 DEF UiIngest, linkVars
    <2>5. <<>> \in Seq(Row) /\ Len(<<>>) = 0 /\ \A k : ~In(<<>>, k)
        BY EmptySeq, NoRowIn
    <2>6. pending' \in Nat
        <3>1. Len(taken) \in Nat
            BY LenProperties DEF ViewInv, RowTypes
        <3> QED BY <2>4, <3>1, ViewAssumption DEF AtMost, ViewInv, RowTypes
    <2>7. RowTypes' /\ PumpInv'
        BY <1>1, <2>3, <2>4, <2>5, <2>6 DEF ViewInv, RowTypes, PumpInv
    <2>8. rows' # <<>> => \A k \in (rows'[1].no + 1)..Pushed : k \in dropped \/ In(queue, k)
        <3>1. CASE taken = <<>>
            BY <2>2, <2>3, <2>5, <3>1 DEF ViewInv, PlaceInv
        <3>2. CASE taken # <<>>
            BY <2>3, <3>2 DEF ViewInv, PlaceInv
        <3> QED BY <3>1, <3>2
    <2>9. PlaceInv'
        BY <1>1, <2>4, <2>5, <2>8 DEF ViewInv, PlaceInv
    <2> QED BY <1>1, <2>7, <2>9 DEF ViewInv
<1>5. CASE PaintNothing \/ PaintDue \/ PaintAll
    <2>1. /\ UNCHANGED <<params, queue, wish, held, taken, rows>> /\ upc' = "frame"
          /\ upc = "paint"
        BY <1>5 DEF PaintNothing, PaintDue, PaintAll, linkVars
    <2>2. pending' \in Nat
        <3>1. CASE PaintNothing
            BY <3>1 DEF PaintNothing, ViewInv, RowTypes
        <3>2. CASE PaintDue
            <4>1. PICK n \in 1..AtMost(AtMost(pending, Height), PerFrame) :
                      pending' = pending - n
                BY <3>2 DEF PaintDue
            <4>2. n <= pending
                BY ViewAssumption DEF AtMost, ViewInv, RowTypes
            <4> QED BY <4>1, <4>2 DEF ViewInv, RowTypes
        <3>3. CASE PaintAll
            BY <3>3 DEF PaintAll
        <3> QED BY <1>5, <3>1, <3>2, <3>3
    <2>3. RowTypes' /\ PumpInv'
        BY <1>1, <2>1, <2>2 DEF ViewInv, RowTypes, PumpInv
    <2>4. PlaceInv'
        BY <1>1, <2>1 DEF ViewInv, PlaceInv, In
    <2> QED BY <1>1, <2>3, <2>4 DEF ViewInv
<1>6. CASE ChooseWidth
    <2>1. UNCHANGED <<params, queue, upc, held, taken, rows, pending>> /\ wish' \in Widths
        BY <1>6 DEF ChooseWidth, linkVars, frameVars
    <2> QED BY <1>1, <2>1 DEF ViewInv, RowTypes, PumpInv, PlaceInv, In
<1>7. CASE UNCHANGED viewVars
    BY <1>1, <1>7 DEF viewVars, linkVars, frameVars, ViewInv, RowTypes, PumpInv,
           PlaceInv, In
<1> QED BY <1>1, <1>2, <1>3, <1>4, <1>5, <1>6, <1>7 DEF Frame

(* The spectrum that is shown is never ahead of the rows: each row that went *)
(* into it was taken in this frame or before, or found the queue full. It is *)
(* the order of publish_rows (rows first) against that of try_poll (rows     *)
(* last) that makes it so.                                                   *)
THEOREM SpectrumNotAhead == ViewSpec => []RowsKeepUp
<1>1. ViewInit => ViewInv
    BY InitView
<1>2. ViewInv /\ [ViewNext]_(viewVars) => ViewInv'
    BY Pumps, Pushes, Publishes, Frames DEF ViewNext, Engine
<1>3. ViewInv => RowsKeepUp
    <2> SUFFICES ASSUME ViewInv, upc = "paint", rows # <<>>, NEW k \in (Painted + 1)..held.no
                 PROVE  k \in dropped
        BY DEF RowsKeepUp
    <2>1. taken = <<>> /\ ~In(taken, k)
        BY NoRowIn DEF ViewInv, PlaceInv
    <2>2. ~In(queue, k)
        <3>1. \A i \in 1..Len(queue) : queue[i].no \in Nat /\ queue[i].no > held.no
            <4>1. \A i \in 1..Len(queue) : queue[i] \in Row
                BY ElementOfSeq DEF ViewInv, RowTypes
            <4> QED BY <4>1, ViewAssumption DEF Row, ViewInv, PlaceInv
        <3>2. held.no \in Nat /\ k <= held.no
            BY DEF ViewInv, RowTypes
        <3> QED BY <3>1, <3>2 DEF In
    <2>3. Painted = rows[1].no /\ rows[1].no \in Int
        <3>1. 1 \in 1..Len(rows)
            BY LenProperties, EmptySeq DEF ViewInv, RowTypes
        <3>2. rows[1] \in Row
            BY <3>1, ElementOfSeq DEF ViewInv, RowTypes
        <3> QED BY <3>2, ViewAssumption DEF Painted, Row
    <2>4. k \in (rows[1].no + 1)..Pushed
        BY <2>3, PushedType DEF ViewInv, RowTypes, PumpInv
    <2> QED BY <2>1, <2>2, <2>4 DEF ViewInv, PlaceInv
<1> QED BY <1>1, <1>2, <1>3, PTL DEF ViewSpec
-----------------------------------------------------------------------------
(***************************************************************************)
(* The screen: a ring of lines, written from the place after the newest    *)
(* on, by the shader or by the processor.                                  *)
(***************************************************************************)
(* A set of numbers has a least one.                                       *)
LEMMA LeastOf ==
    ASSUME NEW S, S \subseteq Nat, S # {}
    PROVE  \E m \in S : \A k \in S : m <= k
<1>1. IsWellFoundedOn(OpToRel(<, Nat), Nat)
    BY NatLessThanWellFounded
<1>2. \E x \in S : \A y \in S : ~(<<y, x>> \in OpToRel(<, Nat))
    BY <1>1, WFMin
<1>3. PICK x \in S : \A y \in S : ~(<<y, x>> \in OpToRel(<, Nat))
    BY <1>2
<1>4. \A y \in S : ~(y < x)
    BY <1>3 DEF OpToRel
<1> QED BY <1>4

(* Division with a remainder has one result.                               *)
LEMMA Remainder ==
    ASSUME NEW f \in Nat \ {0}, NEW q \in Int, NEW r \in Nat, r < f, NEW a \in Int, a = f * q + r
    PROVE  a % f = r
<1>1. PICK p \in Int : p = a \div f
    OBVIOUS
<1>2. /\ a = f * p + (a % f) /\ a % f \in Int /\ 0 <= a % f /\ a % f < f
    BY <1>1
<1>3. f * p \in Int /\ f * q \in Int /\ f * (p - q) = f * p - f * q
    OBVIOUS
<1>4. f * (p - q) < f /\ f * (q - p) < f /\ f * (q - p) = f * q - f * p
    BY <1>2, <1>3
<1>5. p - q < 1 /\ q - p < 1
    <2>1. \A t \in Int : t >= 1 => f * t >= f
        OBVIOUS
    <2> QED BY <1>4, <2>1
<1> QED BY <1>2, <1>5

(* Once around a ring.                                                     *)
LEMMA Turn ==
    ASSUME NEW l \in Nat \ {0}, NEW a \in Int, -l <= a, a < l + l
    PROVE  a % l = IF a < 0 THEN a + l ELSE IF a < l THEN a ELSE a - l
<1>1. CASE a < 0
    <2>1. a = l * (-1) + (a + l) /\ a + l \in Nat /\ a + l < l
        BY <1>1
    <2>2. a % l = a + l
        BY <2>1, Remainder
    <2> QED BY <1>1, <2>2
<1>2. CASE 0 <= a /\ a < l
    <2>1. a = l * 0 + a /\ a \in Nat
        BY <1>2
    <2>2. a % l = a
        BY <1>2, <2>1, Remainder
    <2> QED BY <1>2, <2>2
<1>3. CASE l <= a
    <2>1. a = l * 1 + (a - l) /\ a - l \in Nat /\ a - l < l
        BY <1>3
    <2>2. a % l = a - l
        BY <2>1, Remainder
    <2> QED BY <1>3, <2>2
<1> QED BY <1>1, <1>2, <1>3
(* Once around a ring of h places at most, from the place a.                *)
Wrapped(h, a) == IF a < 0 THEN a + h ELSE IF a < h THEN a ELSE a - h

LEMMA WrappedIs ==
    ASSUME NEW h \in Nat \ {0}, NEW a \in Int, -h <= a, a < h + h
    PROVE  a % h = Wrapped(h, a)
BY Turn DEF Wrapped

(* A ring of h places, whose next is t, is written d places on and then     *)
(* read at the i-th place from the oldest.                                  *)
OnRing(h, t, d, i) ==
    /\ h \in Nat \ {0} /\ t \in Int /\ 0 <= t /\ t < h
    /\ d \in Nat /\ d <= h /\ i \in Int /\ 1 <= i /\ i <= h

LEMMA WrappedTwice ==
    ASSUME NEW h, NEW t, NEW d, NEW i, OnRing(h, t, d, i)
    PROVE  LET u == Wrapped(h, t + d)
               y == Wrapped(h, u + i - 1)
           IN  /\ u \in Int /\ 0 <= u /\ u < h /\ y \in Int /\ 0 <= y /\ y < h
               /\ Wrapped(h, y - t) = IF i <= h - d THEN i + d - 1 ELSE i - 1 - (h - d)
               /\ i <= h - d => Wrapped(h, t + (i + d) - 1) = y
BY DEF Wrapped, OnRing

(* It was the (i + d)-th place before, or holds what was written there.     *)
LEMMA Rings ==
    ASSUME NEW h, NEW t, NEW d, NEW i, OnRing(h, t, d, i),
           NEW u, u = (t + d) % h, NEW y, y = (u + i - 1) % h
    PROVE  /\ u \in Int /\ 0 <= u /\ u < h /\ y \in Int /\ 0 <= y /\ y < h
           /\ (y - t) % h = IF i <= h - d THEN i + d - 1 ELSE i - 1 - (h - d)
           /\ i <= h - d => (t + (i + d) - 1) % h = y
<1>1. PICK a \in Int : a = t + d /\ -h <= a /\ a < h + h
    BY DEF OnRing
<1>2. u = Wrapped(h, t + d)
    <2>1. a % h = Wrapped(h, a)
        BY <1>1, WrappedIs DEF OnRing
    <2> QED BY <1>1, <2>1
<1>3. u \in Int /\ 0 <= u /\ u < h
    BY <1>2 DEF Wrapped, OnRing
<1>4. PICK b \in Int : b = u + i - 1 /\ -h <= b /\ b < h + h
    BY <1>3 DEF OnRing
<1>5. y = Wrapped(h, u + i - 1)
    <2>1. b % h = Wrapped(h, b)
        BY <1>4, WrappedIs DEF OnRing
    <2> QED BY <1>4, <2>1
<1>6. /\ y \in Int /\ 0 <= y /\ y < h
      /\ Wrapped(h, y - t) = IF i <= h - d THEN i + d - 1 ELSE i - 1 - (h - d)
      /\ i <= h - d => Wrapped(h, t + (i + d) - 1) = y
    BY <1>2, <1>5, WrappedTwice
<1>7. PICK c \in Int : c = y - t /\ -h <= c /\ c < h + h
    BY <1>6 DEF OnRing
<1>8. c % h = Wrapped(h, c)
    BY <1>7, WrappedIs DEF OnRing
<1>9. ASSUME i <= h - d PROVE (t + (i + d) - 1) % h = y
    <2>1. PICK e \in Int : e = t + (i + d) - 1 /\ -h <= e /\ e < h + h
        BY <1>9 DEF OnRing
    <2>2. e % h = Wrapped(h, e)
        BY <2>1, WrappedIs DEF OnRing
    <2> QED BY <1>6, <1>9, <2>1, <2>2
<1> QED BY <1>3, <1>6, <1>7, <1>8, <1>9

(* Some rows of a sequence in their order.                                  *)
Picks(o, s) ==
    \E f \in [1..Len(o) -> 1..Len(s)] :
        /\ \A r \in 1..Len(o) : o[r] = s[f[r]]
        /\ \A q, r \in 1..Len(o) : q < r => f[q] < f[r]

(* The rows of one width: where they stand, and that they stay in order.    *)
LEMMA OfWidthIs ==
    ASSUME NEW s \in Seq(Row), NEW w, NEW o, o = OfWidth(s, w)
    PROVE  /\ o \in Seq(Row) /\ Len(o) \in Nat /\ Len(o) <= Len(s)
           /\ Picks(o, s)
<1> DEFINE Of(i) == {j \in 1..i : s[j].width = w}
           U(i) == Cardinality(Of(i))
<1>1. PICK N \in Nat : N = Len(s)
    BY LenProperties
<1>2. o = [r \in 1..U(N) |-> s[CHOOSE i \in 1..N : U(i) = r /\ U(i - 1) = r - 1]]
    BY <1>1 DEF OfWidth
<1>3. ASSUME NEW i \in 0..N PROVE IsFiniteSet(Of(i)) /\ U(i) \in Nat /\ U(i) <= i
    <2>1. IsFiniteSet(1..i) /\ Cardinality(1..i) = i
        BY FS_Interval
    <2>2. Of(i) \in SUBSET (1..i)
        OBVIOUS
    <2>3. IsFiniteSet(Of(i)) /\ Cardinality(Of(i)) <= i
        BY <2>1, <2>2, FS_Subset
    <2> QED BY <2>3, FS_CardinalityType
<1>4. ASSUME NEW i \in 0..N, NEW j \in 0..N, i <= j PROVE U(i) <= U(j)
    <2>1. Of(i) \in SUBSET Of(j)
        BY <1>4
    <2>2. IsFiniteSet(Of(j))
        BY <1>3
    <2> HIDE DEF Of
    <2> QED BY <2>1, <2>2, FS_Subset
<1>5. ASSUME NEW i \in 1..N PROVE U(i) = U(i - 1) \/ U(i) = U(i - 1) + 1
    <2>1. Of(i) = Of(i - 1) \/ Of(i) = Of(i - 1) \cup {i}
        BY <1>1
    <2>2. i - 1 \in 0..N
        BY <1>1
    <2>3. IsFiniteSet(Of(i - 1))
        BY <1>3, <2>2
    <2> HIDE DEF Of
    <2> QED BY <2>1, <2>3, FS_AddElement
<1>6. U(0) = 0
    BY <1>1, <1>3
<1> HIDE DEF U, Of
<1>7. ASSUME NEW r \in 1..U(N) PROVE \E i \in 1..N : U(i) = r /\ U(i - 1) = r - 1
    <2>1. PICK T : T = {i \in 0..N : U(i) >= r}
        OBVIOUS
    <2>2. N \in T /\ T \subseteq Nat /\ N \in 0..N
        BY <1>3, <2>1
    <2>3. PICK m \in T : \A k \in T : m <= k
        BY <2>2, LeastOf
    <2>4. m \in 0..N /\ U(m) >= r /\ m # 0
        BY <1>6, <2>1
    <2>5. m \in 1..N /\ m - 1 \in 0..N /\ m - 1 \notin T
        BY <2>3, <2>4
    <2>6. U(m - 1) \in Nat /\ U(m) \in Nat /\ U(m - 1) < r
        BY <1>3, <2>1, <2>4, <2>5
    <2>7. U(m) = U(m - 1) \/ U(m) = U(m - 1) + 1
        BY <1>5, <2>5
    <2>8. r \in Nat
        <3>1. U(N) \in Nat
            BY <1>3, <2>2
        <3> QED BY <3>1
    <2>9. U(m) = r /\ U(m - 1) = r - 1
        BY <2>4, <2>6, <2>7, <2>8
    <2> QED BY <2>5, <2>9
<1>8. PICK M \in Nat : M = U(N) /\ M <= N
    <2>1. N \in 0..N
        BY <1>1
    <2> QED BY <1>3, <2>1
<1>9. PICK f : f = [r \in 1..M |-> CHOOSE i \in 1..N : U(i) = r /\ U(i - 1) = r - 1]
    OBVIOUS
<1>10. ASSUME NEW r \in 1..M PROVE f[r] \in 1..N /\ U(f[r]) = r
    BY <1>7, <1>8, <1>9
<1>11. f \in [1..M -> 1..N]
    BY <1>9, <1>10
<1>12. o = [r \in 1..M |-> s[f[r]]]
    BY <1>2, <1>8, <1>9
<1>13. \A r \in 1..M : s[f[r]] \in Row
    BY <1>1, <1>10, ElementOfSeq
<1>14. o \in Seq(Row) /\ Len(o) = M
    BY <1>12, <1>13, IsASeq, LenProperties
<1>15. ASSUME NEW q \in 1..M, NEW r \in 1..M, q < r PROVE f[q] < f[r]
    <2>1. f[q] \in 0..N /\ f[r] \in 0..N /\ f[q] \in 1..N /\ f[r] \in 1..N
        BY <1>10
    <2>2. f[r] <= f[q] => U(f[r]) <= U(f[q])
        BY <1>4, <2>1
    <2> QED BY <1>10, <1>15, <2>1, <2>2
<1>16. \A r \in 1..M : o[r] = s[f[r]]
    BY <1>12
<1>17. Picks(o, s)
    BY <1>1, <1>11, <1>14, <1>15, <1>16 DEF Picks
<1> QED BY <1>1, <1>8, <1>14, <1>17

(* What line the ring shows at the i-th place from the top, the next line  *)
(* to write being t.                                                       *)
At(image, t, i) == image[(t + i - 1) % Height]

(* Lines written to a ring are its newest, and the others move up.          *)
Rolls(image, t, s, w, u) ==
    /\ image \in [Lines -> Nat] /\ t \in Lines /\ s \in Seq(Nat) /\ Len(s) <= Height
    /\ w = Written(image, t, s) /\ u = (t + Len(s)) % Height

LEMMA WrittenIs ==
    ASSUME NEW image, NEW t, NEW s, NEW w, NEW u, Rolls(image, t, s, w, u)
    PROVE  /\ w \in [Lines -> Nat] /\ u \in Lines
           /\ \A i \in 1..Height :
                  At(w, u, i) = IF i <= Height - Len(s) THEN At(image, t, i + Len(s))
                                ELSE s[i - (Height - Len(s))]
           /\ \A b \in Nat : /\ \A y \in Lines : image[y] <= b
                             /\ \A k \in 1..Len(s) : s[k] <= b
                             => \A y \in Lines : w[y] <= b
<1>14. /\ image \in [Lines -> Nat] /\ t \in Lines /\ s \in Seq(Nat) /\ Len(s) <= Height
      /\ w = Written(image, t, s) /\ u = (t + Len(s)) % Height
    BY DEF Rolls
<1> USE <1>14
<1>1. PICK H \in Nat \ {0} : H = Height
    BY ViewAssumption
<1>2. PICK d \in Nat : d = Len(s) /\ d <= H
    BY <1>1, LenProperties
<1>3. \A k \in 1..d : s[k] \in Nat
    BY <1>2, ElementOfSeq
<1>4. Lines = 0..(H - 1)
    BY <1>1 DEF Lines
<1>5. t \in Int /\ 0 <= t /\ t < H
    BY <1>4
<1>6. w = [y \in Lines |-> IF ((y - t) % H) + 1 <= d THEN s[((y - t) % H) + 1] ELSE image[y]]
    BY <1>1, <1>2 DEF Written
<1>7. ASSUME NEW y \in Lines
      PROVE  /\ ((y - t) % H) + 1 \in 1..H
             /\ w[y] = IF ((y - t) % H) + 1 <= d THEN s[((y - t) % H) + 1] ELSE image[y]
    <2>1. PICK a \in Int : a = y - t /\ -H <= a /\ a < H + H
        BY <1>4
    <2>2. a % H = IF a < 0 THEN a + H ELSE IF a < H THEN a ELSE a - H
        BY <2>1, Turn
    <2>3. a % H \in 0..(H - 1)
        BY <2>1, <2>2
    <2> QED BY <1>6, <2>1, <2>3
<1>8. w \in [Lines -> Nat]
    <2>1. \A y \in Lines : w[y] \in Nat
        BY <1>3, <1>7
    <2> QED BY <1>6, <2>1
<1>10. u = (t + d) % H
    BY <1>1, <1>2
<1>9. u \in Int /\ 0 <= u /\ u < H
    <2>1. OnRing(H, t, d, 1)
        BY <1>2, <1>5 DEF OnRing
    <2> QED BY <1>10, <2>1, Rings
<1>11. u \in Lines
    BY <1>4, <1>9
<1>12. ASSUME NEW i \in 1..H
       PROVE  At(w, u, i) = IF i <= H - d THEN At(image, t, i + d) ELSE s[i - (H - d)]
    <2>1. PICK y : y = (u + i - 1) % H
        OBVIOUS
    <2>2. /\ y \in Int /\ 0 <= y /\ y < H
          /\ (y - t) % H = IF i <= H - d THEN i + d - 1 ELSE i - 1 - (H - d)
          /\ i <= H - d => (t + (i + d) - 1) % H = y
        <3>1. OnRing(H, t, d, i)
            BY <1>2, <1>5 DEF OnRing
        <3> QED BY <1>10, <2>1, <3>1, Rings
    <2>3. y \in Lines
        BY <1>4, <2>2
    <2>5. At(w, u, i) = w[y]
        BY <1>1, <2>1 DEF At
    <2>6. CASE i <= H - d
        <3>1. ((y - t) % H) + 1 = i + d
            BY <1>2, <2>2, <2>6
        <3>2. w[y] = image[y]
            BY <1>2, <1>7, <2>3, <2>6, <3>1
        <3>5. At(image, t, i + d) = image[y]
            BY <1>1, <2>2, <2>6 DEF At
        <3> QED BY <2>5, <2>6, <3>2, <3>5
    <2>7. CASE ~(i <= H - d)
        <3>1. ((y - t) % H) + 1 = i - (H - d) /\ i - (H - d) <= d
            BY <1>2, <2>2, <2>7
        <3>2. w[y] = s[i - (H - d)]
            BY <1>7, <2>3, <3>1
        <3> QED BY <2>5, <2>7, <3>2
    <2> QED BY <2>6, <2>7
<1>13. ASSUME NEW b \in Nat, \A y \in Lines : image[y] <= b, \A k \in 1..Len(s) : s[k] <= b
       PROVE  \A y \in Lines : w[y] <= b
    BY <1>2, <1>7, <1>13
<1> QED BY <1>1, <1>2, <1>8, <1>11, <1>12, <1>13

(* The batch for the shader: rows of this frame in their order, no more     *)
(* than the ring has lines.                                                 *)
LEMMA BatchIs ==
    ASSUME taken \in Seq(Row), NEW old \in Seq(Row),
           NEW all, all = Newest(Reversed(taken) \o old, Height),
           NEW o, o = GpuBatch(all)
    PROVE  /\ o \in Seq(Row) /\ Len(o) \in Nat /\ Len(o) <= Height /\ Len(taken) \in Nat
           /\ Picks(o, taken)
<1>1. PICK m \in Nat, l \in Nat : m = Len(taken) /\ l = Len(old)
    BY LenProperties
<1>2. PICK h : h = Len(all)
    OBVIOUS
<1>18. h \in Nat /\ h <= Height /\ h <= m + l
    <2>1. h = AtMost(Height, m + l)
        BY <1>1, <1>2, OnTop
    <2> QED BY <2>1, ViewAssumption DEF AtMost
<1>3. all \in Seq(Row) /\ \A k \in 1..h : k <= m => all[k] = taken[m + 1 - k]
    BY <1>1, <1>2, OnTop
<1>4. PICK n \in Nat : n = AtMost(m, h) /\ n <= m /\ n <= h
    BY <1>18 DEF AtMost
<1>5. PICK c : c = Newest(all, m)
    OBVIOUS
<1>6. c \in Seq(Row) /\ Len(c) = n /\ \A k \in 1..n : c[k] = all[k]
    <2>1. c \in Seq(Row) /\ Len(c) = AtMost(m, Len(all)) /\ \A k \in 1..Len(c) : c[k] = all[k]
        BY <1>3, <1>5, NewestIs
    <2> QED BY <1>2, <1>4, <2>1
<1>7. PICK q : q = Reversed(c)
    OBVIOUS
<1>8. q \in Seq(Row) /\ Len(q) = n /\ \A k \in 1..n : q[k] = c[n + 1 - k]
    BY <1>6, <1>7, ReversedIs
<1>9. ASSUME NEW k \in 1..n PROVE q[k] = taken[m - n + k] /\ m - n + k \in 1..m
    <2>1. PICK i \in 1..n : i = n + 1 - k
        OBVIOUS
    <2>2. q[k] = c[i] /\ c[i] = all[i]
        BY <1>6, <1>8, <2>1
    <2>3. i \in 1..h /\ i <= m
        BY <1>4, <1>18
    <2>4. all[i] = taken[m + 1 - i]
        BY <1>3, <2>3
    <2>5. m + 1 - i = m - n + k /\ m - n + k \in 1..m
        BY <1>4, <2>1
    <2> QED BY <2>2, <2>4, <2>5
<1>10. o = OfWidth(q, all[1].width)
    BY <1>1, <1>5, <1>7 DEF GpuBatch
<1>11. o \in Seq(Row) /\ Len(o) \in Nat /\ Len(o) <= n /\ Picks(o, q)
    <2>1. o \in Seq(Row) /\ Len(o) \in Nat /\ Len(o) <= Len(q) /\ Picks(o, q)
        BY <1>8, <1>10, OfWidthIs
    <2> QED BY <1>8, <2>1
<1>12. PICK f \in [1..Len(o) -> 1..n] :
              /\ \A r \in 1..Len(o) : o[r] = q[f[r]]
              /\ \A j, r \in 1..Len(o) : j < r => f[j] < f[r]
    BY <1>8, <1>11 DEF Picks
<1>13. PICK g : g = [r \in 1..Len(o) |-> m - n + f[r]]
    OBVIOUS
<1>14. ASSUME NEW r \in 1..Len(o) PROVE g[r] = m - n + f[r] /\ g[r] \in 1..m /\ o[r] = taken[g[r]]
    <2>1. f[r] \in 1..n /\ o[r] = q[f[r]] /\ g[r] = m - n + f[r]
        BY <1>12, <1>13
    <2> QED BY <1>9, <2>1
<1>15. g \in [1..Len(o) -> 1..m]
    BY <1>13, <1>14
<1>16. ASSUME NEW j \in 1..Len(o), NEW k \in 1..Len(o), j < k PROVE g[j] < g[k]
    <2>1. f[j] \in 1..n /\ f[k] \in 1..n /\ f[j] < f[k]
        BY <1>12, <1>16
    <2> QED BY <1>14, <2>1
<1>17. Len(o) <= Height
    BY <1>4, <1>11, <1>18, ViewAssumption
<1>19. Picks(o, taken)
    BY <1>1, <1>14, <1>15, <1>16 DEF Picks
<1> QED BY <1>1, <1>11, <1>17, <1>19

(* Orders of rows by their numbers.                                         *)
Rising(s) == \A i, j \in 1..Len(s) : i < j => s[i].no < s[j].no
Falling(s) == \A i, j \in 1..Len(s) : i < j => s[j].no < s[i].no
UpTo(s, b) == \A i \in 1..Len(s) : s[i].no <= b
Past(s, a) == \A i \in 1..Len(s) : a < s[i].no
ShowsUpTo(image, b) == \A y \in Lines : image[y] <= b

(* Two marks part what is on the screen or in the history, what came with   *)
(* this frame, and what waits in the queue.                                 *)
Marked(a, b) ==
    /\ a \in Nat /\ b \in Nat /\ a <= b /\ b <= Pushed
    /\ UpTo(rows, a) /\ ShowsUpTo(line, a)
    /\ Past(taken, a) /\ UpTo(taken, b)
    /\ Past(queue, b) /\ UpTo(queue, Pushed)

OrderInv ==
    /\ Falling(rows) /\ Rising(taken) /\ Rising(queue)
    /\ \E a, b : Marked(a, b)

(* From the place lo on, the lines that show a row show them in order.      *)
Ascends(image, t, lo) ==
    \A i, j \in 1..Height :
        /\ lo <= i /\ i < j
        /\ At(image, t, i) # 0 /\ At(image, t, j) # 0
        => At(image, t, i) < At(image, t, j)

(* The first place that shows a row of the history: as many follow it as    *)
(* the history has painted rows.                                            *)
Lo == Height - Len(rows) + pending + 1

(* And the rows that are due are newer than all of them.                    *)
DueAreNewer ==
    \A i \in 1..Height, k \in 1..Len(rows) :
        Lo <= i /\ k <= pending => At(line, top, i) < rows[k].no

WindowInv ==
    /\ line \in [Lines -> Nat] /\ top \in Lines
    /\ Len(rows) <= Height /\ pending <= PendingCap
    /\ gpu => Ascends(line, top, 1)
    /\ ~gpu /\ PerFrame = 1 => Ascends(line, top, Lo) /\ DueAreNewer

(* Lines that are newer than all of the ring keep its order when they are   *)
(* written to it.                                                           *)
Climbs(s) ==
    \A j, k \in 1..Len(s) : j < k /\ s[j] # 0 /\ s[k] # 0 => s[j] < s[k]
NewerThan(s, image, t, lo) ==
    \A i \in 1..Height, k \in 1..Len(s) :
        lo <= i /\ At(image, t, i) # 0 /\ s[k] # 0 => At(image, t, i) < s[k]

LEMMA Appends ==
    ASSUME NEW image, NEW t, NEW s, NEW w, NEW u, Rolls(image, t, s, w, u),
           NEW lo \in Int, NEW old \in Int, old = lo + Len(s),
           Ascends(image, t, old), Climbs(s), NewerThan(s, image, t, old)
    PROVE  Ascends(w, u, lo)
<1>1. PICK H \in Nat \ {0} : H = Height
    BY ViewAssumption
<1>2. PICK d \in Nat : d = Len(s) /\ d <= H
    BY <1>1, LenProperties DEF Rolls
<1>3. \A i \in 1..H :
          At(w, u, i) = IF i <= H - d THEN At(image, t, i + d) ELSE s[i - (H - d)]
    BY <1>1, <1>2, WrittenIs
<1> SUFFICES ASSUME NEW i \in 1..H, NEW j \in 1..H, lo <= i, i < j,
                    At(w, u, i) # 0, At(w, u, j) # 0
             PROVE  At(w, u, i) < At(w, u, j)
    BY <1>1 DEF Ascends
<1>4. CASE j <= H - d
    <2>1. PICK p \in 1..H, q \in 1..H : p = i + d /\ q = j + d
        BY <1>4
    <2>2. At(w, u, i) = At(image, t, p) /\ At(w, u, j) = At(image, t, q)
        BY <1>3, <1>4, <2>1
    <2>3. old <= p /\ p < q
        BY <1>2, <2>1
    <2> QED BY <1>1, <2>2, <2>3 DEF Ascends
<1>5. CASE i <= H - d /\ ~(j <= H - d)
    <2>1. i + d \in 1..H /\ j - (H - d) \in 1..d
        BY <1>2, <1>5
    <2>4. PICK p \in 1..H, q \in 1..d : p = i + d /\ q = j - (H - d)
        BY <2>1
    <2>2. At(w, u, i) = At(image, t, p) /\ At(w, u, j) = s[q]
        BY <1>3, <1>5, <2>4
    <2>3. old <= p
        BY <1>2, <2>4
    <2> QED BY <1>1, <1>2, <2>2, <2>3 DEF NewerThan
<1>6. CASE ~(i <= H - d)
    <2>1. i - (H - d) \in 1..d /\ j - (H - d) \in 1..d /\ ~(j <= H - d)
        BY <1>2, <1>6
    <2>2. PICK p \in 1..d, q \in 1..d : p = i - (H - d) /\ q = j - (H - d)
        BY <2>1
    <2>3. p < q
        BY <1>2, <2>2
    <2>4. At(w, u, i) = s[p] /\ At(w, u, j) = s[q]
        BY <1>3, <1>6, <2>1, <2>2
    <2> QED BY <1>2, <2>3, <2>4 DEF Climbs
<1> QED BY <1>4, <1>5, <1>6

(* A shorter window of the ring is in order too.                            *)
LEMMA Shorter ==
    ASSUME NEW image, NEW t, NEW lo \in Int, NEW hi \in Int, lo <= hi, Ascends(image, t, lo)
    PROVE  Ascends(image, t, hi)
BY ViewAssumption DEF Ascends

(* What a line of the ring shows is not newer than the newest.              *)
LEMMA AtMostNewest ==
    ASSUME NEW image \in [Lines -> Nat], NEW t \in Lines, NEW i \in 1..Height,
           NEW a, ShowsUpTo(image, a)
    PROVE  At(image, t, i) \in Nat /\ At(image, t, i) <= a
<1>1. PICK h \in Nat \ {0} : h = Height
    BY ViewAssumption
<1>2. t \in Int /\ 0 <= t /\ t < h
    BY <1>1 DEF Lines
<1>3. PICK b \in Int : b = t + i - 1 /\ -h <= b /\ b < h + h /\ 0 <= b
    BY <1>1, <1>2
<1>4. b % h = Wrapped(h, b)
    BY <1>3, WrappedIs
<1>5. Wrapped(h, b) \in Lines
    BY <1>1, <1>3 DEF Wrapped, Lines
<1>6. (t + i - 1) % Height \in Lines
    BY <1>1, <1>3, <1>4, <1>5
<1> QED BY <1>6 DEF At, ShowsUpTo

(* What the user interface shows is in order when it starts: it is nothing. *)
LEMMA InitScreen == ViewInit => OrderInv /\ WindowInv
<1> SUFFICES ASSUME ViewInit PROVE OrderInv /\ WindowInv
    OBVIOUS
<1>1. PICK h \in Nat \ {0} : h = Height
    BY ViewAssumption
<1>2. /\ out = <<>> /\ made = 0 /\ queue = <<>> /\ taken = <<>> /\ rows = <<>>
      /\ pending = 0 /\ top = 0 /\ line = [y \in Lines |-> 0]
    BY DEF ViewInit
<1>3. Len(out) = 0 /\ Len(queue) = 0 /\ Len(taken) = 0 /\ Len(rows) = 0 /\ Pushed = 0
    <2>1. Len(<<>>) = 0 /\ 0 - 0 = 0
        BY EmptySeq
    <2> QED BY <1>2, <2>1, Zenon DEF Pushed
<1>4. line \in [Lines -> Nat] /\ ShowsUpTo(line, 0) /\ top \in Lines
    BY <1>1, <1>2 DEF ShowsUpTo, Lines
<1>5. OrderInv
    <2>1. Marked(0, 0)
        BY <1>3, <1>4 DEF Marked, UpTo, Past
    <2> QED BY <1>3, <2>1 DEF OrderInv, Falling, Rising
<1>6. \A i \in 1..Height : At(line, top, i) = 0
    BY <1>4, AtMostNewest
<1>7. Ascends(line, top, 1) /\ Ascends(line, top, Lo)
    BY <1>6 DEF Ascends
<1>8. WindowInv
    BY <1>1, <1>2, <1>3, <1>4, <1>7, ViewAssumption DEF WindowInv, DueAreNewer
<1> QED BY <1>5, <1>8

(* A step that leaves the rows where they are.                              *)
LEMMA Undisturbed ==
    ASSUME OrderInv, UNCHANGED <<rows, taken, queue, line>>, Pushed' = Pushed
    PROVE  OrderInv'
<1>1. PICK a, b : Marked(a, b)
    BY DEF OrderInv
<1>2. Marked(a, b)'
    BY <1>1 DEF Marked, UpTo, Past, ShowsUpTo
<1>3. Falling(rows)' /\ Rising(taken)' /\ Rising(queue)'
    BY DEF OrderInv, Falling, Rising
<1> QED BY <1>2, <1>3 DEF OrderInv

LEMMA SameWindow ==
    ASSUME WindowInv, UNCHANGED <<gpu, line, top, rows, pending>>
    PROVE  WindowInv'
BY DEF WindowInv, DueAreNewer, Ascends, At, Lo

(* The engine puts rows only behind the newest of the queue.                *)
LEMMA PushInOrder ==
    ASSUME ViewInv, OrderInv, WindowInv, PushRow
    PROVE  OrderInv' /\ WindowInv'
<1>1. PICK h : h = Head(out)
    OBVIOUS
<1>2. h.no = Pushed + 1 /\ Pushed' = Pushed + 1 /\ h \in Row
    BY <1>1, Pushes
<1>3. UNCHANGED <<rows, taken, line, top, gpu, pending>>
    BY DEF PushRow, frameVars, screenVars
<1>4. queue' = queue \/ queue' = Append(queue, h)
    BY <1>1 DEF PushRow
<1>5. PICK a, b : Marked(a, b)
    BY DEF OrderInv
<1>6. Pushed \in Int /\ a \in Nat /\ b \in Nat /\ b <= Pushed
    BY <1>5, PushedType DEF ViewInv, Marked
<1>7. Rising(queue') /\ Past(queue', b) /\ UpTo(queue', Pushed')
    <2>1. /\ Rising(queue) /\ Past(queue, b) /\ UpTo(queue, Pushed)
          /\ \A i \in 1..Len(queue) : queue[i].no \in Nat
        <3>1. \A i \in 1..Len(queue) : queue[i] \in Row
            BY ElementOfSeq DEF ViewInv, RowTypes
        <3> QED BY <1>5, <3>1, ViewAssumption DEF OrderInv, Marked, Row
    <2>2. CASE queue' = queue
        BY <1>2, <1>6, <2>1, <2>2 DEF UpTo
    <2>3. CASE queue' = Append(queue, h)
        <3>1. PICK l \in Nat : l = Len(queue)
            BY LenProperties DEF ViewInv, RowTypes
        <3>2. /\ Len(queue') = l + 1 /\ queue'[l + 1] = h
              /\ \A i \in 1..l : queue'[i] = queue[i]
            BY <1>2, <2>3, <3>1, AppendProperties DEF ViewInv, RowTypes
        <3>3. \A i \in 1..(l + 1) : queue'[i].no = IF i <= l THEN queue[i].no ELSE Pushed + 1
            BY <1>2, <3>2
        <3>4. UpTo(queue', Pushed')
            BY <1>2, <1>6, <2>1, <3>1, <3>2, <3>3 DEF UpTo
        <3>5. Past(queue', b)
            BY <1>6, <2>1, <3>1, <3>2, <3>3 DEF Past
        <3>6. Rising(queue')
            BY <1>6, <2>1, <3>1, <3>2, <3>3 DEF Rising, UpTo
        <3> QED BY <3>4, <3>5, <3>6
    <2> QED BY <1>4, <2>2, <2>3
<1>8. Marked(a, b)'
    <2>1. UpTo(rows', a) /\ ShowsUpTo(line', a) /\ Past(taken', a) /\ UpTo(taken', b) /\ a <= b
        BY <1>3, <1>5 DEF Marked
    <2>2. b <= Pushed'
        BY <1>2, <1>6
    <2> QED BY <1>6, <1>7, <2>1, <2>2 DEF Marked, UpTo, Past, ShowsUpTo
<1>9. Falling(rows') /\ Rising(taken')
    BY <1>3 DEF OrderInv
<1>10. OrderInv'
    BY <1>7, <1>8, <1>9 DEF OrderInv, Rising, Falling
<1> QED BY <1>3, <1>10, SameWindow

(* A frame takes all that waits.                                            *)
LEMMA PopInOrder ==
    ASSUME ViewInv, OrderInv, WindowInv, UiPop
    PROVE  OrderInv' /\ WindowInv'
<1>1. taken' = queue /\ queue' = <<>> /\ UNCHANGED <<rows, line, top, gpu, pending>>
    BY DEF UiPop, screenVars
<1>2. Pushed' = Pushed /\ Pushed \in Int
    BY Frames, PushedType DEF Frame, ViewInv
<1>3. PICK a, b : Marked(a, b)
    BY DEF OrderInv
<1>4. Len(<<>>) = 0
    BY EmptySeq
<1>5. Past(taken', a)
    <2>1. \A i \in 1..Len(queue) : queue[i].no \in Nat
        <3>1. \A i \in 1..Len(queue) : queue[i] \in Row
            BY ElementOfSeq DEF ViewInv, RowTypes
        <3> QED BY <3>1, ViewAssumption DEF Row
    <2> QED BY <1>1, <1>3, <2>1 DEF Marked, Past
<1>6. Marked(a, Pushed)'
    <2>1. UpTo(rows', a) /\ ShowsUpTo(line', a) /\ UpTo(taken', Pushed)
        BY <1>1, <1>3 DEF Marked
    <2>2. Past(queue', Pushed) /\ UpTo(queue', Pushed)
        BY <1>1, <1>4 DEF Past, UpTo
    <2>3. a \in Nat /\ Pushed \in Nat /\ a <= Pushed
        BY <1>2, <1>3 DEF Marked
    <2> QED BY <1>2, <1>5, <2>1, <2>2, <2>3 DEF Marked, UpTo, Past, ShowsUpTo
<1>7. Falling(rows') /\ Rising(taken') /\ Rising(queue')
    BY <1>1, <1>4 DEF OrderInv, Rising
<1>8. OrderInv'
    BY <1>6, <1>7 DEF OrderInv, Rising, Falling
<1> QED BY <1>1, <1>8, SameWindow

(* The history a frame leaves is in order, and not newer than the frame.    *)
LEMMA IngestInOrder ==
    ASSUME ViewInv, OrderInv, NEW a, NEW b, Marked(a, b),
           NEW old \in Seq(Row), old = rows \/ old = <<>>, NEW c, c = Ingested(old)
    PROVE  c \in Seq(Row) /\ Falling(c) /\ UpTo(c, b)
<1>1. PICK m \in Nat, l \in Nat : m = Len(taken) /\ l = Len(old)
    BY LenProperties DEF ViewInv, RowTypes
<1>2. /\ a \in Nat /\ b \in Nat /\ a <= b
      /\ Falling(old) /\ UpTo(old, a) /\ Rising(taken) /\ Past(taken, a) /\ UpTo(taken, b)
    <2>1. Len(<<>>) = 0
        BY EmptySeq
    <2>2. Falling(<<>>) /\ UpTo(<<>>, a)
        BY <2>1 DEF Falling, UpTo
    <2> QED BY <2>2 DEF Marked, OrderInv
<1>3. /\ \A i \in 1..m : taken[i].no \in Nat
      /\ \A i \in 1..l : old[i].no \in Nat
    <2>1. /\ \A i \in 1..m : taken[i] \in Row
          /\ \A i \in 1..l : old[i] \in Row
        BY <1>1, ElementOfSeq DEF ViewInv, RowTypes
    <2> QED BY <2>1, ViewAssumption DEF Row
<1>4. CASE taken = <<>>
    <2>1. c = old
        BY <1>4 DEF Ingested
    <2>2. UpTo(c, b)
        BY <1>1, <1>2, <1>3, <2>1 DEF UpTo
    <2> QED BY <1>2, <2>1, <2>2
<1>5. CASE taken # <<>>
    <2>1. PICK n : n = Len(c)
        OBVIOUS
    <2>2. /\ c \in Seq(Row)
          /\ \A k \in 1..n : c[k] = IF k <= m THEN taken[m + 1 - k] ELSE old[k - m]
        BY <1>1, <1>5, <2>1, IngestedIs DEF ViewInv, RowTypes
    <2>3. n \in Nat /\ n <= m + l
        <3>1. PICK h \in Nat : h = Height
            BY ViewAssumption
        <3>2. /\ Excess \in Nat
              /\ n = IF AtMost(h, m + l) - Excess >= 1 THEN AtMost(h, m + l) - Excess ELSE 0
            BY <1>1, <1>5, <2>1, <3>1, IngestedIs DEF ViewInv, RowTypes, Kept
        <3> QED BY <3>2 DEF AtMost
    <2>4. ASSUME NEW k \in 1..n
          PROVE  \/ k <= m /\ m + 1 - k \in 1..m /\ c[k] = taken[m + 1 - k]
                 \/ k > m /\ k - m \in 1..l /\ c[k] = old[k - m]
        BY <2>2, <2>3
    <2>5. UpTo(c, b)
        <3> SUFFICES ASSUME NEW k \in 1..n PROVE c[k].no <= b
            BY <2>1 DEF UpTo
        <3>1. CASE k <= m /\ m + 1 - k \in 1..m /\ c[k] = taken[m + 1 - k]
            BY <1>1, <1>2, <3>1 DEF UpTo
        <3>2. CASE k > m /\ k - m \in 1..l /\ c[k] = old[k - m]
            <4>1. c[k].no <= a /\ c[k].no \in Nat
                BY <1>1, <1>2, <1>3, <3>2 DEF UpTo
            <4> QED BY <1>2, <4>1
        <3> QED BY <2>4, <3>1, <3>2
    <2>6. Falling(c)
        <3> SUFFICES ASSUME NEW j \in 1..n, NEW k \in 1..n, j < k PROVE c[k].no < c[j].no
            BY <2>1 DEF Falling
        <3>1. CASE k <= m
            <4>1. PICK p \in Int, q \in Int : p = m + 1 - j /\ q = m + 1 - k
                OBVIOUS
            <4>2. p \in 1..m /\ q \in 1..m /\ q < p /\ c[j] = taken[p] /\ c[k] = taken[q]
                BY <2>3, <2>4, <3>1, <4>1
            <4> QED BY <1>1, <1>2, <4>2 DEF Rising
        <3>2. CASE j <= m /\ ~(k <= m)
            <4>1. PICK p \in Int, q \in Int : p = m + 1 - j /\ q = k - m
                OBVIOUS
            <4>2. p \in 1..m /\ q \in 1..l /\ c[j] = taken[p] /\ c[k] = old[q]
                BY <2>3, <2>4, <3>2, <4>1
            <4>3. a < taken[p].no /\ old[q].no <= a /\ taken[p].no \in Nat /\ old[q].no \in Nat
                BY <1>1, <1>2, <1>3, <4>2 DEF Past, UpTo
            <4> QED BY <1>2, <4>2, <4>3
        <3>3. CASE ~(j <= m)
            <4>1. PICK p \in Int, q \in Int : p = j - m /\ q = k - m
                OBVIOUS
            <4>2. p \in 1..l /\ q \in 1..l /\ p < q /\ c[j] = old[p] /\ c[k] = old[q]
                BY <2>3, <2>4, <3>3, <4>1
            <4> QED BY <1>1, <1>2, <4>2 DEF Falling
        <3> QED BY <3>1, <3>2, <3>3
    <2> QED BY <2>2, <2>5, <2>6
<1> QED BY <1>4, <1>5

(* What the processor still has to paint are the newest rows of the         *)
(* history; the lines it has painted stay as they are.                      *)
LEMMA IngestWindow ==
    ASSUME ViewInv, OrderInv, WindowInv, UiIngest, ~gpu
    PROVE  WindowInv' /\ line' = line
<1>1. PICK old : /\ old = IF held.width # plot.width THEN <<>> ELSE rows
                 /\ rows' = Ingested(old)
    BY DEF UiIngest
<1>2. /\ line' = line /\ top' = top /\ gpu' = gpu
      /\ pending' = AtMost(pending + Len(taken), PendingCap)
    BY DEF UiIngest, Upload, screenVars
<1>3. old \in Seq(Row) /\ (old = rows \/ old = <<>>)
    BY <1>1, EmptySeq DEF ViewInv, RowTypes
<1>4. PICK m \in Nat, l \in Nat, h \in Nat \ {0}, p \in Nat, cap \in Nat, lr \in Nat :
          /\ m = Len(taken) /\ l = Len(old) /\ h = Height /\ p = pending /\ cap = PendingCap
          /\ lr = Len(rows)
    BY <1>3, LenProperties, ViewAssumption DEF ViewInv, RowTypes
<1>5. /\ line \in [Lines -> Nat] /\ top \in Lines /\ lr <= h /\ p <= cap
      /\ PerFrame = 1 => Ascends(line, top, Lo) /\ DueAreNewer
      /\ l = lr \/ l = 0
    BY <1>3, <1>4, EmptySeq DEF WindowInv
<1>6. PICK n \in Nat : n = Len(rows')
    BY <1>1, <1>3, IngestInOrder, LenProperties DEF OrderInv
<1>7. PICK q \in Nat, x \in Nat :
          /\ q = pending' /\ x = Excess /\ q = p + m - x /\ q <= cap
    <2>1. pending' = AtMost(p + m, cap) /\ Excess = IF p + m > cap THEN p + m - cap ELSE 0
        BY <1>2, <1>4 DEF Excess
    <2>2. pending' \in Nat /\ Excess \in Nat /\ pending' = p + m - Excess /\ pending' <= cap
        BY <2>1 DEF AtMost
    <2> QED BY <2>2
<1>8. PICK lo \in Int : lo = Lo /\ lo = h - lr + p + 1
    <2>1. Lo = h - lr + p + 1
        BY <1>4 DEF Lo
    <2> QED BY <2>1
<1>9. PICK hi \in Int : hi = Lo' /\ hi = h - n + q + 1
    <2>1. Lo' = h - n + q + 1
        BY <1>4, <1>6, <1>7 DEF Lo
    <2> QED BY <2>1
<1>10. /\ n <= h
       /\ hi > h \/ (old = rows /\ l = lr /\ lo <= hi)
       /\ \A k \in 1..n :
              \/ k <= m /\ m + 1 - k \in 1..m /\ rows'[k] = taken[m + 1 - k]
              \/ k > m /\ k - m \in 1..l /\ rows'[k] = old[k - m]
    <2>1. CASE taken = <<>>
        <3>1. rows' = old /\ m = 0 /\ n = l
            BY <1>1, <1>4, <1>6, <2>1, EmptySeq DEF Ingested
        <3>2. x = 0 /\ q = p
            BY <1>4, <1>5, <1>7, <3>1 DEF Excess
        <3>3. (l = lr /\ old = rows) \/ l = 0
            BY <1>3, <1>4, EmptySeq
        <3> QED BY <1>5, <1>8, <1>9, <3>1, <3>2, <3>3
    <2>2. CASE taken # <<>>
        <3>1. PICK d : d = Kept(old)
            OBVIOUS
        <3>6. /\ Len(rows') = IF d >= 1 THEN d ELSE 0
              /\ \A k \in 1..Len(rows') :
                     rows'[k] = IF k <= Len(taken) THEN taken[Len(taken) + 1 - k]
                                ELSE old[k - Len(taken)]
            BY <1>1, <1>3, <2>2, <3>1, IngestedIs DEF ViewInv, RowTypes
        <3>2. /\ d = AtMost(h, m + l) - x /\ n = IF d >= 1 THEN d ELSE 0
              /\ \A k \in 1..n : rows'[k] = IF k <= m THEN taken[m + 1 - k] ELSE old[k - m]
            BY <1>4, <1>6, <1>7, <3>1, <3>6 DEF Kept
        <3>3. (l = lr /\ old = rows) \/ l = 0
            BY <1>3, <1>4, EmptySeq
        <3>4. n <= h /\ n <= m + l /\ (hi > h \/ (lo <= hi /\ l = lr /\ old = rows))
            <4>1. PICK e \in Nat : e = AtMost(h, m + l) /\ e <= h /\ e <= m + l
                BY DEF AtMost
            <4>2. d = e - x
                BY <3>2, <4>1
            <4>3. n <= h /\ n <= m + l
                BY <3>2, <4>1, <4>2
            <4>4. CASE n = 0
                BY <1>7, <1>9, <4>3, <4>4
            <4>5. CASE n # 0
                <5>4. n = e - x
                    BY <3>2, <4>2, <4>5
                <5>1. hi = h - e + p + m + 1
                    <6>1. hi = h - n + q + 1 /\ q = p + m - x
                        BY <1>7, <1>9
                    <6> QED BY <4>1, <5>4, <6>1
                <5>2. CASE l = 0
                    BY <4>1, <4>3, <5>1, <5>2
                <5>3. CASE l = lr /\ old = rows
                    BY <1>8, <4>1, <4>3, <5>1, <5>3
                <5> QED BY <3>3, <5>2, <5>3
            <4> QED BY <4>4, <4>5
        <3>5. ASSUME NEW k \in 1..n
              PROVE  \/ k <= m /\ m + 1 - k \in 1..m /\ rows'[k] = taken[m + 1 - k]
                     \/ k > m /\ k - m \in 1..l /\ rows'[k] = old[k - m]
            BY <3>2, <3>4
        <3> QED BY <3>4, <3>5
    <2> QED BY <2>1, <2>2
<1>11. ASSUME PerFrame = 1 PROVE Ascends(line, top, hi)
    <2>1. CASE hi > h
        BY <1>4, <2>1 DEF Ascends
    <2>2. CASE lo <= hi
        BY <1>5, <1>8, <1>11, <2>2, Shorter
    <2> QED BY <1>10, <2>1, <2>2
<1>12. ASSUME PerFrame = 1, NEW i \in 1..h, NEW k \in 1..n, hi <= i, k <= q
       PROVE  At(line, top, i) < rows'[k].no
    <2>1. old = rows /\ l = lr /\ lo <= i
        BY <1>10, <1>12
    <2>2. CASE k <= m /\ m + 1 - k \in 1..m /\ rows'[k] = taken[m + 1 - k]
        <3>1. PICK a, b : Marked(a, b)
            BY DEF OrderInv
        <3>2. At(line, top, i) \in Nat /\ At(line, top, i) <= a /\ a \in Nat
            BY <1>4, <1>5, <3>1, AtMostNewest DEF Marked
        <3>3. a < rows'[k].no
            BY <1>4, <2>2, <3>1 DEF Marked, Past
        <3>4. rows'[k].no \in Nat
            <4>1. taken[m + 1 - k] \in Row
                BY <1>4, <2>2, ElementOfSeq DEF ViewInv, RowTypes
            <4> QED BY <2>2, <4>1, ViewAssumption DEF Row
        <3> QED BY <3>2, <3>3, <3>4
    <2>3. CASE k > m /\ k - m \in 1..l /\ rows'[k] = old[k - m]
        <3>1. PICK j \in 1..lr : j = k - m
            BY <2>1, <2>3
        <3>2. j <= p
            BY <1>7, <1>12, <3>1
        <3> QED BY <1>4, <1>5, <1>8, <1>12, <2>1, <2>3, <3>1, <3>2 DEF DueAreNewer
    <2> QED BY <1>10, <2>2, <2>3
<1>13. PerFrame = 1 => Ascends(line, top, Lo)'
    <2>1. PerFrame = 1 => Ascends(line', top', Lo')
        BY <1>2, <1>9, <1>11
    <2> QED BY <2>1 DEF Ascends, At
<1>14. PerFrame = 1 => DueAreNewer'
    BY <1>2, <1>4, <1>6, <1>7, <1>9, <1>12 DEF DueAreNewer, At
<1>15. /\ line' \in [Lines -> Nat] /\ top' \in Lines /\ Len(rows') <= Height
       /\ pending' <= PendingCap
    BY <1>2, <1>4, <1>5, <1>6, <1>7, <1>10
<1> QED BY <1>2, <1>13, <1>14, <1>15 DEF WindowInv

(* The rows the shader gets are newer than all it shows, and in order.      *)
LEMMA BatchInOrder ==
    ASSUME ViewInv, OrderInv, NEW a, NEW b, Marked(a, b), NEW o \in Seq(Row), Picks(o, taken),
           NEW s, s = Nos(o)
    PROVE  /\ s \in Seq(Nat) /\ Len(s) = Len(o) /\ Climbs(s)
           /\ \A k \in 1..Len(s) : a < s[k] /\ s[k] <= b
<1>1. PICK n \in Nat, m \in Nat : n = Len(o) /\ m = Len(taken)
    BY LenProperties DEF ViewInv, RowTypes
<1>2. s \in Seq(Nat) /\ Len(s) = n /\ \A k \in 1..n : s[k] = o[k].no
    BY <1>1, NosIs
<1>3. PICK g \in [1..n -> 1..m] :
          /\ \A r \in 1..n : o[r] = taken[g[r]]
          /\ \A q, r \in 1..n : q < r => g[q] < g[r]
    BY <1>1 DEF Picks
<1>4. \A r \in 1..n : g[r] \in 1..m /\ s[r] = taken[g[r]].no
    BY <1>2, <1>3
<1>5. ASSUME NEW j \in 1..n, NEW k \in 1..n, j < k PROVE s[j] < s[k]
    <2>1. g[j] \in 1..m /\ g[k] \in 1..m /\ g[j] < g[k]
        BY <1>3, <1>4, <1>5
    <2>2. taken[g[j]].no < taken[g[k]].no
        BY <1>1, <2>1 DEF OrderInv, Rising
    <2> QED BY <1>4, <2>2
<1>6. \A k \in 1..n : a < s[k] /\ s[k] <= b
    BY <1>1, <1>4 DEF Marked, Past, UpTo
<1> QED BY <1>1, <1>2, <1>5, <1>6 DEF Climbs

(* The shader gets all of the frame at once, so nothing is due.             *)
LEMMA UploadWindow ==
    ASSUME ViewInv, OrderInv, WindowInv, UiIngest, gpu, NEW a, NEW b, Marked(a, b)
    PROVE  WindowInv' /\ ShowsUpTo(line', b)
<1>1. PICK old : /\ old = IF held.width # plot.width THEN <<>> ELSE rows
                 /\ rows' = Ingested(old)
                 /\ Upload(Newest(Reversed(taken) \o old, Height))
    BY DEF UiIngest
<1>2. gpu' = gpu /\ pending' = AtMost(pending + Len(taken), PendingCap)
    BY DEF UiIngest
<1>3. old \in Seq(Row) /\ (old = rows \/ old = <<>>)
    BY <1>1, EmptySeq DEF ViewInv, RowTypes
<1>4. PICK m \in Nat, l \in Nat, h \in Nat \ {0}, n \in Nat :
          m = Len(taken) /\ l = Len(old) /\ h = Height /\ n = Len(rows')
    <2>1. rows' \in Seq(Row)
        BY <1>1, <1>3, IngestInOrder
    <2> QED BY <1>3, <2>1, LenProperties, ViewAssumption DEF ViewInv, RowTypes
<1>5. n <= h
    <2>1. l <= h
        BY <1>3, <1>4, EmptySeq DEF WindowInv
    <2>2. CASE taken = <<>>
        BY <1>1, <1>4, <2>1, <2>2 DEF Ingested
    <2>3. CASE taken # <<>>
        <3>1. Excess \in Nat /\ Len(rows') = IF Kept(old) >= 1 THEN Kept(old) ELSE 0
            BY <1>1, <1>3, <2>3, IngestedIs DEF ViewInv, RowTypes
        <3> QED BY <1>4, <3>1 DEF Kept, AtMost
    <2> QED BY <2>2, <2>3
<1>6. pending' <= PendingCap
    BY <1>2, <1>4, ViewAssumption DEF AtMost, ViewInv, RowTypes
<1>7. a \in Nat /\ b \in Nat /\ a <= b /\ ShowsUpTo(line, a)
    BY DEF Marked
<1>8. line \in [Lines -> Nat] /\ top \in Lines /\ Ascends(line, top, 1)
    BY DEF WindowInv
<1>9. CASE taken = <<>>
    <2>1. line' = line /\ top' = top
        BY <1>1, <1>9 DEF Upload, screenVars
    <2>2. ShowsUpTo(line', b)
        BY <1>7, <1>8, <2>1 DEF ShowsUpTo
    <2>3. Ascends(line, top, 1)'
        BY <1>8, <2>1 DEF Ascends, At
    <2> QED BY <1>2, <1>4, <1>5, <1>6, <1>8, <2>1, <2>2, <2>3 DEF WindowInv
<1>10. CASE taken # <<>>
    <2>1. PICK all : all = Newest(Reversed(taken) \o old, Height)
        OBVIOUS
    <2>2. PICK o : o = GpuBatch(all)
        OBVIOUS
    <2>3. o \in Seq(Row) /\ Len(o) \in Nat /\ Len(o) <= Height /\ Picks(o, taken)
        BY <1>3, <2>1, <2>2, BatchIs DEF ViewInv, RowTypes
    <2>4. PICK s : s = Nos(o)
        OBVIOUS
    <2>5. /\ s \in Seq(Nat) /\ Len(s) = Len(o) /\ Climbs(s)
          /\ \A k \in 1..Len(s) : a < s[k] /\ s[k] <= b
        BY <2>3, <2>4, BatchInOrder
    <2>6. PICK image, at :
              /\ image = IF texture = texture' THEN line ELSE Blank
              /\ at = IF texture = texture' THEN top ELSE 0
              /\ line' = Written(image, at, s)
              /\ top' = (at + Len(s)) % Height
        BY <1>1, <1>10, <2>1, <2>2, <2>4 DEF Upload
    <2>7. image \in [Lines -> Nat] /\ at \in Lines /\ ShowsUpTo(image, a) /\ Ascends(image, at, 1)
        <3>1. CASE texture = texture'
            BY <1>7, <1>8, <2>6, <3>1
        <3>2. CASE texture # texture'
            <4>1. image = Blank /\ at = 0
                BY <2>6, <3>2
            <4>2. Blank \in [Lines -> Nat] /\ ShowsUpTo(Blank, 0) /\ 0 \in Lines
                BY <1>4 DEF Blank, ShowsUpTo, Lines
            <4>3. \A i \in 1..Height : At(Blank, 0, i) = 0
                BY <4>2, AtMostNewest
            <4>4. Ascends(Blank, 0, 1)
                BY <4>3 DEF Ascends
            <4>5. ShowsUpTo(Blank, a)
                BY <1>7 DEF ShowsUpTo, Blank
            <4> QED BY <4>1, <4>2, <4>4, <4>5
        <3> QED BY <3>1, <3>2
    <2>8. Rolls(image, at, s, line', top')
        BY <2>3, <2>5, <2>6, <2>7 DEF Rolls
    <2>9. PICK lo \in Int : lo = 1 + Len(s) /\ 1 <= lo
        BY <2>3, <2>5
    <2>10. Ascends(image, at, lo)
        BY <2>7, <2>9, Shorter
    <2>11. NewerThan(s, image, at, lo)
        <3> SUFFICES ASSUME NEW i \in 1..Height, NEW k \in 1..Len(s)
                     PROVE  At(image, at, i) < s[k]
            BY DEF NewerThan
        <3>1. At(image, at, i) \in Nat /\ At(image, at, i) <= a
            BY <2>7, AtMostNewest
        <3>2. a < s[k] /\ s[k] \in Nat
            BY <2>5, ElementOfSeq
        <3> QED BY <1>7, <3>1, <3>2
    <2>12. Ascends(line', top', 1)
        BY <2>5, <2>8, <2>9, <2>10, <2>11, Appends
    <2>13. line' \in [Lines -> Nat] /\ top' \in Lines
        BY <2>8, WrittenIs
    <2>14. ShowsUpTo(line', b)
        <3>1. \A y \in Lines : image[y] <= b
            <4>1. \A y \in Lines : image[y] \in Nat /\ image[y] <= a
                BY <2>7 DEF ShowsUpTo
            <4> QED BY <1>7, <4>1
        <3>2. \A y \in Lines : line'[y] <= b
            BY <1>7, <2>5, <2>8, <3>1, WrittenIs
        <3> QED BY <3>2 DEF ShowsUpTo
    <2>15. Ascends(line, top, 1)'
        BY <2>12 DEF Ascends, At
    <2> QED BY <1>2, <1>4, <1>5, <1>6, <2>13, <2>14, <2>15 DEF WindowInv
<1> QED BY <1>9, <1>10

(* A frame that has taken its rows shows nothing that is not behind it.     *)
LEMMA IngestKeeps ==
    ASSUME ViewInv, OrderInv, WindowInv, UiIngest
    PROVE  OrderInv' /\ WindowInv'
<1>1. PICK a, b : Marked(a, b)
    BY DEF OrderInv
<1>2. PICK old : /\ old = IF held.width # plot.width THEN <<>> ELSE rows
                 /\ rows' = Ingested(old)
    BY DEF UiIngest
<1>3. old \in Seq(Row) /\ (old = rows \/ old = <<>>)
    BY <1>2, EmptySeq DEF ViewInv, RowTypes
<1>4. Falling(rows') /\ UpTo(rows', b)
    BY <1>1, <1>2, <1>3, IngestInOrder
<1>5. taken' = <<>> /\ queue' = queue /\ Pushed' = Pushed
    BY Frames DEF UiIngest, linkVars, Frame
<1>6. WindowInv' /\ ShowsUpTo(line', b)
    <2>1. CASE gpu
        BY <1>1, <2>1, UploadWindow
    <2>2. CASE ~gpu
        <3>1. WindowInv' /\ line' = line
            BY <2>2, IngestWindow
        <3>2. ShowsUpTo(line, b)
            BY <1>1 DEF Marked, ShowsUpTo, WindowInv
        <3> QED BY <3>1, <3>2
    <2> QED BY <2>1, <2>2
<1>7. Len(<<>>) = 0
    BY EmptySeq
<1>8. Marked(b, b)'
    <2>1. UpTo(taken', b) /\ Past(taken', b)
        BY <1>5, <1>7 DEF UpTo, Past
    <2>2. b \in Nat /\ b <= Pushed /\ Past(queue, b) /\ UpTo(queue, Pushed)
        BY <1>1 DEF Marked
    <2> QED BY <1>4, <1>5, <1>6, <2>1, <2>2 DEF Marked, UpTo, Past, ShowsUpTo
<1>9. Falling(rows)' /\ Rising(taken)' /\ Rising(queue)'
    BY <1>4, <1>5, <1>7 DEF OrderInv, Rising, Falling
<1> QED BY <1>6, <1>8, <1>9 DEF OrderInv

(* Painting: rows of the history come to the screen, nothing newer does.    *)
LEMMA PaintsHistory ==
    ASSUME ViewInv, OrderInv, Frame, UNCHANGED <<rows, taken, queue>>,
           NEW s, NEW image, NEW t, Rolls(line, t, s, image, top'), line' = image,
           \A k \in 1..Len(s) : s[k] = 0 \/ \E i \in 1..Len(rows) : s[k] = rows[i].no
    PROVE  OrderInv'
<1>1. PICK a, b : Marked(a, b)
    BY DEF OrderInv
<1>2. a \in Nat /\ UpTo(rows, a) /\ ShowsUpTo(line, a)
    BY <1>1 DEF Marked
<1>3. \A k \in 1..Len(s) : s[k] <= a
    BY <1>2 DEF UpTo
<1>4. ShowsUpTo(image, a)
    <2>1. \A y \in Lines : line[y] <= a
        BY <1>2 DEF ShowsUpTo
    <2>2. \A y \in Lines : image[y] <= a
        BY <1>2, <1>3, <2>1, WrittenIs
    <2> QED BY <2>2 DEF ShowsUpTo
<1>5. Pushed' = Pushed
    BY Frames
<1>6. Marked(a, b)'
    BY <1>1, <1>4, <1>5 DEF Marked, UpTo, Past, ShowsUpTo
<1>7. Falling(rows)' /\ Rising(taken)' /\ Rising(queue)'
    BY DEF OrderInv, Falling, Rising
<1> QED BY <1>6, <1>7 DEF OrderInv

(* Where nothing is painted nothing is due, or the shader has painted.      *)
LEMMA PaintNothingKeeps ==
    ASSUME ViewInv, OrderInv, WindowInv, PaintNothing
    PROVE  OrderInv' /\ WindowInv'
<1>1. /\ UNCHANGED <<gpu, line, top, rows, taken, queue>>
      /\ pending' = IF rows # <<>> THEN 0 ELSE pending
      /\ rows = <<>> \/ gpu \/ pending = 0
    BY DEF PaintNothing, linkVars, screenVars
<1>2. OrderInv'
    BY <1>1, Undisturbed, Frames DEF Frame
<1>3. CASE pending' = pending
    BY <1>1, <1>2, <1>3, SameWindow
<1>4. CASE pending' # pending
    <2>1. gpu /\ pending' = 0
        BY <1>1, <1>4
    <2> QED BY <1>1, <1>2, <2>1, ViewAssumption DEF WindowInv, Ascends, At
<1> QED BY <1>3, <1>4

(* A repaint writes the history backwards from the first line on.           *)
LEMMA PaintAllKeeps ==
    ASSUME ViewInv, OrderInv, WindowInv, PaintAll
    PROVE  OrderInv' /\ WindowInv'
<1>1. /\ ~gpu /\ UNCHANGED <<gpu, rows, taken, queue>> /\ pending' = 0
      /\ line' = Written(line, 0, Nos(Reversed(rows))) /\ top' = Len(rows) % Height
    BY DEF PaintAll, linkVars
<1>2. PICK h \in Nat \ {0}, lr \in Nat : h = Height /\ lr = Len(rows)
    BY LenProperties, ViewAssumption DEF ViewInv, RowTypes
<1>3. PICK r : r = Reversed(rows)
    OBVIOUS
<1>4. PICK s : s = Nos(r)
    OBVIOUS
<1>5. r \in Seq(Row) /\ Len(r) = lr /\ \A k \in 1..lr : r[k] = rows[lr + 1 - k]
    BY <1>2, <1>3, ReversedIs DEF ViewInv, RowTypes
<1>6. s \in Seq(Nat) /\ Len(s) = lr /\ \A k \in 1..lr : s[k] = r[k].no
    BY <1>4, <1>5, NosIs
<1>7. lr <= h /\ line \in [Lines -> Nat] /\ 0 \in Lines
    BY <1>2 DEF WindowInv, Lines
<1>8. Rolls(line, 0, s, line', top')
    <2>1. 0 + Len(s) = Len(rows) /\ Len(s) <= Height
        BY <1>2, <1>6, <1>7
    <2>2. line' = Written(line, 0, s) /\ top' = (0 + Len(s)) % Height
        BY <1>1, <1>3, <1>4, <2>1
    <2> QED BY <1>6, <1>7, <2>1, <2>2 DEF Rolls
<1>9. \A k \in 1..lr : lr + 1 - k \in 1..lr /\ s[k] = rows[lr + 1 - k].no
    BY <1>5, <1>6
<1>10. Climbs(s)
    <2> SUFFICES ASSUME NEW j \in 1..lr, NEW k \in 1..lr, j < k PROVE s[j] < s[k]
        BY <1>6 DEF Climbs
    <2>1. PICK p \in 1..lr, q \in 1..lr : p = lr + 1 - j /\ q = lr + 1 - k
        BY <1>9
    <2>2. q < p /\ s[j] = rows[p].no /\ s[k] = rows[q].no
        BY <1>9, <2>1
    <2> QED BY <1>2, <2>2 DEF OrderInv, Falling
<1>11. PICK lo \in Int, old \in Int : lo = h - lr + 1 /\ old = lo + Len(s) /\ old > h
    <2>1. h - lr + 1 \in Int /\ h - lr + 1 + Len(s) \in Int /\ h - lr + 1 + Len(s) > h
        BY <1>6
    <2> QED BY <2>1
<1>12. Ascends(line, 0, old) /\ NewerThan(s, line, 0, old)
    BY <1>2, <1>11 DEF Ascends, NewerThan
<1>13. Ascends(line', top', lo)
    BY <1>8, <1>10, <1>11, <1>12, Appends
<1>14. Lo' = lo
    BY <1>1, <1>2, <1>11 DEF Lo
<1>15. (Ascends(line, top, Lo) /\ DueAreNewer)'
    <2>1. Ascends(line, top, Lo)'
        BY <1>13, <1>14 DEF Ascends, At
    <2>2. DueAreNewer'
        BY <1>1 DEF DueAreNewer
    <2> QED BY <2>1, <2>2
<1>16. line' \in [Lines -> Nat] /\ top' \in Lines
    BY <1>8, WrittenIs
<1>17. WindowInv'
    BY <1>1, <1>2, <1>7, <1>15, <1>16, ViewAssumption DEF WindowInv
<1>18. OrderInv'
    <2>1. \A k \in 1..Len(s) : \E i \in 1..Len(rows) : s[k] = rows[i].no
        BY <1>2, <1>6, <1>9
    <2> QED BY <1>1, <1>8, <2>1, PaintsHistory DEF Frame
<1> QED BY <1>17, <1>18

(* One row: the oldest of those that are due.                               *)
LEMMA PaintDueWindow ==
    ASSUME ViewInv, OrderInv, WindowInv, PaintDue, PerFrame = 1
    PROVE  WindowInv'
<1>1. PICK h \in Nat \ {0}, lr \in Nat, pd \in Nat :
          h = Height /\ lr = Len(rows) /\ pd = pending
    BY LenProperties, ViewAssumption DEF ViewInv, RowTypes
<1>2. PICK p : p = AtMost(pending, Height)
    OBVIOUS
<1>3. PICK n \in 1..AtMost(p, PerFrame) :
            /\ line' = Written(line, top, Due(p, n))
            /\ top' = (top + n) % Height
            /\ pending' = pending - n
    BY <1>2 DEF PaintDue
<1>4. n = 1 /\ p \in Nat /\ p >= 1 /\ p <= h /\ p <= pd /\ (p = pd \/ (p = h /\ pd > h))
    BY <1>1, <1>2 DEF AtMost
<1>5. ~gpu /\ UNCHANGED <<gpu, rows, taken, queue>> /\ pending' = pd - 1
    BY <1>1, <1>3, <1>4 DEF PaintDue, linkVars
<1>6. PICK s : s = Due(p, 1)
    OBVIOUS
<1>7. PICK v : v = IF p <= lr THEN rows[p].no ELSE 0
    OBVIOUS
<1>8. \A k \in 1..lr : rows[k].no \in Nat /\ rows[k].no >= 1
    <2>1. \A k \in 1..lr : rows[k] \in Row
        BY <1>1, ElementOfSeq DEF ViewInv, RowTypes
    <2> QED BY <2>1, ViewAssumption DEF Row
<1>9. s \in Seq(Nat) /\ Len(s) = 1 /\ s[1] = v /\ v \in Nat
    <2>1. v \in Nat
        BY <1>4, <1>7, <1>8
    <2>2. s = [i \in 1..1 |-> v]
        <3>1. \A i \in 1..1 : p - 1 + i = p
            BY <1>4
        <3> QED BY <1>1, <1>6, <1>7, <3>1 DEF Due
    <2>3. s \in Seq(Nat) /\ Len(s) = 1
        BY <2>1, <2>2, IsASeq, LenProperties
    <2> QED BY <2>1, <2>2, <2>3
<1>10. Rolls(line, top, s, line', top')
    <2>1. line' = Written(line, top, s)
        BY <1>3, <1>4, <1>6
    <2>2. top' = (top + Len(s)) % Height
        BY <1>3, <1>4, <1>9
    <2>3. Len(s) <= Height
        BY <1>1, <1>9
    <2> QED BY <1>9, <2>1, <2>2, <2>3 DEF Rolls, WindowInv
<1>11. PICK lo \in Int, old \in Int : lo = h - lr + pd /\ old = lo + 1 /\ lo = Lo' /\ old = Lo
    <2>1. Lo = h - lr + pd + 1 /\ Lo' = h - lr + (pd - 1) + 1
        BY <1>1, <1>5 DEF Lo
    <2> QED BY <2>1
<1>12. Ascends(line, top, old) /\ DueAreNewer
    BY <1>5, <1>11 DEF WindowInv
<1>13. NewerThan(s, line, top, old)
    <2> SUFFICES ASSUME NEW i \in 1..Height, NEW k \in 1..Len(s), old <= i, s[k] # 0
                 PROVE  At(line, top, i) < s[k]
        BY DEF NewerThan
    <2>1. s[k] = rows[p].no /\ p \in 1..lr
        BY <1>4, <1>7, <1>9
    <2> QED BY <1>1, <1>4, <1>11, <1>12, <2>1 DEF DueAreNewer
<1>14. Climbs(s)
    BY <1>9 DEF Climbs
<1>15. Ascends(line', top', lo)
    <2>1. old = lo + Len(s)
        BY <1>9, <1>11
    <2> QED BY <1>10, <1>12, <1>13, <1>14, <2>1, Appends
<1>16. line' \in [Lines -> Nat] /\ top' \in Lines
    BY <1>10, WrittenIs
<1>17. ASSUME NEW i \in 1..h, NEW k \in 1..lr, lo <= i, k <= pd - 1
       PROVE  At(line', top', i) < rows[k].no
    <2>1. At(line', top', i) = IF i <= h - 1 THEN At(line, top, i + 1) ELSE s[i - (h - 1)]
        <3>1. i \in 1..Height
            BY <1>1
        <3>2. At(line', top', i) = IF i <= Height - Len(s) THEN At(line, top, i + Len(s))
                                   ELSE s[i - (Height - Len(s))]
            BY <1>10, <3>1, WrittenIs
        <3> QED BY <1>1, <1>9, <3>2
    <2>2. CASE i <= h - 1
        <3>1. PICK j \in 1..h : j = i + 1
            BY <2>2
        <3>2. old <= j /\ k <= pd
            BY <1>11, <1>17, <3>1
        <3> QED BY <1>1, <1>11, <1>12, <2>1, <2>2, <3>1, <3>2 DEF DueAreNewer
    <2>3. CASE i = h
        <3>1. At(line', top', i) = v
            BY <1>9, <2>1, <2>3
        <3>2. p = pd
            <4>1. lr <= h
                BY <1>1 DEF WindowInv
            <4>2. lo <= h
                BY <1>17
            <4> QED BY <1>4, <1>11, <4>1, <4>2
        <3>3. CASE p <= lr
            <4>1. k < p /\ p \in 1..lr
                BY <1>4, <1>17, <3>2, <3>3
            <4>2. rows[p].no < rows[k].no
                BY <1>1, <4>1 DEF OrderInv, Falling
            <4> QED BY <1>7, <3>1, <3>3, <4>2
        <3>4. CASE ~(p <= lr)
            BY <1>7, <1>8, <3>1, <3>4
        <3> QED BY <3>3, <3>4
    <2> QED BY <2>2, <2>3
<1>18. (Ascends(line, top, Lo) /\ DueAreNewer)'
    <2>1. Ascends(line, top, Lo)'
        BY <1>11, <1>15 DEF Ascends, At
    <2>2. DueAreNewer'
        BY <1>1, <1>5, <1>11, <1>17 DEF DueAreNewer, At
    <2> QED BY <2>1, <2>2
<1>19. Len(rows') <= Height /\ pending' <= PendingCap
    BY <1>1, <1>5, ViewAssumption DEF WindowInv
<1> QED BY <1>5, <1>16, <1>18, <1>19 DEF WindowInv

(* Several rows: they come from the history too.                            *)
LEMMA PaintDueKeeps ==
    ASSUME ViewInv, OrderInv, WindowInv, PaintDue
    PROVE  OrderInv' /\ WindowInv'
<1>1. PICK h \in Nat \ {0}, lr \in Nat, pd \in Nat :
          h = Height /\ lr = Len(rows) /\ pd = pending
    BY LenProperties, ViewAssumption DEF ViewInv, RowTypes
<1>2. PICK p : p = AtMost(pending, Height)
    OBVIOUS
<1>3. PICK n \in 1..AtMost(p, PerFrame) :
            /\ line' = Written(line, top, Due(p, n))
            /\ top' = (top + n) % Height
            /\ pending' = pending - n
    BY <1>2 DEF PaintDue
<1>4. n \in Nat /\ p \in Nat /\ n <= p /\ p <= h /\ p <= pd
    BY <1>1, <1>2, ViewAssumption DEF AtMost
<1>5. ~gpu /\ UNCHANGED <<gpu, rows, taken, queue>> /\ pending' <= PendingCap
    <2>1. pending <= PendingCap
        BY DEF WindowInv
    <2> QED BY <1>1, <1>3, <1>4, <2>1, ViewAssumption DEF PaintDue, linkVars
<1>6. PICK s : s = Due(p, n)
    OBVIOUS
<1>7. \A k \in 1..lr : rows[k].no \in Nat
    <2>1. \A k \in 1..lr : rows[k] \in Row
        BY <1>1, ElementOfSeq DEF ViewInv, RowTypes
    <2> QED BY <2>1, ViewAssumption DEF Row
<1>8. s = [i \in 1..n |-> IF p - n + i <= lr THEN rows[p - n + i].no ELSE 0]
    BY <1>1, <1>6 DEF Due
<1>9. ASSUME NEW i \in 1..n
      PROVE  /\ s[i] \in Nat
             /\ s[i] = 0 \/ \E k \in 1..lr : s[i] = rows[k].no
    <2>1. PICK k \in Nat : k = p - n + i /\ k >= 1
        BY <1>4
    <2>2. s[i] = IF k <= lr THEN rows[k].no ELSE 0
        BY <1>8, <2>1
    <2>3. CASE k <= lr
        <3>1. k \in 1..lr
            BY <2>1, <2>3
        <3> QED BY <1>7, <2>2, <2>3, <3>1
    <2>4. CASE ~(k <= lr)
        BY <2>2, <2>4
    <2> QED BY <2>3, <2>4
<1>10. s \in Seq(Nat) /\ Len(s) = n
    BY <1>4, <1>8, <1>9, IsASeq, LenProperties
<1>11. Rolls(line, top, s, line', top')
    <2>1. line' = Written(line, top, s) /\ top' = (top + Len(s)) % Height
        BY <1>3, <1>6, <1>10
    <2>2. Len(s) <= Height
        BY <1>1, <1>4, <1>10
    <2> QED BY <1>10, <2>1, <2>2 DEF Rolls, WindowInv
<1>12. OrderInv'
    <2>1. \A k \in 1..Len(s) : s[k] = 0 \/ \E i \in 1..Len(rows) : s[k] = rows[i].no
        BY <1>1, <1>9, <1>10
    <2> QED BY <1>5, <1>11, <2>1, PaintsHistory DEF Frame
<1>13. CASE PerFrame = 1
    BY <1>12, <1>13, PaintDueWindow
<1>14. CASE PerFrame # 1
    <2>1. line' \in [Lines -> Nat] /\ top' \in Lines
        BY <1>11, WrittenIs
    <2> QED BY <1>5, <1>12, <1>14, <2>1 DEF WindowInv
<1> QED BY <1>13, <1>14

(* Every step keeps the order of the rows and of the lines.                 *)
LEMMA ScreenStep ==
    ASSUME ViewInv, OrderInv, WindowInv, [ViewNext]_viewVars
    PROVE  OrderInv' /\ WindowInv'
<1>1. CASE PumpRows
    <2>1. UNCHANGED <<rows, taken, queue, line, top, gpu, pending>>
        BY <1>1 DEF PumpRows, linkVars, frameVars, screenVars
    <2> QED BY <1>1, <2>1, Pumps, Undisturbed, SameWindow
<1>2. CASE PushRow
    BY <1>2, PushInOrder
<1>3. CASE PublishSpectrum
    <2>1. UNCHANGED <<rows, taken, queue, line, top, gpu, pending>>
        BY <1>3 DEF PublishSpectrum, frameVars, screenVars
    <2> QED BY <1>3, <2>1, Publishes, Undisturbed, SameWindow
<1>4. CASE UiFetch \/ ChooseWidth \/ UNCHANGED viewVars
    <2>1. UNCHANGED <<rows, taken, queue, line, top, gpu, pending>>
        BY <1>4 DEF UiFetch, ChooseWidth, viewVars, linkVars, frameVars, screenVars
    <2>2. Pushed' = Pushed
        BY <1>4, Frames DEF Frame
    <2> QED BY <2>1, <2>2, Undisturbed, SameWindow
<1>5. CASE UiPop
    BY <1>5, PopInOrder
<1>6. CASE UiIngest
    BY <1>6, IngestKeeps
<1>7. CASE PaintNothing
    BY <1>7, PaintNothingKeeps
<1>8. CASE PaintDue
    BY <1>8, PaintDueKeeps
<1>9. CASE PaintAll
    BY <1>9, PaintAllKeeps
<1> QED BY <1>1, <1>2, <1>3, <1>4, <1>5, <1>6, <1>7, <1>8, <1>9 DEF ViewNext, Engine, Frame

(* Whenever the shader paints, and when the processor paints one row a      *)
(* frame, the lines show the rows of the history in the order they were     *)
(* made, whatever the sizes of the queue, the history and the cap and       *)
(* however the engine's pushes, the frames, the changes of the FFT size and *)
(* the repaints interleave.                                                 *)
THEOREM RowsStayInOrder == ViewSpec => [](gpu \/ PerFrame = 1 => ScreenInOrder)
<1>1. ViewInit => ViewInv /\ OrderInv /\ WindowInv
    BY InitView, InitScreen
<1>2. (ViewInv /\ OrderInv /\ WindowInv) /\ [ViewNext]_viewVars
          => (ViewInv /\ OrderInv /\ WindowInv)'
    BY Pumps, Pushes, Publishes, Frames, ScreenStep DEF ViewNext, Engine
<1>3. ViewInv /\ WindowInv => (gpu \/ PerFrame = 1 => ScreenInOrder)
    <2> SUFFICES ASSUME ViewInv, WindowInv, gpu \/ PerFrame = 1,
                        NEW i \in Lo..Height, NEW j \in Lo..Height, i < j,
                        Shown(i) \in History, Shown(j) \in History
                 PROVE  Shown(i) < Shown(j)
        BY DEF ScreenInOrder, Lo
    <2>1. PICK h \in Nat \ {0}, lr \in Nat, pd \in Nat :
              h = Height /\ lr = Len(rows) /\ pd = pending
        BY LenProperties, ViewAssumption DEF ViewInv, RowTypes
    <2>2. lr <= h /\ Lo = h - lr + pd + 1
        BY <2>1 DEF WindowInv, Lo
    <2>3. i \in 1..h /\ j \in 1..h /\ Lo <= i /\ 1 <= i
        BY <2>1, <2>2
    <2>4. 0 \notin History
        <3>1. \A k \in 1..lr : rows[k] \in Row
            BY <2>1, ElementOfSeq DEF ViewInv, RowTypes
        <3> QED BY <2>1, <3>1, ViewAssumption DEF History, Row
    <2>5. Shown(i) = At(line, top, i) /\ Shown(j) = At(line, top, j)
        BY DEF Shown, At
    <2> QED BY <2>1, <2>3, <2>4, <2>5 DEF WindowInv, Ascends
<1> QED BY <1>1, <1>2, <1>3, PTL DEF ViewSpec

(* With one row a frame, on whichever painter.                              *)
THEOREM ScreenStaysInOrder ==
    ASSUME PerFrame = 1
    PROVE  ViewSpec => []ScreenInOrder
<1>1. (gpu \/ PerFrame = 1 => ScreenInOrder) => ScreenInOrder
    OBVIOUS
<1> QED BY <1>1, RowsStayInOrder, PTL
-----------------------------------------------------------------------------
(***************************************************************************)
(* The receivers: threads, callbacks and queries that share a ring or a    *)
(* port with the owner.                                                    *)
(***************************************************************************)
(* The stream outlives the threads: they run only between start and the    *)
(* return of stop.                                                         *)
OwnerInv ==
    /\ opc \in {"on", "stopping", "closing"} => res = "live" /\ handle
    /\ opc \in {"out", "idle"} => lib = "idle" /\ th = "none" /\ cb = 0
    /\ opc = "idle" => handle

(* Which driver has which threads, and who may hold samples. *)
ThreadInv ==
    /\ lib # "idle" => drv # "soapy" /\ (drv = "rtlsdr" => th = "reading")
    /\ cb > 0 => IF drv = "soapy" THEN th = "writing" ELSE lib # "idle"
    /\ th = "writing" => drv = "soapy"
    /\ th = "reading" => drv \in {"soapy", "rtlsdr"}

(* What was read of the ring's room is still there: the writer is alone,   *)
(* and the consumer only makes room.                                       *)
RoomInv ==
    cb > 0 \/ (drv = "soapy" /\ th = "reading") => room <= RingCap - ring

ReceiverInv == ReceiverTypeOK /\ OwnerInv /\ ThreadInv /\ RoomInv /\ Accounted
-----------------------------------------------------------------------------
(* The parts of the type invariant. *)
FlagType ==
    /\ handle \in BOOLEAN /\ flag \in BOOLEAN
    /\ transmitting \in BOOLEAN /\ rigTx \in BOOLEAN /\ iqMode \in BOOLEAN

ControlType ==
    /\ drv \in AllDrivers
    /\ opc \in {"out", "idle", "on", "stopping", "closing"}
    /\ res \in {"none", "live", "freed"}
    /\ lib \in {"idle", "running", "cancelled"}
    /\ th \in {"none", "spawned", "reading", "writing", "tq", "sm", "ended"}

CountType ==
    /\ starts \in 0..MaxStarts /\ late \in 0..MaxLate

SampleType ==
    /\ cb \in 0..Block /\ room \in 0..RingCap
    /\ ring \in 0..RingCap /\ fifo \in 0..FifoCap
    /\ captured \in 0..MaxSample /\ gone \in Nat /\ lost \in Nat /\ spilled \in Nat

CatType == asked \in Seq({"TQ", "SM"}) /\ inbox \in Seq(Answers)

LEMMA ReceiverTypes ==
    ReceiverTypeOK <=> FlagType /\ ControlType /\ CountType /\ SampleType /\ CatType
BY DEF ReceiverTypeOK, FlagType, ControlType, CountType, SampleType, CatType

LEMMA InitReceiver == ReceiverInit => ReceiverInv
<1> SUFFICES ASSUME ReceiverInit PROVE ReceiverInv
    OBVIOUS
<1>1. FlagType
    BY DEF ReceiverInit, FlagType
<1>2. ControlType
    BY ReceiverAssumption DEF ReceiverInit, ControlType
<1>3. CountType /\ SampleType
    BY ReceiverAssumption DEF ReceiverInit, CountType, SampleType
<1>4. CatType
    BY DEF ReceiverInit, CatType
<1>5. OwnerInv /\ ThreadInv /\ RoomInv /\ Accounted
    BY ReceiverAssumption DEF ReceiverInit, OwnerInv, ThreadInv, RoomInv, Accounted
<1> QED BY <1>1, <1>2, <1>3, <1>4, <1>5, ReceiverTypes DEF ReceiverInv

LEMMA FlagStep ==
    ASSUME FlagType, [ReceiverNext]_receiverVars
    PROVE  FlagType'
<1> USE DEF FlagType
<1>1. CASE Open
    BY <1>1 DEF Open
<1>2. CASE OpenFails
    BY <1>2 DEF OpenFails, catVars
<1>3. CASE Start
    BY <1>3 DEF Start, catVars, rigVars
<1>10. CASE StopCall
    <2>1. flag' = (drv \in {"soapy", "qmx"})
        BY <1>10 DEF StopCall
    <2>2. flag' = TRUE \/ flag' = FALSE
        BY <2>1
    <2>3. UNCHANGED <<handle, transmitting, rigTx, iqMode>>
        BY <1>10 DEF StopCall, catVars, rigVars
    <2> QED BY <2>2, <2>3
<1>4. CASE StopReturn \/ Close
    BY <1>4 DEF StopReturn, Close, catVars
<1>5. CASE Callback \/ RtlBegin \/ Consume \/ SoapyArrives \/ Reader \/ LoopEnds
    BY <1>5 DEF Callback, CbBegin, CbEnd, LibEnds, RtlBegin, Consume, SoapyArrives,
                Reader, SoapyEnterRead, SoapyRead, SoapyWrite, LoopEnds, catVars, rigVars
<1>6. CASE PollTq
    BY <1>6 DEF PollTq, rigVars, Contains
<1>7. CASE PollAsk \/ PollSm \/ PollTimeout \/ RigAnswers
    BY <1>7 DEF PollAsk, PollSm, PollTimeout, RigAnswers, rigVars
<1>8. CASE RigKeys
    BY <1>8 DEF RigKeys, catVars
<1>9. CASE UNCHANGED receiverVars
    BY <1>9 DEF receiverVars, catVars, rigVars
<1> QED BY <1>1, <1>2, <1>3, <1>4, <1>5, <1>6, <1>7, <1>8, <1>9, <1>10
    DEF ReceiverNext, Owner, Poll

(* Opening, starting and stopping in their order. *)
LEMMA OwnerStep ==
    ASSUME ControlType, SampleType, OwnerInv, ThreadInv, Owner
    PROVE  ControlType' /\ OwnerInv' /\ ThreadInv'
<1> USE DEF ControlType, SampleType, OwnerInv, ThreadInv, AllDrivers
<1>1. CASE Open
    BY <1>1 DEF Open, streamVars
<1>2. CASE OpenFails
    BY <1>2 DEF OpenFails, ownerVars, streamVars
<1>3. CASE Start
    BY <1>3 DEF Start
<1>4. CASE StopCall
    BY <1>4 DEF StopCall
<1>5. CASE StopReturn
    <2>1. opc' = (IF opc = "closing" THEN "out" ELSE "idle") /\ opc \in {"stopping", "closing"}
        BY <1>5 DEF StopReturn
    <2>2. opc' \in {"out", "idle"} /\ (opc' = "idle" => opc = "stopping")
        BY <2>1
    <2>3. handle' = (opc = "stopping")
        BY <1>5 DEF StopReturn
    <2>4. opc' = "idle" => handle'
        BY <2>2, <2>3, Zenon
    <2>5. /\ lib = "idle" /\ UNCHANGED <<drv, lib, cb>>
          /\ res' = "freed" /\ th' = "none" /\ th \in {"none", "ended"}
        BY <1>5 DEF StopReturn, Joined
    <2>6. cb = 0
        BY <2>5
    <2>7. ControlType'
        BY <2>2, <2>5
    <2>8. ThreadInv'
        BY <2>5, <2>6
    <2>9. OwnerInv'
        BY <2>2, <2>4, <2>5, <2>6
    <2> QED BY <2>7, <2>8, <2>9
<1>6. CASE Close
    BY <1>6 DEF Close, streamVars
<1> QED BY <1>1, <1>2, <1>3, <1>4, <1>5, <1>6 DEF Owner

(* The threads and the callbacks. *)
LEMMA ThreadStep ==
    ASSUME ControlType, SampleType, OwnerInv, ThreadInv, [ReceiverNext]_receiverVars, ~Owner
    PROVE  ControlType' /\ OwnerInv' /\ ThreadInv'
<1> USE DEF ControlType, SampleType, OwnerInv, ThreadInv, ownerVars
<1>1. CASE CbBegin
    BY <1>1 DEF CbBegin
<1>2. CASE CbEnd
    BY <1>2 DEF CbEnd, Write
<1>3. CASE LibEnds
    BY <1>3 DEF LibEnds, sampleVars
<1>4. CASE RtlBegin
    BY <1>4 DEF RtlBegin
<1>5. CASE Consume \/ SoapyArrives
    BY <1>5 DEF Consume, SoapyArrives, streamVars
<1>6. CASE SoapyEnterRead
    BY <1>6 DEF SoapyEnterRead
<1>7. CASE SoapyRead
    BY <1>7 DEF SoapyRead
<1>8. CASE SoapyWrite
    BY <1>8 DEF SoapyWrite, Write
<1>9. CASE LoopEnds
    BY <1>9 DEF LoopEnds
<1>10. CASE PollAsk
    BY <1>10 DEF PollAsk
<1>11. CASE PollTq
    BY <1>11 DEF PollTq
<1>12. CASE PollSm
    BY <1>12 DEF PollSm
<1>13. CASE PollTimeout
    BY <1>13 DEF PollTimeout
<1>14. CASE RigAnswers \/ RigKeys
    BY <1>14 DEF RigAnswers, RigKeys, streamVars
<1>15. CASE UNCHANGED receiverVars
    BY <1>15 DEF receiverVars, streamVars
<1> QED
    BY <1>1, <1>2, <1>3, <1>4, <1>5, <1>6, <1>7, <1>8, <1>9, <1>10, <1>11, <1>12,
       <1>13, <1>14, <1>15
    DEF ReceiverNext, Callback, Reader, Poll

LEMMA CountStep ==
    ASSUME CountType, [ReceiverNext]_receiverVars
    PROVE  CountType'
<1> USE ReceiverAssumption DEF CountType, ownerVars
<1>1. CASE Owner
    BY <1>1 DEF Owner, Open, OpenFails, Start, StopCall, StopReturn, Close, catVars
<1>2. CASE Callback \/ RtlBegin \/ Consume
    BY <1>2 DEF Callback, CbBegin, CbEnd, LibEnds, RtlBegin, Consume, catVars
<1>3. CASE SoapyArrives \/ Reader \/ LoopEnds
    BY <1>3 DEF SoapyArrives, Reader, SoapyEnterRead, SoapyRead, SoapyWrite, LoopEnds,
                catVars
<1>4. CASE Poll
    BY <1>4 DEF Poll, PollAsk, PollTq, PollSm, PollTimeout
<1>5. CASE RigAnswers \/ RigKeys
    BY <1>5 DEF RigAnswers, RigKeys, catVars
<1>6. CASE UNCHANGED receiverVars
    BY <1>6 DEF receiverVars, catVars
<1> QED BY <1>1, <1>2, <1>3, <1>4, <1>5, <1>6 DEF ReceiverNext

(* No sample appears or disappears uncounted, and no block overfills the   *)
(* ring.                                                                   *)
LEMMA SampleStep ==
    ASSUME ControlType, SampleType, OwnerInv, ThreadInv, RoomInv, Accounted,
           [ReceiverNext]_receiverVars
    PROVE  SampleType' /\ RoomInv' /\ Accounted'
<1> USE ReceiverAssumption DEF SampleType, RoomInv, Accounted, ownerVars
<1>1. CASE Open
    BY <1>1 DEF Open, streamVars, OwnerInv
<1>2. CASE OpenFails
    BY <1>2 DEF OpenFails, sampleVars, streamVars
<1>3. CASE Start
    BY <1>3 DEF Start, OwnerInv
<1>4. CASE StopCall
    BY <1>4 DEF StopCall, sampleVars
<1>5. CASE StopReturn
    BY <1>5 DEF StopReturn, sampleVars
<1>6. CASE Close
    BY <1>6 DEF Close, sampleVars, streamVars
<1>7. CASE CbBegin
    BY <1>7 DEF CbBegin, ThreadInv
<1>8. CASE CbEnd
    BY <1>8 DEF CbEnd, Write, Lesser
<1>9. CASE LibEnds \/ RtlBegin
    BY <1>9 DEF LibEnds, RtlBegin, sampleVars
<1>10. CASE Consume
    BY <1>10 DEF Consume, streamVars
<1>11. CASE SoapyArrives
    BY <1>11 DEF SoapyArrives, streamVars
<1>12. CASE SoapyEnterRead
    BY <1>12 DEF SoapyEnterRead, sampleVars, ThreadInv
<1>13. CASE SoapyRead
    BY <1>13 DEF SoapyRead, Lesser, ThreadInv
<1>14. CASE SoapyWrite
    BY <1>14 DEF SoapyWrite, Write, Lesser, ThreadInv
<1>15. CASE LoopEnds \/ PollAsk
    BY <1>15 DEF LoopEnds, PollAsk, sampleVars
<1>16. CASE PollTq \/ PollSm
    BY <1>16 DEF PollTq, PollSm, sampleVars
<1>17. CASE PollTimeout
    BY <1>17 DEF PollTimeout, sampleVars
<1>18. CASE RigAnswers \/ RigKeys
    BY <1>18 DEF RigAnswers, RigKeys, streamVars, sampleVars
<1>19. CASE UNCHANGED receiverVars
    BY <1>19 DEF receiverVars, streamVars, sampleVars
<1> QED
    BY <1>1, <1>2, <1>3, <1>4, <1>5, <1>6, <1>7, <1>8, <1>9, <1>10, <1>11, <1>12,
       <1>13, <1>14, <1>15, <1>16, <1>17, <1>18, <1>19
    DEF ReceiverNext, Owner, Callback, Reader, Poll

(* The queries and their answers. *)
LEMMA CatStep ==
    ASSUME CatType, [ReceiverNext]_receiverVars
    PROVE  CatType'
<1> USE DEF CatType, Answers
<1>1. CASE Owner \/ Callback \/ RtlBegin \/ Consume
    BY <1>1 DEF Owner, Open, OpenFails, Start, StopCall, StopReturn, Close, Callback,
                CbBegin, CbEnd, LibEnds, RtlBegin, Consume, catVars
<1>2. CASE SoapyArrives \/ Reader \/ LoopEnds \/ RigKeys
    BY <1>2 DEF SoapyArrives, Reader, SoapyEnterRead, SoapyRead, SoapyWrite, LoopEnds,
                RigKeys, catVars
<1>3. CASE PollAsk
    BY <1>3 DEF PollAsk
<1>4. CASE PollTq
    BY <1>4 DEF PollTq
<1>5. CASE PollSm
    BY <1>5 DEF PollSm
<1>6. CASE PollTimeout
    BY <1>6 DEF PollTimeout
<1>7. CASE RigAnswers
    BY <1>7 DEF RigAnswers
<1>8. CASE UNCHANGED receiverVars
    BY <1>8 DEF receiverVars, catVars
<1> QED BY <1>1, <1>2, <1>3, <1>4, <1>5, <1>6, <1>7, <1>8 DEF ReceiverNext, Poll
-----------------------------------------------------------------------------
(* The inductive invariant: the types, who may hold samples and when, and  *)
(* the account of every sample.                                            *)
THEOREM ReceiverInvariant == ReceiverSpec => []ReceiverInv
<1>1. ReceiverInv /\ [ReceiverNext]_receiverVars => ReceiverInv'
    <2> SUFFICES ASSUME ReceiverInv, [ReceiverNext]_receiverVars PROVE ReceiverInv'
        OBVIOUS
    <2>1. FlagType /\ ControlType /\ CountType /\ SampleType /\ CatType
        BY ReceiverTypes DEF ReceiverInv
    <2>2. OwnerInv /\ ThreadInv /\ RoomInv /\ Accounted
        BY DEF ReceiverInv
    <2>3. ControlType' /\ OwnerInv' /\ ThreadInv'
        BY <2>1, <2>2, OwnerStep, ThreadStep
    <2>4. SampleType' /\ RoomInv' /\ Accounted'
        BY <2>1, <2>2, SampleStep
    <2>5. FlagType' /\ CountType' /\ CatType'
        BY <2>1, FlagStep, CountStep, CatStep
    <2>6. ReceiverTypeOK'
        BY <2>3, <2>4, <2>5
        DEF ReceiverTypeOK, FlagType, ControlType, CountType, SampleType, CatType
    <2> QED BY <2>3, <2>4, <2>6 DEF ReceiverInv
<1> QED BY InitReceiver, <1>1, PTL DEF ReceiverSpec

(* Types: above all, no block overfills the ring or the driver's queue.    *)
THEOREM ReceiverTypeCorrect == ReceiverSpec => []ReceiverTypeOK
<1>1. ReceiverInv => ReceiverTypeOK
    BY DEF ReceiverInv
<1> QED BY ReceiverInvariant, <1>1, PTL

(* No callback, read or query ever finds its stream freed or its device    *)
(* closed, whichever of the four receivers it belongs to.                  *)
THEOREM StreamOutlivesThreads == ReceiverSpec => []NoDangling
<1>1. ReceiverInv => NoDangling
    BY DEF ReceiverInv, NoDangling, OwnerInv, ThreadInv, ReceiverTypeOK
<1> QED BY ReceiverInvariant, <1>1, PTL

(* Every sample is in the ring, was consumed or is counted as lost.        *)
THEOREM EverySampleAccounted == ReceiverSpec => []Accounted
<1>1. ReceiverInv => Accounted
    BY DEF ReceiverInv
<1> QED BY ReceiverInvariant, <1>1, PTL
=============================================================================
