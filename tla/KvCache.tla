------------------------------ MODULE KvCache ------------------------------
(***************************************************************************)
(* The KV cache of llama.cpp: the cells of llama-kv-cells.h and the        *)
(* operations of llama-kv-cache.cpp on them, for one stream (the bridges   *)
(* ask for a single sequence, so the caches they make have one stream),    *)
(* and the part of llama_context::decode() that places a batch.            *)
(*                                                                         *)
(* The cells are a record, so that prepare() can place the parts of a      *)
(* batch and take them back. A loop over the cells that changes each of    *)
(* them on its own is one update of the functions; seq_pos, which all      *)
(* cells share, changes by the number of cells the loop touches.           *)
(***************************************************************************)
EXTENDS Integers, FiniteSets, Sequences, Functions

CONSTANTS
    NCells,     \* size of the cache
    Seqs,       \* sequence ids
    MaxPos,     \* bound: the largest position
    Windows,    \* windows of attention a model may have, 0 for none
    NUbatch,    \* tokens of a micro-batch
    MaxBatch,   \* bound: tokens of a batch
    Deltas      \* bound: what positions are moved by

ASSUME CacheAssumption ==
    /\ NCells \in Nat \ {0} /\ IsFiniteSet(Seqs)
    /\ MaxPos \in Nat /\ Windows \subseteq Nat /\ NUbatch \in Nat \ {0} /\ MaxBatch \in Nat
    /\ Deltas \subseteq Int

Cells == 0 .. NCells - 1
Positions == 0 .. MaxPos

VARIABLES
    n_swa,      \* the window of the model's attention
    cells,      \* the cells
    head,       \* where the search for free cells begins
    key,        \* history: the position a stored key is rotated for
    batch,      \* the batch in decode(), NoBatch between two calls
    todo        \* its micro-batches with a slot, not yet applied

vars == <<n_swa, cells, head, key, batch, todo>>

NoBatch == [n |-> 0]

Blank ==
    [pos     |-> [i \in Cells |-> -1],
     seq     |-> [i \in Cells |-> {}],
     shift   |-> [i \in Cells |-> 0],
     used    |-> {},
     seq_pos |-> [s \in Seqs |-> [p \in Positions |-> 0]],
     has_shift |-> FALSE]

Init ==
    /\ n_swa \in Windows
    /\ cells = Blank /\ head = 0
    /\ key = [i \in Cells |-> -1]
    /\ batch = NoBatch /\ todo = <<>>

-----------------------------------------------------------------------------
(* llama_kv_cells.                                                         *)

(* seq_pos when the sequences of S[i] leave (k = -1) or join (k = 1) the   *)
(* cells i of I.                                                           *)
Recount(c, I, S, k) ==
    [s \in Seqs |-> [p \in Positions |->
        c.seq_pos[s][p] + k * Cardinality({i \in I : s \in S[i] /\ c.pos[i] = p})]]

\* Mutant: the shift of a cell outlives its token.
MutantKeepsShift(c, E) ==
    [c EXCEPT !.pos   = [i \in Cells |-> IF i \in E THEN -1 ELSE @[i]],
              !.seq   = [i \in Cells |-> IF i \in E THEN {} ELSE @[i]],
              !.used  = @ \ E]

(* The cells of E become empty.                                            *)
Vacate(c, E) ==
    [c EXCEPT !.pos   = [i \in Cells |-> IF i \in E THEN -1 ELSE @[i]],
              !.seq   = [i \in Cells |-> IF i \in E THEN {} ELSE @[i]],
              !.shift = [i \in Cells |-> IF i \in E THEN 0 ELSE @[i]],
              !.used  = @ \ E]

InRange(c, p0, p1) == {i \in Cells : c.pos[i] >= p0 /\ c.pos[i] < p1}
Has(c, s) == {i \in Cells : s \in c.seq[i]}

(* rm() of every cell of I.                                                *)
Rm(c, I) == Vacate([c EXCEPT !.seq_pos = Recount(c, I, c.seq, -1)], I)

Alone(c, s) == {i \in Cells : c.seq[i] = {s}}

SeqRmCells(c, I, s) ==
    LET left == [c EXCEPT
                   !.seq = [i \in Cells |-> IF i \in I THEN @[i] \ {s} ELSE @[i]],
                   !.seq_pos = Recount(c, I, [i \in Cells |-> {s}], -1)]
    IN  Vacate(left, I \cap Alone(c, s))

SeqKeepCells(c, s) ==
    LET any  == {i \in Cells : c.seq[i] # {}}
        gone == [c EXCEPT !.seq_pos = Recount(c, any, c.seq, -1)]
    IN  Vacate([gone EXCEPT
                  !.seq = [i \in Cells |-> @[i] \cap {s}],
                  !.seq_pos = Recount(gone, Has(c, s), [i \in Cells |-> {s}], 1)],
               any \ Has(c, s))

SeqAddCells(c, I, s) ==
    [c EXCEPT !.seq = [i \in Cells |-> IF i \in I THEN @[i] \cup {s} ELSE @[i]],
              !.seq_pos = Recount(c, I, [i \in Cells |-> {s}], 1)]

(* The positions of the cells of I move by d; a cell whose position would  *)
(* be negative becomes empty.                                              *)
PosAdd(c, I, d) ==
    LET gone == [c EXCEPT !.seq_pos = Recount(c, I, c.seq, -1)]
        E    == {i \in I : c.pos[i] + d < 0}
        moved == [gone EXCEPT
                    !.pos   = [i \in Cells |-> IF i \in I THEN @[i] + d ELSE @[i]],
                    !.shift = [i \in Cells |-> IF i \in I THEN @[i] + d ELSE @[i]],
                    !.has_shift = @ \/ I # {}]
    IN  Vacate([moved EXCEPT !.seq_pos = Recount(moved, I \ E, c.seq, 1)], E)

SetMin(S) == CHOOSE x \in S : \A y \in S : x <= y
SetMax(S) == CHOOSE x \in S : \A y \in S : y <= x

PosOf(c, s) == {p \in Positions : c.seq_pos[s][p] # 0}
SeqPosMin(c, s) == IF PosOf(c, s) = {} THEN -1 ELSE SetMin(PosOf(c, s))
SeqPosMax(c, s) == IF PosOf(c, s) = {} THEN -1 ELSE SetMax(PosOf(c, s))

-----------------------------------------------------------------------------
(* The operations of the cache between two batches. A negative bound of a  *)
(* range stands for the end of the positions.                              *)

From(p0) == IF p0 < 0 THEN 0 ELSE p0
Upto(p1) == IF p1 < 0 THEN MaxPos + 1 ELSE p1

\* Mutant: the cells of other sequences are not left out.
MutantAnySeq(s, p0, p1) == InRange(cells, From(p0), Upto(p1))

InSeq(s, p0, p1) == InRange(cells, From(p0), Upto(p1)) \cap Has(cells, s)

(* The keys are followed in a cache without a window, as long as their     *)
(* cell is in use.                                                         *)
Keys(c, k) == [i \in Cells |-> IF n_swa > 0 \/ c.pos[i] = -1 THEN -1 ELSE k[i]]

(* A search may begin at the first cell that was freed.                    *)
Freed(c, d) == {i \in Cells : c.pos[i] # -1 /\ d.pos[i] = -1}
HeadAfter(h, F) == IF F # {} /\ SetMin(F) < h THEN SetMin(F) ELSE h

Update(c, h) ==
    /\ batch = NoBatch
    /\ cells' = c /\ head' = h
    /\ key' = Keys(c, key)
    /\ UNCHANGED <<n_swa, batch, todo>>

Clear == Update(Blank, 0)

SeqRm(s, p0, p1) ==
    LET c == SeqRmCells(cells, InSeq(s, p0, p1), s)
    IN  Update(c, HeadAfter(head, Freed(cells, c)))

(* seq_rm() for any sequence.                                              *)
RmAny(p0, p1) ==
    LET c == Rm(cells, InRange(cells, From(p0), Upto(p1)))
    IN  Update(c, HeadAfter(head, Freed(cells, c)))

(* A caller copies into a sequence that is not in the range already.       *)
SeqCp(s, d, p0, p1) ==
    /\ s # d /\ InSeq(s, p0, p1) \cap Has(cells, d) = {}
    /\ Update(SeqAddCells(cells, InSeq(s, p0, p1), d), head)

SeqKeep(s) ==
    LET c == SeqKeepCells(cells, s)
    IN  Update(c, HeadAfter(head, Freed(cells, c)))

SeqAdd(s, p0, p1, d) ==
    LET I == InSeq(s, p0, p1)
        c == PosAdd(cells, I, d)
        F == Freed(cells, c)
    IN  /\ d # 0 /\ From(p0) # Upto(p1)
        /\ \A i \in I : cells.pos[i] + d <= MaxPos
        /\ Update(c, IF F = {} THEN 0 ELSE SetMin(F))

-----------------------------------------------------------------------------
(* Placing a batch.                                                        *)

IsMaskedSwa(p0, p1) == n_swa > 0 /\ p1 - p0 >= n_swa

(* A cell can take a token if it is empty, or if its only sequence cannot  *)
(* see it any more.                                                        *)
CanUse(c, i) ==
    \/ c.pos[i] = -1
    \/ \E s \in Seqs : /\ c.seq[i] = {s}
                       /\ IsMaskedSwa(c.pos[i], SeqPosMax(c, s) + 1)

(* find_slot(): the first n usable cells from the head on, round the end;  *)
(* the empty sequence if there are fewer.                                  *)
FindSlot(c, h, n) ==
    LET start == IF h > Cardinality(c.used) + 2 * n THEN 0 ELSE h
        Rank(i) == (i - start + NCells) % NCells
        usable == {i \in Cells : CanUse(c, i)}
        Before(i) == {j \in usable : Rank(j) < Rank(i)}
    IN  IF Cardinality(usable) < n THEN <<>>
        ELSE [k \in 1 .. n |-> CHOOSE i \in usable : Cardinality(Before(i)) = k - 1]

(* The largest position of s that a slot overwrites.                       *)
MaxRm(c, idxs, s) ==
    LET ps == {c.pos[i] : i \in {j \in Range(idxs) : s \in c.seq[j]}}
    IN  IF ps = {} THEN -1 ELSE SetMax(ps)

(* Every position of sequence s up to m[s] is removed. Sequences do not    *)
(* get in each other's way, so all of them go at once.                     *)
RmUpto(c, m) ==
    LET old(s) == {i \in Has(c, s) : c.pos[i] <= m[s]}
        E == {i \in Cells : c.seq[i] # {} /\ \A s \in c.seq[i] : i \in old(s)}
        left == [c EXCEPT
                   !.seq = [i \in Cells |-> {s \in @[i] : i \notin old(s)}],
                   !.seq_pos = Recount(c, Cells, [i \in Cells |-> {s \in c.seq[i] : i \in old(s)}], -1)]
    IN  Vacate(left, E)

\* Mutant: what is older than the overwritten tokens stays.
MutantNoPurge(c, m) == c

\* Mutant: the position after the overwritten ones goes as well.
MutantPurgesOneMore(c, m) ==
    RmUpto(c, [s \in Seqs |-> IF m[s] = -1 THEN -1 ELSE m[s] + 1])

(* Everything of a sequence that is older than an overwritten token goes.  *)
Purge(c, m) == RmUpto(c, m)

(* apply_ubatch(): tokens of sequence s from position p on.                *)
Apply(c, idxs, s, p) ==
    LET R     == Range(idxs)
        m     == [t \in Seqs |-> MaxRm(c, idxs, t)]
        bare  == Rm(c, {i \in R : c.pos[i] # -1})
        At(i) == CHOOSE k \in DOMAIN idxs : idxs[k] = i
        put   == [bare EXCEPT
                    !.pos  = [i \in Cells |-> IF i \in R THEN p + At(i) - 1 ELSE @[i]],
                    !.used = @ \cup R]
    IN  Purge(SeqAddCells(put, R, s), m)

(* set(): the cells idxs of c are as they were in old.                     *)
Restore(c, idxs, old) ==
    LET R    == Range(idxs)
        gone == [c EXCEPT !.seq_pos = Recount(c, R, c.seq, -1)]
        back == [gone EXCEPT
                   !.pos  = [i \in Cells |-> IF i \in R THEN old.pos[i] ELSE @[i]],
                   !.seq  = [i \in Cells |-> IF i \in R THEN old.seq[i] ELSE @[i]],
                   !.used = {i \in Cells : IF i \in R THEN old.pos[i] # -1 ELSE i \in @}]
    IN  [back EXCEPT !.seq_pos = Recount(back, R, old.seq, 1)]

(* A batch of n tokens is cut into micro-batches.                          *)
NParts(n) == (n + NUbatch - 1) \div NUbatch
PartLen(n, k) == IF k * NUbatch <= n THEN NUbatch ELSE n - (k - 1) * NUbatch

(* What prepare() has after k micro-batches: the cells, the head, and the  *)
(* slots so far with the cells as they were before, or ok = FALSE if a     *)
(* slot was not found.                                                     *)
Placed(c, h, b) ==
    LET f[k \in 0 .. NParts(b.n)] ==
            IF k = 0 THEN [c |-> c, h |-> h, ok |-> TRUE, slots |-> <<>>, old |-> <<>>]
            ELSE LET g == f[k - 1]
                     idxs == FindSlot(g.c, g.h, PartLen(b.n, k))
                     p == b.p + (k - 1) * NUbatch
                 IN  IF ~g.ok \/ idxs = <<>> THEN [g EXCEPT !.ok = FALSE]
                     ELSE [c |-> Apply(g.c, idxs, b.s, p),
                           h |-> idxs[Len(idxs)] + 1,
                           ok |-> TRUE,
                           slots |-> Append(g.slots, [idxs |-> idxs, p |-> p]),
                           old |-> Append(g.old, g.c)]
    IN  f[NParts(b.n)]

(* ... and after it has taken them back, the last one first.               *)
TakenBack(g) ==
    LET f[k \in 0 .. Len(g.slots)] ==
            IF k = 0 THEN g.c
            ELSE LET j == Len(g.slots) - k + 1
                 IN  Restore(f[k - 1], g.slots[j].idxs, g.old[j])
    IN  f[Len(g.slots)]

\* Mutant: the shifts are reset after a computation that failed.
MutantResetsAnyway(c) ==
    \E k \in {key, [i \in Cells |-> key[i] + c.shift[i]]} :
        /\ cells' = [c EXCEPT !.shift = [i \in Cells |-> 0], !.has_shift = FALSE]
        /\ key' = Keys(c, k)

(* update(): the keys are rotated by the pending shifts, or the            *)
(* computation fails and the shifts stay.                                  *)
Shift(c) ==
    \/ /\ cells' = [c EXCEPT !.shift = [i \in Cells |-> 0], !.has_shift = FALSE]
       /\ key' = Keys(c, [i \in Cells |-> key[i] + c.shift[i]])
    \/ /\ c.has_shift
       /\ cells' = c /\ key' = Keys(c, key)

(* decode() is called: pending shifts are applied. The positions of a      *)
(* batch must go on from the last one in the cache; those of a sequence    *)
(* that is not in the cache begin at 0.                                    *)
Decode(s, n) ==
    LET p == SeqPosMax(cells, s) + 1
    IN  /\ batch = NoBatch
        /\ p + n - 1 <= MaxPos
        /\ batch' = [s |-> s, n |-> n, p |-> p, did_optimize |-> FALSE]
        /\ Shift(cells)
        /\ UNCHANGED <<n_swa, head, todo>>

(* init_batch(), which leaves the head as it was.                          *)
Prepare ==
    /\ batch # NoBatch /\ todo = <<>>
    /\ LET g == Placed(cells, head, batch)
           c == TakenBack(g)
       IN  \/ /\ g.ok
              /\ todo' = g.slots
              /\ cells' = c /\ key' = Keys(c, key)
              /\ UNCHANGED batch
           \/ /\ ~g.ok /\ c.has_shift /\ ~batch.did_optimize
              /\ batch' = [batch EXCEPT !.did_optimize = TRUE]
              /\ Shift(c)
              /\ UNCHANGED todo
           \/ /\ ~g.ok /\ (c.has_shift => batch.did_optimize)
              /\ batch' = NoBatch
              /\ cells' = c /\ key' = Keys(c, key)
              /\ UNCHANGED todo
    /\ UNCHANGED <<n_swa, head>>

(* process_ubatch(): a micro-batch takes its slot and is computed.         *)
Process ==
    /\ todo # <<>>
    /\ LET u == todo[1]
           c == Apply(cells, u.idxs, batch.s, u.p)
       IN  /\ cells' = c
           /\ key' = Keys(c, [i \in Cells |->
                                IF i \in Range(u.idxs) THEN c.pos[i] ELSE key[i]])
           /\ head' = u.idxs[Len(u.idxs)] + 1
    /\ todo' = Tail(todo)
    /\ batch' = IF todo' = <<>> THEN NoBatch ELSE batch
    /\ UNCHANGED n_swa

(* Its computation fails or is aborted: its positions are removed, and     *)
(* the rest of the batch is dropped.                                       *)
ProcessFails ==
    /\ todo # <<>>
    /\ LET u == todo[1]
           c == Apply(cells, u.idxs, batch.s, u.p)
           d == SeqRmCells(c, InRange(c, u.p, MaxPos + 1) \cap Has(c, batch.s), batch.s)
       IN  /\ cells' = d
           /\ key' = Keys(d, key)
           /\ head' = HeadAfter(u.idxs[Len(u.idxs)] + 1, Freed(c, d))
    /\ todo' = <<>> /\ batch' = NoBatch
    /\ UNCHANGED n_swa

(* The ranges that differ in what they hold.                               *)
Ranges == {r \in Positions \X (Positions \cup {-1}) : r[1] < Upto(r[2])}

Next ==
    \/ Clear
    \/ \E s \in Seqs, r \in Ranges : SeqRm(s, r[1], r[2])
    \/ \E r \in Ranges : RmAny(r[1], r[2])
    \/ \E s, d \in Seqs, r \in Ranges : SeqCp(s, d, r[1], r[2])
    \/ \E s \in Seqs : SeqKeep(s)
    \/ \E s \in Seqs, r \in Ranges, d \in Deltas : SeqAdd(s, r[1], r[2], d)
    \/ \E s \in Seqs, n \in 1 .. MaxBatch : Decode(s, n)
    \/ Prepare
    \/ Process
    \/ ProcessFails

Spec == Init /\ [][Next]_vars

-----------------------------------------------------------------------------
(* The cells of llama-kv-cells.h and what decode() keeps have their types. *)
TypeOK ==
    /\ n_swa \in Windows
    /\ cells.pos \in [Cells -> Positions \cup {-1}]
    /\ cells.seq \in [Cells -> SUBSET Seqs]
    /\ cells.shift \in [Cells -> Int]
    /\ cells.used \subseteq Cells
    /\ cells.seq_pos \in [Seqs -> [Positions -> Nat]]
    /\ cells.has_shift \in BOOLEAN
    /\ head \in 0 .. NCells
    /\ key \in [Cells -> Int]
    /\ batch = NoBatch => todo = <<>>

(* What the cells say of themselves agrees: used is the set of the cells   *)
(* with a position, an empty cell has no sequence and no shift that the    *)
(* next token would inherit, and seq_pos counts the positions that are     *)
(* there, so that the minimum and the maximum it yields are right.         *)
CellsAgree ==
    /\ cells.used = {i \in Cells : cells.pos[i] # -1}
    /\ \A i \in Cells : cells.pos[i] = -1 <=> cells.seq[i] = {}
    /\ \A i \in Cells : cells.pos[i] = -1 \/ ~cells.has_shift => cells.shift[i] = 0
    /\ \A s \in Seqs, p \in Positions :
          cells.seq_pos[s][p] = Cardinality({i \in Has(cells, s) : cells.pos[i] = p})

(* Without a window, the key of a token is rotated for the token's         *)
(* position once the pending shift is applied, whatever was moved, copied, *)
(* removed and put back, and whether or not the last K-shift was computed. *)
KeysFollowPositions ==
    n_swa = 0 =>
        \A i \in Cells : cells.pos[i] # -1 => key[i] + cells.shift[i] = cells.pos[i]

(* All positions from the first to the last of a sequence are there.       *)
Gapless(c, s) ==
    \A p \in Positions : SeqPosMin(c, s) <= p /\ p <= SeqPosMax(c, s) =>
        \E i \in Has(c, s) : c.pos[i] = p

(* apply_ubatch() preserves, as its comment says, that all positions       *)
(* between the first and the last of a sequence are present, also when it  *)
(* reuses the cells of tokens that have left the window, and also when the *)
(* computation fails and its tokens are removed again. The tokens it adds  *)
(* must go on from the last one: prepare() may have taken that one away.   *)
AppliesWithoutGap ==
    [][todo # <<>> => \A s \in Seqs :
         /\ Gapless(cells, s)
         /\ s = batch.s => SeqPosMax(cells, s) \in {-1, todo[1].p - 1}
         => Gapless(cells', s)]_vars

(* The last position a sequence has when the batch is in the cache.        *)
LastPos(s) ==
    IF s = batch.s THEN batch.p + batch.n - 1 ELSE SeqPosMax(cells, s) + 1

(* Looking for room costs nothing that matters: prepare() places the       *)
(* micro-batches and takes them back, and whether or not there was room    *)
(* for all of them, nothing of the batch is left in the cells, and a token *)
(* that is still in the window at the end of the batch is where it was,    *)
(* for every sequence that has it.                                         *)
PrepareRestores ==
    [][batch # NoBatch /\ todo = <<>> =>
         \A i \in Cells, s \in Seqs :
            /\ s \in cells'.seq[i]
                 => s \in cells.seq[i] /\ cells'.pos[i] = cells.pos[i]
            /\ s \in cells.seq[i] /\ ~IsMaskedSwa(cells.pos[i], LastPos(s))
                 => s \in cells'.seq[i] /\ cells'.pos[i] = cells.pos[i]]_vars
=============================================================================
