--------------------------- MODULE KvCacheProofs ---------------------------
(***************************************************************************)
(* Proofs about KvCache, for a cache of any size, any sequences and any    *)
(* window: the cells agree with themselves after every operation, without  *)
(* a window the stored keys follow the positions, a batch that is applied  *)
(* opens no gap, and prepare() loses nothing that the end of the batch     *)
(* still sees.                                                             *)
(***************************************************************************)
EXTENDS KvCache, FiniteSetTheorems, SequenceTheorems, TLAPS

-----------------------------------------------------------------------------
(* Numbers and finite sets.                                                *)

(* A set of natural numbers that has an element has a smallest one.        *)
LEMMA NatMin ==
    ASSUME NEW T, T \subseteq Nat, T # {}
    PROVE  \E n \in T : \A m \in T : n <= m
  <1> DEFINE R == {ss \in Nat \X Nat : ss[1] < ss[2]}
  <1>1. IsWellFoundedOn(R, Nat)
    BY NatLessThanWellFounded DEF OpToRel
  <1>2. PICK n \in T : \A m \in T : ~(<<m, n>> \in R)
    BY <1>1, WFMin
  <1>3. \A m \in T : ~(m < n)
    BY <1>2
  <1> QED BY <1>3

(* Induction up to N, for a set of numbers.                                *)
LEMMA UptoInduction ==
    ASSUME NEW N \in Nat, NEW S, 0 \in S,
           \A k \in 1 .. N : k - 1 \in S => k \in S
    PROVE  \A k \in 0 .. N : k \in S
  <1> SUFFICES ASSUME \E k \in 0 .. N : k \notin S PROVE FALSE
    OBVIOUS
  <1> DEFINE T == {k \in 0 .. N : k \notin S}
  <1>0. T \subseteq Nat /\ T # {}
    OBVIOUS
  <1> HIDE DEF T
  <1>1. PICK n \in T : \A m \in T : n <= m
    BY <1>0, NatMin
  <1> USE DEF T
  <1>2. n \in 1 .. N /\ n - 1 \notin T
    BY <1>1
  <1> QED BY <1>2

(* The minimum of a set of numbers is one of them.                         *)
LEMMA SetMinIn ==
    ASSUME NEW S \in SUBSET Nat, S # {}
    PROVE  SetMin(S) \in S
  BY NatMin DEF SetMin

(* The maximum of a bounded set of numbers is the largest of them.         *)
LEMMA SetMaxIn ==
    ASSUME NEW n \in Nat, NEW S \in SUBSET (0 .. n), S # {}
    PROVE  SetMax(S) \in S /\ \A x \in S : x <= SetMax(S)
  <1> DEFINE T == {n - x : x \in S}
  <1>1. PICK t \in T : \A u \in T : t <= u
    <2>1. T \subseteq Nat
      OBVIOUS
    <2>2. T # {}
      <3>1. PICK y \in S : TRUE
        OBVIOUS
      <3>2. n - y \in T
        BY <3>1
      <3> QED BY <3>2
    <2> HIDE DEF T
    <2> QED BY <2>1, <2>2, NatMin
  <1>2. PICK x \in S : t = n - x
    BY <1>1
  <1>3. \A y \in S : y <= x
    <2> SUFFICES ASSUME NEW y \in S PROVE y <= x
      OBVIOUS
    <2>1. n - x <= n - y
      BY <1>1, <1>2
    <2> QED BY <2>1
  <1> QED BY <1>3 DEF SetMax

(* The rank of a cell in a search that goes round the end of the cache.    *)
LEMMA Wrap ==
    ASSUME NEW n \in Nat \ {0}, NEW x \in 0 .. 2 * n - 1
    PROVE  x % n = IF x < n THEN x ELSE x - n
  OBVIOUS

(* Cells can be counted.                                                   *)
LEMMA CellsFinite ==
    /\ IsFiniteSet(Cells)
    /\ \A I : I \subseteq Cells => IsFiniteSet(I) /\ Cardinality(I) \in Nat
  <1>1. IsFiniteSet(Cells)
    BY FS_Interval, CacheAssumption DEF Cells
  <1> QED BY <1>1, FS_Subset, FS_CardinalityType

(* Counting what is left when some cells are taken away.                   *)
LEMMA CountLess ==
    ASSUME NEW A, NEW D, A \subseteq Cells, D \subseteq A
    PROVE  Cardinality(A \ D) = Cardinality(A) - Cardinality(D)
  <1>1. A \cap D = D
    OBVIOUS
  <1> QED BY <1>1, CellsFinite, FS_Difference

(* Counting what there is when other cells are added.                      *)
LEMMA CountMore ==
    ASSUME NEW A, NEW D, A \subseteq Cells, D \subseteq Cells, A \cap D = {}
    PROVE  Cardinality(A \cup D) = Cardinality(A) + Cardinality(D)
  <1>1. Cardinality(A \cap D) = 0
    BY FS_EmptySet
  <1>2. /\ IsFiniteSet(A) /\ Cardinality(A) \in Nat
        /\ IsFiniteSet(D) /\ Cardinality(D) \in Nat
    BY CellsFinite
  <1>3. Cardinality(A \cup D) =
            Cardinality(A) + Cardinality(D) - Cardinality(A \cap D)
    BY <1>2, FS_Union
  <1> QED BY <1>1, <1>2, <1>3

(* The k-th element of a finite set of cells in the order of a rank that   *)
(* tells them apart is there, for every k up to the number of cells.       *)
Below(U, r, i) == {j \in U : r[j] < r[i]}

(* In a set of cells that are ranked there is a k-th one.                  *)
LEMMA KthExists ==
    ASSUME NEW U, U \subseteq Cells, NEW r \in [Cells -> Int],
           \A i, j \in Cells : r[i] = r[j] => i = j,
           NEW k \in 1 .. Cardinality(U)
    PROVE  \E i \in U : Cardinality(Below(U, r, i)) = k - 1
  <1> DEFINE Before(i) == {j \in U : r[j] < r[i]}
             m == Cardinality(U)
             g == [i \in U |-> Cardinality(Before(i))]
  <1>1. IsFiniteSet(U) /\ m \in Nat
    BY CellsFinite
  <1>2. \A i \in U : IsFiniteSet(Before(i)) /\ Cardinality(Before(i)) \in 0 .. m - 1
    <2> SUFFICES ASSUME NEW i \in U
                 PROVE IsFiniteSet(Before(i)) /\ Cardinality(Before(i)) \in 0 .. m - 1
      OBVIOUS
    <2>1. Before(i) \in SUBSET U /\ Before(i) # U
      <3>1. r[i] \in Int
        OBVIOUS
      <3> QED BY <3>1
    <2>2. IsFiniteSet(Before(i)) /\ Cardinality(Before(i)) \in Nat
      BY <2>1, CellsFinite
    <2>3. Cardinality(Before(i)) <= m /\ Cardinality(Before(i)) # m
      BY <2>1, <1>1, FS_Subset
    <2> QED BY <2>2, <2>3, <1>1
  <1>3. \A i, j \in U : r[i] < r[j] => g[i] < g[j]
    <2> SUFFICES ASSUME NEW i \in U, NEW j \in U, r[i] < r[j]
                 PROVE  Cardinality(Before(i)) < Cardinality(Before(j))
      OBVIOUS
    <2>1. i \notin Before(i)
      <3>1. r[i] \in Int
        OBVIOUS
      <3> QED BY <3>1
    <2>2. Before(i) \cup {i} \in SUBSET Before(j)
      <3>1. \A x \in U : r[x] < r[i] => r[x] < r[j]
        <4>1. \A x \in U : r[x] \in Int
          OBVIOUS
        <4> QED BY <4>1
      <3> QED BY <3>1
    <2>3. Cardinality(Before(i) \cup {i}) = Cardinality(Before(i)) + 1
      BY <2>1, <1>2, FS_AddElement
    <2>4. Cardinality(Before(i) \cup {i}) <= Cardinality(Before(j))
      BY <2>2, <1>2, FS_Subset
    <2>5. Cardinality(Before(i)) \in Nat /\ Cardinality(Before(j)) \in Nat
      BY CellsFinite
    <2> HIDE DEF Before
    <2> QED BY <2>3, <2>4, <2>5
  <1>4. g \in Injection(U, 0 .. m - 1)
    <2>1. g \in [U -> 0 .. m - 1]
      BY <1>2
    <2>2. ASSUME NEW i \in U, NEW j \in U, g[i] = g[j] PROVE i = j
      <3>1. r[i] \in Int /\ r[j] \in Int
        OBVIOUS
      <3>2. g[i] \in Int /\ g[j] \in Int
        <4>1. Before(i) \subseteq Cells /\ Before(j) \subseteq Cells
          OBVIOUS
        <4> QED BY <4>1, CellsFinite
      <3>3. ~(r[i] < r[j]) /\ ~(r[j] < r[i])
        <4> HIDE DEF g
        <4> QED BY <3>2, <2>2, <1>3
      <3>4. r[i] = r[j]
        BY <3>1, <3>3
      <3> QED BY <3>4
    <2> QED BY <2>1, <2>2 DEF Injection, IsInjective
  <1>5. IsFiniteSet(0 .. m - 1) /\ Cardinality(0 .. m - 1) = m
    <2> HIDE DEF m
    <2> QED BY <1>1, FS_Interval
  <1>6. g \in Surjection(U, 0 .. m - 1)
    BY <1>4, <1>5, FS_Injection
  <1>7. k - 1 \in 0 .. m - 1
    BY <1>1
  <1>8. PICK i \in U : g[i] = k - 1
    BY <1>6, <1>7 DEF Surjection
  <1> QED BY <1>8 DEF Below

-----------------------------------------------------------------------------
(* The cells, and what the operations of llama_kv_cells do to them.        *)

CellRecs ==
    [pos : [Cells -> Int], seq : [Cells -> SUBSET Seqs], shift : [Cells -> Int],
     used : SUBSET Cells, seq_pos : [Seqs -> [Positions -> Int]],
     has_shift : BOOLEAN]

(* The cells with position p of sequence s, and how many seq_pos counts.   *)
CellsAt(c, s, p) == {i \in Cells : s \in c.seq[i] /\ c.pos[i] = p}
Counted(c) ==
    \A s \in Seqs, p \in Positions : c.seq_pos[s][p] = Cardinality(CellsAt(c, s, p))

(* CellsAgree and the types, for any cells.                                *)
Agree(c) ==
    /\ c \in CellRecs
    /\ \A i \in Cells : c.pos[i] \in Positions \cup {-1}
    /\ c.used = {i \in Cells : c.pos[i] # -1}
    /\ \A i \in Cells : c.pos[i] = -1 <=> c.seq[i] = {}
    /\ \A i \in Cells : c.pos[i] = -1 \/ ~c.has_shift => c.shift[i] = 0
    /\ Counted(c)

(* d is c after the sequences of D[i] have left each cell i.               *)
Leaving(c, D, s, p) == {i \in Cells : s \in c.seq[i] \cap D[i] /\ c.pos[i] = p}
Removed(c, d, D) ==
    /\ d \in CellRecs /\ d.has_shift = c.has_shift
    /\ \A i \in Cells :
          /\ d.seq[i] = c.seq[i] \ D[i]
          /\ d.pos[i] = IF d.seq[i] = {} THEN -1 ELSE c.pos[i]
          /\ d.shift[i] = IF d.seq[i] = {} THEN 0 ELSE c.shift[i]
          /\ i \in d.used <=> d.pos[i] # -1
    /\ \A s \in Seqs, p \in Positions :
          d.seq_pos[s][p] = c.seq_pos[s][p] - Cardinality(Leaving(c, D, s, p))

(* Empty cells agree with themselves.                                      *)
LEMMA BlankAgrees == Agree(Blank)
  <1>1. Blank \in CellRecs
    BY DEF Blank, CellRecs
  <1>2. Counted(Blank)
    <2> SUFFICES ASSUME NEW s \in Seqs, NEW p \in Positions
                 PROVE  Blank.seq_pos[s][p] = Cardinality(CellsAt(Blank, s, p))
      BY DEF Counted
    <2>1. CellsAt(Blank, s, p) = {}
      BY DEF CellsAt, Blank
    <2> QED BY <2>1, FS_EmptySet DEF Blank
  <1> QED BY <1>1, <1>2 DEF Agree, Blank

Touched(c, I, S, s, p) == {i \in I : s \in S[i] /\ c.pos[i] = p}

(* Recount adds or subtracts what it counts.                               *)
LEMMA Recounted ==
    ASSUME NEW c \in CellRecs, NEW I, I \subseteq Cells, NEW S
    PROVE  /\ Recount(c, I, S, -1) \in [Seqs -> [Positions -> Int]]
           /\ Recount(c, I, S, 1) \in [Seqs -> [Positions -> Int]]
           /\ \A s \in Seqs, p \in Positions :
                 LET n == Cardinality(Touched(c, I, S, s, p))
                 IN  /\ n \in Nat /\ c.seq_pos[s][p] \in Int
                     /\ Recount(c, I, S, -1)[s][p] = c.seq_pos[s][p] - n
                     /\ Recount(c, I, S, 1)[s][p] = c.seq_pos[s][p] + n
  <1>0. \A s \in Seqs, p \in Positions :
          {i \in I : s \in S[i] /\ c.pos[i] = p} = Touched(c, I, S, s, p)
    BY DEF Touched
  <1>1. \A s \in Seqs, p \in Positions : Cardinality(Touched(c, I, S, s, p)) \in Nat
    <2> SUFFICES ASSUME NEW s \in Seqs, NEW p \in Positions
                 PROVE  Cardinality(Touched(c, I, S, s, p)) \in Nat
      OBVIOUS
    <2>1. Touched(c, I, S, s, p) \subseteq Cells
      BY DEF Touched
    <2> QED BY <2>1, CellsFinite
  <1>2. c.seq_pos \in [Seqs -> [Positions -> Int]]
    BY DEF CellRecs
  <1>3. \A k : Recount(c, I, S, k) = [s \in Seqs |-> [p \in Positions |->
                c.seq_pos[s][p] + k * Cardinality(Touched(c, I, S, s, p))]]
    BY <1>0 DEF Recount
  <1> QED BY <1>1, <1>2, <1>3

(* Other counts change nothing else.                                       *)
LEMMA WithCounts ==
    ASSUME NEW c \in CellRecs, NEW q \in [Seqs -> [Positions -> Int]]
    PROVE  LET d == [c EXCEPT !.seq_pos = q]
           IN  /\ d \in CellRecs /\ d.seq_pos = q
               /\ d.pos = c.pos /\ d.seq = c.seq /\ d.shift = c.shift
               /\ d.used = c.used /\ d.has_shift = c.has_shift
  BY DEF CellRecs

(* What Vacate does to each cell.                                          *)
LEMMA Vacated ==
    ASSUME NEW c \in CellRecs, NEW E, E \subseteq Cells
    PROVE  /\ Vacate(c, E) \in CellRecs
           /\ \A i \in Cells :
                 /\ Vacate(c, E).pos[i] = IF i \in E THEN -1 ELSE c.pos[i]
                 /\ Vacate(c, E).seq[i] = IF i \in E THEN {} ELSE c.seq[i]
                 /\ Vacate(c, E).shift[i] = IF i \in E THEN 0 ELSE c.shift[i]
                 /\ i \in Vacate(c, E).used <=> i \in c.used \ E
           /\ Vacate(c, E).seq_pos = c.seq_pos
           /\ Vacate(c, E).has_shift = c.has_shift
  <1>1. /\ c.pos \in [Cells -> Int] /\ c.seq \in [Cells -> SUBSET Seqs]
        /\ c.shift \in [Cells -> Int] /\ c.used \in SUBSET Cells
    BY DEF CellRecs
  <1>2. /\ [i \in Cells |-> IF i \in E THEN -1 ELSE c.pos[i]] \in [Cells -> Int]
        /\ [i \in Cells |-> IF i \in E THEN {} ELSE c.seq[i]] \in [Cells -> SUBSET Seqs]
        /\ [i \in Cells |-> IF i \in E THEN 0 ELSE c.shift[i]] \in [Cells -> Int]
        /\ c.used \ E \in SUBSET Cells
    BY <1>1
  <1> QED BY <1>2 DEF Vacate, CellRecs

(* What leaves the cells leaves them in agreement.                         *)
LEMMA RemovedAgrees ==
    ASSUME NEW c, NEW d, NEW D, Agree(c), Removed(c, d, D)
    PROVE  Agree(d)
  <1>1. Counted(d)
    <2> SUFFICES ASSUME NEW s \in Seqs, NEW p \in Positions
                 PROVE  d.seq_pos[s][p] = Cardinality(CellsAt(d, s, p))
      BY DEF Counted
    <2> DEFINE L == Leaving(c, D, s, p)
    <2>1. d.seq_pos[s][p] = Cardinality(CellsAt(c, s, p)) - Cardinality(L)
      BY DEF Agree, Counted, Removed
    <2>2. L \subseteq CellsAt(c, s, p) /\ CellsAt(c, s, p) \subseteq Cells
      BY DEF CellsAt, Leaving
    <2>3. CellsAt(d, s, p) = CellsAt(c, s, p) \ L
      BY DEF CellsAt, Removed, Leaving
    <2> QED BY <2>1, <2>2, <2>3, CountLess
  <1>2. d.used = {i \in Cells : d.pos[i] # -1}
    BY DEF Removed, CellRecs
  <1>3. \A i \in Cells : d.pos[i] \in Positions \cup {-1}
    BY DEF Removed, Agree
  <1>4. \A i \in Cells : d.pos[i] = -1 <=> d.seq[i] = {}
    BY DEF Removed, Agree
  <1>5. \A i \in Cells : d.pos[i] = -1 \/ ~d.has_shift => d.shift[i] = 0
    BY DEF Removed, Agree
  <1> QED BY <1>1, <1>2, <1>3, <1>4, <1>5 DEF Agree, Removed

(* rm(), seq_rm(), seq_keep() and the purge of apply_ubatch() only remove. *)
LEMMA RmRemoves ==
    ASSUME NEW c, Agree(c), NEW I, I \subseteq Cells
    PROVE  Removed(c, Rm(c, I), [i \in Cells |-> IF i \in I THEN Seqs ELSE {}])
  <1> DEFINE D == [i \in Cells |-> IF i \in I THEN Seqs ELSE {}]
             q == Recount(c, I, c.seq, -1)
             x == [c EXCEPT !.seq_pos = q]
  <1>0. c \in CellRecs /\ c.seq \in [Cells -> SUBSET Seqs]
    BY DEF Agree, CellRecs
  <1>1. /\ q \in [Seqs -> [Positions -> Int]]
        /\ \A s \in Seqs, p \in Positions :
              q[s][p] = c.seq_pos[s][p] - Cardinality(Touched(c, I, c.seq, s, p))
    BY <1>0, Recounted
  <1>2. /\ x \in CellRecs /\ x.seq_pos = q
        /\ x.pos = c.pos /\ x.seq = c.seq /\ x.shift = c.shift
        /\ x.used = c.used /\ x.has_shift = c.has_shift
    BY <1>0, <1>1, WithCounts
  <1> HIDE DEF x, q
  <1>3. Rm(c, I) = Vacate(x, I)
    BY DEF Rm, x, q
  <1>4. \A s \in Seqs, p \in Positions :
          q[s][p] = c.seq_pos[s][p] - Cardinality(Leaving(c, D, s, p))
    <2> SUFFICES ASSUME NEW s \in Seqs, NEW p \in Positions
                 PROVE  q[s][p] = c.seq_pos[s][p] - Cardinality(Leaving(c, D, s, p))
      OBVIOUS
    <2> DEFINE L == Touched(c, I, c.seq, s, p)
    <2>1. Leaving(c, D, s, p) = L
      BY DEF Touched, Leaving
    <2>2. q[s][p] = c.seq_pos[s][p] - Cardinality(L)
      BY <1>1
    <2> HIDE DEF L
    <2> QED BY <2>1, <2>2
  <1>5. \A i \in Cells :
          /\ Vacate(x, I).seq[i] = c.seq[i] \ D[i]
          /\ Vacate(x, I).pos[i] = IF Vacate(x, I).seq[i] = {} THEN -1 ELSE c.pos[i]
          /\ Vacate(x, I).shift[i] = IF Vacate(x, I).seq[i] = {} THEN 0 ELSE c.shift[i]
          /\ i \in Vacate(x, I).used <=> Vacate(x, I).pos[i] # -1
    BY <1>0, <1>2, Vacated DEF Agree
  <1>6. /\ Vacate(x, I) \in CellRecs
        /\ Vacate(x, I).seq_pos = q /\ Vacate(x, I).has_shift = c.has_shift
    BY <1>2, Vacated
  <1> HIDE DEF D
  <1>7. Removed(c, Rm(c, I), D)
    BY <1>3, <1>4, <1>5, <1>6 DEF Removed
  <1> QED BY <1>7 DEF D

(* seq_rm() of cells removes the sequence from these cells.                *)
LEMMA SeqRmRemoves ==
    ASSUME NEW c, Agree(c), NEW s \in Seqs, NEW I, I \subseteq Has(c, s)
    PROVE  Removed(c, SeqRmCells(c, I, s), [i \in Cells |-> IF i \in I THEN {s} ELSE {}])
  <1> DEFINE D == [i \in Cells |-> IF i \in I THEN {s} ELSE {}]
             S == [i \in Cells |-> {s}]
             q == Recount(c, I, S, -1)
             t == [i \in Cells |-> IF i \in I THEN c.seq[i] \ {s} ELSE c.seq[i]]
             x == [c EXCEPT !.seq = t, !.seq_pos = q]
             E == I \cap Alone(c, s)
             d == Vacate(x, E)
  <1>0. /\ c \in CellRecs /\ c.seq \in [Cells -> SUBSET Seqs]
        /\ I \subseteq Cells /\ \A i \in I : s \in c.seq[i]
    BY DEF Agree, CellRecs, Has
  <1>1. /\ q \in [Seqs -> [Positions -> Int]]
        /\ \A u \in Seqs, p \in Positions :
              q[u][p] = c.seq_pos[u][p] - Cardinality(Touched(c, I, S, u, p))
    <2> HIDE DEF S
    <2> QED BY <1>0, Recounted
  <1>2. /\ x \in CellRecs /\ x.seq = t /\ x.seq_pos = q
        /\ x.pos = c.pos /\ x.shift = c.shift
        /\ x.used = c.used /\ x.has_shift = c.has_shift
    <2>1. t \in [Cells -> SUBSET Seqs]
      BY <1>0
    <2>2. q \in [Seqs -> [Positions -> Int]]
      BY <1>1
    <2> HIDE DEF t, q
    <2>3. c \in CellRecs
      BY <1>0
    <2> QED BY <2>1, <2>2, <2>3 DEF CellRecs
  <1>3. SeqRmCells(c, I, s) = d
    BY DEF SeqRmCells
  <1>4. \A u \in Seqs, p \in Positions :
          q[u][p] = c.seq_pos[u][p] - Cardinality(Leaving(c, D, u, p))
    <2> SUFFICES ASSUME NEW u \in Seqs, NEW p \in Positions
                 PROVE  q[u][p] = c.seq_pos[u][p] - Cardinality(Leaving(c, D, u, p))
      OBVIOUS
    <2> DEFINE L == Touched(c, I, S, u, p)
    <2>1. Leaving(c, D, u, p) = L
      BY <1>0 DEF Touched, Leaving
    <2>2. q[u][p] = c.seq_pos[u][p] - Cardinality(L)
      BY <1>1
    <2> HIDE DEF L, q
    <2> QED BY <2>1, <2>2
  <1> HIDE DEF x, q
  <1>5. /\ d \in CellRecs
        /\ \A i \in Cells :
              /\ d.pos[i] = IF i \in E THEN -1 ELSE c.pos[i]
              /\ d.seq[i] = IF i \in E THEN {} ELSE t[i]
              /\ d.shift[i] = IF i \in E THEN 0 ELSE c.shift[i]
              /\ i \in d.used <=> i \in c.used \ E
        /\ d.seq_pos = q /\ d.has_shift = c.has_shift
    <2>1. E \subseteq Cells
      BY <1>0
    <2> HIDE DEF E, t
    <2> QED BY <2>1, <1>2, Vacated
  <1> HIDE DEF d
  <1>6. \A i \in Cells :
          /\ d.seq[i] = c.seq[i] \ D[i]
          /\ d.seq[i] = {} <=> i \in E \/ c.seq[i] = {}
    BY <1>0, <1>5 DEF Alone
  <1> HIDE DEF E, D
  <1>7. \A i \in Cells :
          /\ d.pos[i] = IF d.seq[i] = {} THEN -1 ELSE c.pos[i]
          /\ d.shift[i] = IF d.seq[i] = {} THEN 0 ELSE c.shift[i]
          /\ i \in d.used <=> d.pos[i] # -1
    <2> HIDE DEF t
    <2>1. \A i \in Cells : /\ i \in c.used <=> c.pos[i] # -1
                           /\ c.pos[i] = -1 <=> c.seq[i] = {}
                           /\ c.pos[i] = -1 => c.shift[i] = 0
      BY DEF Agree
    <2> QED BY <1>5, <1>6, <2>1
  <1>8. Removed(c, d, D)
    BY <1>4, <1>5, <1>6, <1>7 DEF Removed
  <1> QED BY <1>3, <1>8 DEF D

(* seq_keep() removes all other sequences.                                 *)
LEMMA SeqKeepRemoves ==
    ASSUME NEW c, Agree(c), NEW s \in Seqs
    PROVE  Removed(c, SeqKeepCells(c, s), [i \in Cells |-> Seqs \ {s}])
  <1> DEFINE D == [i \in Cells |-> Seqs \ {s}]
             S == [i \in Cells |-> {s}]
             any == {i \in Cells : c.seq[i] # {}}
             q1 == Recount(c, any, c.seq, -1)
             gone == [c EXCEPT !.seq_pos = q1]
             q2 == Recount(gone, Has(c, s), S, 1)
             t == [i \in Cells |-> c.seq[i] \cap {s}]
             x == [gone EXCEPT !.seq = t, !.seq_pos = q2]
             E == any \ Has(c, s)
             d == Vacate(x, E)
  <1>0. c \in CellRecs /\ c.seq \in [Cells -> SUBSET Seqs]
    BY DEF Agree, CellRecs
  <1>1. /\ q1 \in [Seqs -> [Positions -> Int]]
        /\ \A u \in Seqs, p \in Positions :
              /\ Cardinality(Touched(c, any, c.seq, u, p)) \in Nat
              /\ c.seq_pos[u][p] \in Int
              /\ q1[u][p] = c.seq_pos[u][p] - Cardinality(Touched(c, any, c.seq, u, p))
    <2>1. any \subseteq Cells
      OBVIOUS
    <2> HIDE DEF any
    <2> QED BY <2>1, <1>0, Recounted
  <1>2. /\ gone \in CellRecs /\ gone.seq_pos = q1
        /\ gone.pos = c.pos /\ gone.seq = c.seq /\ gone.shift = c.shift
        /\ gone.used = c.used /\ gone.has_shift = c.has_shift
    <2> HIDE DEF q1
    <2> QED BY <1>0, <1>1, WithCounts
  <1>3. /\ q2 \in [Seqs -> [Positions -> Int]]
        /\ \A u \in Seqs, p \in Positions :
              q2[u][p] = gone.seq_pos[u][p] + Cardinality(Touched(gone, Has(c, s), S, u, p))
    <2>1. Has(c, s) \subseteq Cells
      BY DEF Has
    <2>2. gone \in CellRecs
      BY <1>2
    <2> HIDE DEF gone, S
    <2>3. q2 \in [Seqs -> [Positions -> Int]]
      BY <2>1, <2>2, Recounted
    <2>4. \A u \in Seqs, p \in Positions :
              q2[u][p] = gone.seq_pos[u][p] + Cardinality(Touched(gone, Has(c, s), S, u, p))
      BY <2>1, <2>2, Recounted
    <2> QED BY <2>3, <2>4
  <1>4. SeqKeepCells(c, s) = d
    <2>1. gone.seq = c.seq
      BY <1>2
    <2>2. [i \in Cells |-> gone.seq[i] \cap {s}] = t
      BY <2>1
    <2> HIDE DEF t
    <2> QED BY <2>2 DEF SeqKeepCells
  <1>5. \A u \in Seqs, p \in Positions :
          q2[u][p] = c.seq_pos[u][p] - Cardinality(Leaving(c, D, u, p))
    <2> SUFFICES ASSUME NEW u \in Seqs, NEW p \in Positions
                 PROVE  q2[u][p] = c.seq_pos[u][p] - Cardinality(Leaving(c, D, u, p))
      OBVIOUS
    <2> DEFINE A == Touched(c, any, c.seq, u, p)
               B == Touched(gone, Has(c, s), S, u, p)
               L == Leaving(c, D, u, p)
    <2> SUFFICES q2[u][p] = c.seq_pos[u][p] - Cardinality(L)
      OBVIOUS
    <2>1. /\ q2[u][p] = c.seq_pos[u][p] - Cardinality(A) + Cardinality(B)
          /\ Cardinality(A) \in Nat /\ c.seq_pos[u][p] \in Int
      <3> HIDE DEF q1, q2, gone, any, S
      <3> QED BY <1>1, <1>2, <1>3
    <2>2. CASE u = s
      <3>1. gone.pos = c.pos
        BY <1>2
      <3> HIDE DEF gone
      <3>2. A = B
        BY <3>1, <2>2, <1>0 DEF Touched, Has
      <3>3. L = {}
        BY <2>2 DEF Leaving
      <3> HIDE DEF A, B, L, q2
      <3> QED BY <3>2, <3>3, <2>1, FS_EmptySet
    <2>3. CASE u # s
      <3>2. A = L
        BY <2>3, <1>0 DEF Touched, Leaving
      <3>3. B = {}
        BY <2>3 DEF Touched, Has
      <3> HIDE DEF A, B, L, q2
      <3> QED BY <3>2, <3>3, <2>1, FS_EmptySet
    <2> QED BY <2>2, <2>3
  <1>6. /\ x \in CellRecs /\ x.seq = t /\ x.seq_pos = q2
        /\ x.pos = c.pos /\ x.shift = c.shift
        /\ x.used = c.used /\ x.has_shift = c.has_shift
    <2>1. t \in [Cells -> SUBSET Seqs]
      BY <1>0
    <2>2. q2 \in [Seqs -> [Positions -> Int]]
      BY <1>3
    <2> HIDE DEF t, q2, gone
    <2> QED BY <2>1, <2>2, <1>2 DEF CellRecs
  <1> HIDE DEF x, q2, q1, gone
  <1>7. /\ d \in CellRecs
        /\ \A i \in Cells :
              /\ d.pos[i] = IF i \in E THEN -1 ELSE c.pos[i]
              /\ d.seq[i] = IF i \in E THEN {} ELSE t[i]
              /\ d.shift[i] = IF i \in E THEN 0 ELSE c.shift[i]
              /\ i \in d.used <=> i \in c.used \ E
        /\ d.seq_pos = q2 /\ d.has_shift = c.has_shift
    <2>1. E \subseteq Cells
      OBVIOUS
    <2> HIDE DEF E, t
    <2> QED BY <2>1, <1>6, Vacated
  <1> HIDE DEF d
  <1>8. \A i \in Cells :
          /\ d.seq[i] = c.seq[i] \ D[i]
          /\ d.seq[i] = {} <=> i \in E \/ c.seq[i] = {}
    BY <1>0, <1>7 DEF Has
  <1> HIDE DEF E, D
  <1>9. \A i \in Cells :
          /\ d.pos[i] = IF d.seq[i] = {} THEN -1 ELSE c.pos[i]
          /\ d.shift[i] = IF d.seq[i] = {} THEN 0 ELSE c.shift[i]
          /\ i \in d.used <=> d.pos[i] # -1
    <2> HIDE DEF t, any
    <2>1. \A i \in Cells : /\ i \in c.used <=> c.pos[i] # -1
                           /\ c.pos[i] = -1 <=> c.seq[i] = {}
                           /\ c.pos[i] = -1 => c.shift[i] = 0
      BY DEF Agree
    <2> QED BY <1>7, <1>8, <2>1
  <1>10. Removed(c, d, D)
    BY <1>5, <1>7, <1>8, <1>9 DEF Removed
  <1> QED BY <1>4, <1>10 DEF D

(* What RmUpto takes from cell i.                                          *)
Old(c, m, i) == {s \in c.seq[i] : c.pos[i] <= m[s]}

(* The purge removes what is old.                                          *)
LEMMA RmUptoRemoves ==
    ASSUME NEW c, Agree(c), NEW m
    PROVE  Removed(c, RmUpto(c, m), [i \in Cells |-> Old(c, m, i)])
  <1> DEFINE D == [i \in Cells |-> Old(c, m, i)]
             q == Recount(c, Cells, D, -1)
             t == [i \in Cells |-> c.seq[i] \ D[i]]
             x == [c EXCEPT !.seq = t, !.seq_pos = q]
             E == {i \in Cells : c.seq[i] # {} /\ \A s \in c.seq[i] : s \in D[i]}
             d == Vacate(x, E)
  <1>0. c \in CellRecs /\ c.seq \in [Cells -> SUBSET Seqs]
    BY DEF Agree, CellRecs
  <1>1. /\ q \in [Seqs -> [Positions -> Int]]
        /\ \A u \in Seqs, p \in Positions :
              q[u][p] = c.seq_pos[u][p] - Cardinality(Touched(c, Cells, D, u, p))
    <2>1. Cells \subseteq Cells
      OBVIOUS
    <2>2. c \in CellRecs
      BY <1>0
    <2> HIDE DEF D
    <2>3. q \in [Seqs -> [Positions -> Int]]
      BY <2>1, <2>2, Recounted
    <2>4. \A u \in Seqs, p \in Positions :
              q[u][p] = c.seq_pos[u][p] - Cardinality(Touched(c, Cells, D, u, p))
      BY <2>1, <2>2, Recounted
    <2> QED BY <2>3, <2>4
  <1>2. /\ x \in CellRecs /\ x.seq = t /\ x.seq_pos = q
        /\ x.pos = c.pos /\ x.shift = c.shift
        /\ x.used = c.used /\ x.has_shift = c.has_shift
    <2>1. t \in [Cells -> SUBSET Seqs]
      BY <1>0
    <2>2. q \in [Seqs -> [Positions -> Int]]
      BY <1>1
    <2>3. c \in CellRecs
      BY <1>0
    <2> HIDE DEF t, q
    <2> QED BY <2>1, <2>2, <2>3 DEF CellRecs
  <1>3. RmUpto(c, m) = d
    <2> DEFINE old(s) == {i \in Has(c, s) : c.pos[i] <= m[s]}
    <2>1. \A i \in Cells : \A s \in c.seq[i] : i \in old(s) <=> s \in D[i]
      BY DEF Has, Old
    <2>2. [i \in Cells |-> {s \in c.seq[i] : i \notin old(s)}] = t
      BY <2>1
    <2>3. [i \in Cells |-> {s \in c.seq[i] : i \in old(s)}] = D
      <3>1. \A i \in Cells : {s \in c.seq[i] : i \in old(s)} = Old(c, m, i)
        BY <2>1 DEF Old
      <3> HIDE DEF old
      <3> QED BY <3>1
    <2>4. {i \in Cells : c.seq[i] # {} /\ \A s \in c.seq[i] : i \in old(s)} = E
      BY <2>1
    <2> HIDE DEF D, t, E
    <2> QED BY <2>2, <2>3, <2>4 DEF RmUpto
  <1>4. \A u \in Seqs, p \in Positions :
          q[u][p] = c.seq_pos[u][p] - Cardinality(Leaving(c, D, u, p))
    <2> SUFFICES ASSUME NEW u \in Seqs, NEW p \in Positions
                 PROVE  q[u][p] = c.seq_pos[u][p] - Cardinality(Leaving(c, D, u, p))
      OBVIOUS
    <2> DEFINE L == Touched(c, Cells, D, u, p)
    <2>1. Leaving(c, D, u, p) = L
      BY <1>0 DEF Touched, Leaving, Old
    <2>2. q[u][p] = c.seq_pos[u][p] - Cardinality(L)
      BY <1>1
    <2> HIDE DEF L, q
    <2> QED BY <2>1, <2>2
  <1> HIDE DEF x, q
  <1>5. /\ d \in CellRecs
        /\ \A i \in Cells :
              /\ d.pos[i] = IF i \in E THEN -1 ELSE c.pos[i]
              /\ d.seq[i] = IF i \in E THEN {} ELSE t[i]
              /\ d.shift[i] = IF i \in E THEN 0 ELSE c.shift[i]
              /\ i \in d.used <=> i \in c.used \ E
        /\ d.seq_pos = q /\ d.has_shift = c.has_shift
    <2>1. E \subseteq Cells
      OBVIOUS
    <2> HIDE DEF E, t
    <2> QED BY <2>1, <1>2, Vacated
  <1> HIDE DEF d, D
  <1>6. \A i \in Cells :
          /\ d.seq[i] = c.seq[i] \ D[i]
          /\ d.seq[i] = {} <=> i \in E \/ c.seq[i] = {}
    BY <1>0, <1>5
  <1> HIDE DEF E
  <1>7. \A i \in Cells :
          /\ d.pos[i] = IF d.seq[i] = {} THEN -1 ELSE c.pos[i]
          /\ d.shift[i] = IF d.seq[i] = {} THEN 0 ELSE c.shift[i]
          /\ i \in d.used <=> d.pos[i] # -1
    <2> HIDE DEF t
    <2>1. \A i \in Cells : /\ i \in c.used <=> c.pos[i] # -1
                           /\ c.pos[i] = -1 <=> c.seq[i] = {}
                           /\ c.pos[i] = -1 => c.shift[i] = 0
      BY DEF Agree
    <2> QED BY <1>5, <1>6, <2>1
  <1>8. Removed(c, d, D)
    BY <1>4, <1>5, <1>6, <1>7 DEF Removed
  <1> QED BY <1>3, <1>8 DEF D

(* seq_add(): a sequence joins cells that did not have it.                 *)
Joined(c, d, I, s) ==
    /\ d \in CellRecs /\ Counted(d)
    /\ d.pos = c.pos /\ d.shift = c.shift
    /\ d.used = c.used /\ d.has_shift = c.has_shift
    /\ \A i \in Cells :
          d.seq[i] = IF i \in I THEN c.seq[i] \cup {s} ELSE c.seq[i]

(* seq_add() counts the cells that a sequence joins.                       *)
LEMMA SeqAddCounts ==
    ASSUME NEW c \in CellRecs, Counted(c), NEW s \in Seqs,
           NEW I, I \subseteq Cells, I \cap Has(c, s) = {}
    PROVE  Joined(c, SeqAddCells(c, I, s), I, s)
  <1> DEFINE S == [i \in Cells |-> {s}]
             q == Recount(c, I, S, 1)
             t == [i \in Cells |-> IF i \in I THEN c.seq[i] \cup {s} ELSE c.seq[i]]
             d == [c EXCEPT !.seq = t, !.seq_pos = q]
  <1>0. c.seq \in [Cells -> SUBSET Seqs]
    BY DEF CellRecs
  <1>1. /\ q \in [Seqs -> [Positions -> Int]]
        /\ \A u \in Seqs, p \in Positions :
              q[u][p] = c.seq_pos[u][p] + Cardinality(Touched(c, I, S, u, p))
    <2> HIDE DEF S
    <2> QED BY Recounted
  <1>2. /\ d \in CellRecs /\ d.seq = t /\ d.seq_pos = q
        /\ d.pos = c.pos /\ d.shift = c.shift
        /\ d.used = c.used /\ d.has_shift = c.has_shift
    <2>1. t \in [Cells -> SUBSET Seqs]
      BY <1>0
    <2>2. q \in [Seqs -> [Positions -> Int]]
      BY <1>1
    <2> HIDE DEF t, q
    <2> QED BY <2>1, <2>2 DEF CellRecs
  <1>3. SeqAddCells(c, I, s) = d
    BY DEF SeqAddCells
  <1> HIDE DEF d, q
  <1>4. Counted(d)
    <2> SUFFICES ASSUME NEW u \in Seqs, NEW p \in Positions
                 PROVE  d.seq_pos[u][p] = Cardinality(CellsAt(d, u, p))
      BY DEF Counted
    <2> DEFINE A == CellsAt(c, u, p)
               B == Touched(c, I, S, u, p)
    <2>1. d.seq_pos[u][p] = Cardinality(A) + Cardinality(B)
      BY <1>1, <1>2 DEF Counted
    <2>2. A \subseteq Cells /\ B \subseteq Cells /\ A \cap B = {}
      BY DEF CellsAt, Touched, Has
    <2>3. CellsAt(d, u, p) = A \cup B
      BY <1>0, <1>2 DEF CellsAt, Touched
    <2> HIDE DEF A, B
    <2> QED BY <2>1, <2>2, <2>3, CountMore
  <1>5. \A i \in Cells :
            d.seq[i] = IF i \in I THEN c.seq[i] \cup {s} ELSE c.seq[i]
    BY <1>2
  <1> QED BY <1>2, <1>3, <1>4, <1>5 DEF Joined

(* seq_cp() leaves the cells in agreement.                                 *)
LEMMA SeqAddAgrees ==
    ASSUME NEW c, Agree(c), NEW s \in Seqs,
           NEW I, I \subseteq Cells, I \cap Has(c, s) = {},
           \A i \in I : c.pos[i] # -1
    PROVE  Agree(SeqAddCells(c, I, s))
  <1> DEFINE d == SeqAddCells(c, I, s)
  <1>1. Joined(c, d, I, s)
    BY SeqAddCounts DEF Agree
  <1> HIDE DEF d
  <1>2. Agree(d)
    BY <1>1 DEF Agree, Joined
  <1> QED BY <1>2 DEF d

(* pos_add(): positions and shifts move together.                          *)
LEMMA PosAddAgrees ==
    ASSUME NEW c, Agree(c), NEW d \in Int, NEW I, I \subseteq Cells,
           \A i \in I : c.pos[i] # -1 /\ c.pos[i] + d <= MaxPos
    PROVE  /\ Agree(PosAdd(c, I, d))
           /\ \A i \in Cells : PosAdd(c, I, d).pos[i] # -1 =>
                 /\ c.pos[i] # -1
                 /\ PosAdd(c, I, d).shift[i] - PosAdd(c, I, d).pos[i] =
                        c.shift[i] - c.pos[i]
  <1> DEFINE q1 == Recount(c, I, c.seq, -1)
             gone == [c EXCEPT !.seq_pos = q1]
             E == {i \in I : c.pos[i] + d < 0}
             P == [i \in Cells |-> IF i \in I THEN c.pos[i] + d ELSE c.pos[i]]
             H == [i \in Cells |-> IF i \in I THEN c.shift[i] + d ELSE c.shift[i]]
             moved == [gone EXCEPT !.pos = P, !.shift = H,
                                   !.has_shift = c.has_shift \/ I # {}]
             q2 == Recount(moved, I \ E, c.seq, 1)
             x == [moved EXCEPT !.seq_pos = q2]
             e == Vacate(x, E)
  <1>0. /\ c \in CellRecs /\ c.seq \in [Cells -> SUBSET Seqs]
        /\ c.pos \in [Cells -> Int] /\ c.shift \in [Cells -> Int]
        /\ c.has_shift \in BOOLEAN
    BY DEF Agree, CellRecs
  <1>1. /\ q1 \in [Seqs -> [Positions -> Int]]
        /\ \A u \in Seqs, p \in Positions :
              q1[u][p] = c.seq_pos[u][p] - Cardinality(Touched(c, I, c.seq, u, p))
    BY <1>0, Recounted
  <1>2. /\ gone \in CellRecs /\ gone.seq_pos = q1
        /\ gone.pos = c.pos /\ gone.seq = c.seq /\ gone.shift = c.shift
        /\ gone.used = c.used /\ gone.has_shift = c.has_shift
    <2> HIDE DEF q1
    <2> QED BY <1>0, <1>1, WithCounts
  <1>3. /\ moved \in CellRecs /\ moved.seq_pos = q1
        /\ moved.pos = P /\ moved.seq = c.seq /\ moved.shift = H
        /\ moved.used = c.used /\ moved.has_shift = (c.has_shift \/ I # {})
    <2>1. P \in [Cells -> Int] /\ H \in [Cells -> Int]
      BY <1>0
    <2>2. (c.has_shift \/ I # {}) \in BOOLEAN
      OBVIOUS
    <2> HIDE DEF gone, P, H, q1
    <2> QED BY <1>2, <2>1, <2>2 DEF CellRecs
  <1>4. PosAdd(c, I, d) = e
    <2>1. /\ [i \in Cells |-> IF i \in I THEN gone.pos[i] + d ELSE gone.pos[i]] = P
          /\ [i \in Cells |-> IF i \in I THEN gone.shift[i] + d ELSE gone.shift[i]] = H
          /\ (gone.has_shift \/ I # {}) = (c.has_shift \/ I # {})
      <3> HIDE DEF gone
      <3> QED BY <1>2
    <2>2. moved = [gone EXCEPT
                    !.pos   = [i \in Cells |-> IF i \in I THEN @[i] + d ELSE @[i]],
                    !.shift = [i \in Cells |-> IF i \in I THEN @[i] + d ELSE @[i]],
                    !.has_shift = @ \/ I # {}]
      <3> HIDE DEF P, H, gone
      <3> QED BY <2>1
    <2> HIDE DEF moved
    <2> QED BY <2>2 DEF PosAdd
  <1>5. /\ q2 \in [Seqs -> [Positions -> Int]]
        /\ \A u \in Seqs, p \in Positions :
              q2[u][p] = q1[u][p] + Cardinality(Touched(moved, I \ E, c.seq, u, p))
    <2>1. I \ E \subseteq Cells
      OBVIOUS
    <2>2. moved \in CellRecs /\ moved.seq_pos = q1
      BY <1>3
    <2> DEFINE J == I \ E
    <2> HIDE DEF moved, J, q1
    <2>3. /\ Recount(moved, J, c.seq, 1) \in [Seqs -> [Positions -> Int]]
          /\ \A u \in Seqs, p \in Positions :
                Recount(moved, J, c.seq, 1)[u][p] =
                    moved.seq_pos[u][p] + Cardinality(Touched(moved, J, c.seq, u, p))
      <3>1. J \subseteq Cells
        BY <2>1 DEF J
      <3> QED BY <3>1, <2>2, Recounted
    <2> QED BY <2>2, <2>3 DEF J
  <1> HIDE DEF moved, gone, q1
  <1>6. /\ x \in CellRecs /\ x.seq_pos = q2
        /\ x.pos = P /\ x.seq = c.seq /\ x.shift = H
        /\ x.used = c.used /\ x.has_shift = (c.has_shift \/ I # {})
    <2> HIDE DEF q2, P, H
    <2> QED BY <1>3, <1>5, WithCounts
  <1> HIDE DEF x, q2
  <1>7. /\ e \in CellRecs
        /\ \A i \in Cells :
              /\ e.pos[i] = IF i \in E THEN -1 ELSE P[i]
              /\ e.seq[i] = IF i \in E THEN {} ELSE c.seq[i]
              /\ e.shift[i] = IF i \in E THEN 0 ELSE H[i]
              /\ i \in e.used <=> i \in c.used \ E
        /\ e.seq_pos = q2 /\ e.has_shift = (c.has_shift \/ I # {})
    <2>1. E \subseteq Cells
      OBVIOUS
    <2> HIDE DEF E, P, H
    <2> QED BY <2>1, <1>6, Vacated
  <1> HIDE DEF e
  <1>8. \A i \in Cells : c.pos[i] \in Int /\ c.pos[i] >= -1 /\ c.shift[i] \in Int
    BY <1>0, CacheAssumption DEF Agree, Positions
  <1>9. Counted(e)
    <2> SUFFICES ASSUME NEW u \in Seqs, NEW p \in Positions
                 PROVE  e.seq_pos[u][p] = Cardinality(CellsAt(e, u, p))
      BY DEF Counted
    <2> DEFINE A == CellsAt(c, u, p)
               B == Touched(c, I, c.seq, u, p)
               C == Touched(moved, I \ E, c.seq, u, p)
    <2>1. e.seq_pos[u][p] = Cardinality(A) - Cardinality(B) + Cardinality(C)
      BY <1>1, <1>5, <1>7 DEF Counted, Agree
    <2>2. A \subseteq Cells /\ B \subseteq A /\ C \subseteq Cells /\ (A \ B) \cap C = {}
      BY DEF CellsAt, Touched
    <2>3. CellsAt(e, u, p) = (A \ B) \cup C
      <3>1. p \in Nat
        BY CacheAssumption DEF Positions
      <3>2. \A i \in I \ E : moved.pos[i] = c.pos[i] + d
        BY <1>3
      <3>3. C = {i \in I \ E : u \in c.seq[i] /\ c.pos[i] + d = p}
        <4> HIDE DEF E
        <4> QED BY <3>2 DEF Touched
      <3>4. A \ B = {i \in Cells \ I : u \in c.seq[i] /\ c.pos[i] = p}
        BY DEF CellsAt, Touched
      <3>5. \A i \in Cells : e.pos[i] = IF i \in E THEN -1
                                ELSE IF i \in I THEN c.pos[i] + d ELSE c.pos[i]
        BY <1>7
      <3>6. E \subseteq I /\ \A i \in Cells : i \notin E => e.seq[i] = c.seq[i]
        BY <1>7
      <3> HIDE DEF A, B, C, E, P, H
      <3> QED BY <3>1, <3>3, <3>4, <3>5, <3>6, <1>7 DEF CellsAt
    <2> HIDE DEF A, B, C
    <2>4. Cardinality(A \ B) = Cardinality(A) - Cardinality(B)
      BY <2>2, CountLess
    <2>5. Cardinality((A \ B) \cup C) = Cardinality(A \ B) + Cardinality(C)
      BY <2>2, CountMore
    <2> QED BY <2>1, <2>3, <2>4, <2>5
  <1>10. \A i \in Cells : e.pos[i] \in Positions \cup {-1}
    BY <1>7, <1>8, CacheAssumption DEF Agree, Positions
  <1>11. \A i \in Cells : e.pos[i] = -1 <=> i \in E \/ c.pos[i] = -1
    BY <1>7, <1>8
  <1>12. /\ e.used = {i \in Cells : e.pos[i] # -1}
         /\ \A i \in Cells : e.pos[i] = -1 <=> e.seq[i] = {}
    <2>1. e.used \subseteq Cells
      BY <1>7 DEF CellRecs
    <2> HIDE DEF E
    <2> QED BY <2>1, <1>7, <1>11 DEF Agree
  <1>13. \A i \in Cells : e.pos[i] = -1 \/ ~e.has_shift => e.shift[i] = 0
    <2> SUFFICES ASSUME NEW i \in Cells, e.pos[i] = -1 \/ ~e.has_shift
                 PROVE  e.shift[i] = 0
      OBVIOUS
    <2>1. CASE i \in E
      BY <2>1, <1>7
    <2>2. CASE i \notin E /\ i \notin I
      BY <2>2, <1>7 DEF Agree
    <2>3. CASE i \notin E /\ i \in I
      BY <2>3, <1>7, <1>11
    <2> QED BY <2>1, <2>2, <2>3
  <1>14. Agree(e)
    BY <1>7, <1>9, <1>10, <1>12, <1>13 DEF Agree
  <1>15. \A i \in Cells : e.pos[i] # -1 =>
            c.pos[i] # -1 /\ e.shift[i] - e.pos[i] = c.shift[i] - c.pos[i]
    BY <1>7, <1>8, <1>11
  <1> QED BY <1>4, <1>14, <1>15

(* What apply_ubatch() leaves in the cells of its slot R, and in others.   *)
Applied(c, a, R, s, p) ==
    /\ Agree(a) /\ a.has_shift = c.has_shift
    /\ \A i \in R : /\ a.shift[i] = 0
                    /\ a.pos[i] = -1 \/ (a.seq[i] = {s} /\ a.pos[i] >= p)
    /\ \A i \in Cells \ R :
          /\ a.pos[i] # -1 => a.pos[i] = c.pos[i] /\ a.shift[i] = c.shift[i]
          /\ c.shift[i] = 0 => a.shift[i] = 0

(* Where the tokens are after apply_ubatch(): of those outside the slot    *)
(* the ones that are not purged, and in the slot the new ones.             *)
Tokens(c, a, idxs, n, s, p) ==
    /\ \A i \in Cells \ Range(idxs) :
          a.seq[i] = {t \in c.seq[i] : ~(c.pos[i] <= MaxRm(c, idxs, t))}
    /\ IsInjective(idxs) => \A k \in 1 .. n :
          /\ a.seq[idxs[k]] = IF p + k - 1 <= MaxRm(c, idxs, s) THEN {} ELSE {s}
          /\ a.seq[idxs[k]] # {} => a.pos[idxs[k]] = p + k - 1

(* apply_ubatch() leaves the cells in agreement.                           *)
LEMMA ApplyAgrees ==
    ASSUME NEW c, Agree(c), NEW n \in Nat \ {0}, NEW idxs \in [1 .. n -> Cells],
           NEW s \in Seqs, NEW p \in Nat, p + n - 1 <= MaxPos
    PROVE  /\ Applied(c, Apply(c, idxs, s, p), Range(idxs), s, p)
           /\ Tokens(c, Apply(c, idxs, s, p), idxs, n, s, p)
  <1> DEFINE R == Range(idxs)
             m == [t \in Seqs |-> MaxRm(c, idxs, t)]
             I == {i \in R : c.pos[i] # -1}
             bare == Rm(c, I)
             At(i) == CHOOSE k \in DOMAIN idxs : idxs[k] = i
             P == [i \in Cells |-> IF i \in R THEN p + At(i) - 1 ELSE bare.pos[i]]
             put == [bare EXCEPT !.pos = P, !.used = bare.used \cup R]
             full == SeqAddCells(put, R, s)
             a == RmUpto(full, m)
  <1>0. R \subseteq Cells /\ I \subseteq Cells /\ I \subseteq R
    BY DEF Range
  <1>1. \A i \in R : At(i) \in 1 .. n
    BY DEF Range
  <1>2. Apply(c, idxs, s, p) = a
    BY DEF Apply, Purge
  <1> HIDE DEF R, m, At
  <1>3. /\ Removed(c, bare, [i \in Cells |-> IF i \in I THEN Seqs ELSE {}])
        /\ Agree(bare)
    <2>1. Removed(c, bare, [i \in Cells |-> IF i \in I THEN Seqs ELSE {}])
      <3> HIDE DEF I
      <3> QED BY <1>0, RmRemoves
    <2> HIDE DEF bare
    <2> QED BY <2>1, RemovedAgrees
  <1> HIDE DEF bare
  <1>4. /\ bare.has_shift = c.has_shift
        /\ \A i \in R : bare.pos[i] = -1 /\ bare.seq[i] = {} /\ bare.shift[i] = 0
        /\ \A i \in Cells \ R :
              /\ bare.pos[i] # -1 => bare.pos[i] = c.pos[i] /\ bare.shift[i] = c.shift[i]
              /\ c.shift[i] = 0 => bare.shift[i] = 0
    <2>1. c.seq \in [Cells -> SUBSET Seqs]
      BY DEF Agree, CellRecs
    <2>2. \A i \in R : bare.seq[i] = {}
      BY <1>0, <1>3, <2>1 DEF Removed, Agree
    <2>3. bare.has_shift = c.has_shift
      BY <1>3 DEF Removed
    <2> QED BY <1>0, <1>3, <2>2, <2>3 DEF Removed
  <1>5. /\ put \in CellRecs /\ put.pos = P /\ put.used = bare.used \cup R
        /\ put.seq = bare.seq /\ put.shift = bare.shift
        /\ put.seq_pos = bare.seq_pos /\ put.has_shift = bare.has_shift
    <2>1. bare \in CellRecs
      BY <1>3 DEF Agree
    <2>2. bare.used \in SUBSET Cells /\ bare.pos \in [Cells -> Int]
      BY <2>1 DEF CellRecs
    <2>3. P \in [Cells -> Int]
      BY <1>1, <2>2
    <2>4. bare.used \cup R \in SUBSET Cells
      BY <1>0, <2>2
    <2> HIDE DEF P
    <2> QED BY <2>1, <2>3, <2>4 DEF CellRecs
  <1> HIDE DEF put
  <1>6. Counted(put)
    <2> SUFFICES ASSUME NEW u \in Seqs, NEW v \in Positions
                 PROVE  put.seq_pos[u][v] = Cardinality(CellsAt(put, u, v))
      BY DEF Counted
    <2>1. CellsAt(put, u, v) = CellsAt(bare, u, v)
      BY <1>4, <1>5 DEF CellsAt
    <2> QED BY <2>1, <1>3, <1>5 DEF Agree, Counted
  <1>7. /\ full \in CellRecs /\ Counted(full)
        /\ full.pos = P /\ full.shift = bare.shift
        /\ full.used = bare.used \cup R /\ full.has_shift = bare.has_shift
        /\ \A i \in Cells :
              full.seq[i] = IF i \in R THEN bare.seq[i] \cup {s} ELSE bare.seq[i]
    <2>1. R \cap Has(put, s) = {}
      BY <1>4, <1>5 DEF Has
    <2>2. put \in CellRecs
      BY <1>5
    <2>3. R \subseteq Cells
      BY <1>0
    <2>4. Joined(put, full, R, s)
      BY <2>1, <2>2, <2>3, <1>6, SeqAddCounts
    <2> HIDE DEF full, P
    <2> QED BY <2>4, <1>5 DEF Joined
  <1> HIDE DEF full
  <1>8. \A i \in R : full.pos[i] \in Positions /\ full.pos[i] >= p
    BY <1>0, <1>1, <1>7, CacheAssumption DEF Positions
  <1>9. \A i \in Cells \ R : full.pos[i] = bare.pos[i]
    BY <1>7
  <1> HIDE DEF P
  <1>10. Agree(full)
    <2>1. \A i \in Cells : full.pos[i] \in Positions \cup {-1}
      BY <1>3, <1>8, <1>9 DEF Agree
    <2>2. -1 \notin Positions
      BY CacheAssumption DEF Positions
    <2>3. /\ \A i \in Cells : full.pos[i] = -1 <=> full.seq[i] = {}
          /\ full.used = {i \in Cells : full.pos[i] # -1}
      <3>1. \A i \in R : full.pos[i] # -1 /\ full.seq[i] # {} /\ i \in full.used
        BY <2>2, <1>0, <1>7, <1>8
      <3>2. \A i \in Cells \ R : full.pos[i] = bare.pos[i] /\ full.seq[i] = bare.seq[i]
        BY <1>7, <1>9
      <3>3. \A i \in Cells \ R : bare.pos[i] = -1 <=> bare.seq[i] = {}
        BY <1>3 DEF Agree
      <3>4. \A i \in Cells \ R : i \in full.used <=> bare.pos[i] # -1
        BY <1>3, <1>7 DEF Agree
      <3>5. full.used \subseteq Cells
        BY <1>7 DEF CellRecs
      <3> QED BY <3>1, <3>2, <3>3, <3>4, <3>5
    <2>4. \A i \in Cells : full.pos[i] = -1 \/ ~full.has_shift => full.shift[i] = 0
      BY <1>3, <1>4, <1>7, <1>9 DEF Agree
    <2> QED BY <2>1, <2>3, <2>4, <1>7 DEF Agree
  <1>11. Removed(full, a, [i \in Cells |-> Old(full, m, i)]) /\ Agree(a)
    <2>1. Removed(full, a, [i \in Cells |-> Old(full, m, i)])
      BY <1>10, RmUptoRemoves
    <2> HIDE DEF a
    <2> QED BY <1>10, <2>1, RemovedAgrees
  <1> HIDE DEF a
  <1>12. /\ a.has_shift = full.has_shift
         /\ \A i \in Cells :
               /\ a.seq[i] \subseteq full.seq[i]
               /\ a.pos[i] = -1 <=> a.seq[i] = {}
               /\ a.pos[i] # -1 => a.pos[i] = full.pos[i] /\ a.shift[i] = full.shift[i]
               /\ full.shift[i] = 0 => a.shift[i] = 0
    BY <1>11 DEF Removed, Agree
  <1>13. \A i \in R : /\ a.shift[i] = 0
                      /\ a.pos[i] = -1 \/ (a.seq[i] = {s} /\ a.pos[i] >= p)
    <2> SUFFICES ASSUME NEW i \in R
                 PROVE  /\ a.shift[i] = 0
                        /\ a.pos[i] = -1 \/ (a.seq[i] = {s} /\ a.pos[i] >= p)
      OBVIOUS
    <2>1. i \in Cells /\ full.seq[i] = {s} /\ full.shift[i] = 0
      BY <1>0, <1>4, <1>7
    <2>2. full.pos[i] >= p
      BY <1>8
    <2> QED BY <2>1, <2>2, <1>12
  <1>14. \A i \in Cells \ R :
            /\ a.pos[i] # -1 => a.pos[i] = c.pos[i] /\ a.shift[i] = c.shift[i]
            /\ c.shift[i] = 0 => a.shift[i] = 0
    BY <1>4, <1>7, <1>9, <1>12
  <1>15. Applied(c, a, R, s, p)
    BY <1>4, <1>7, <1>11, <1>12, <1>13, <1>14 DEF Applied
  <1>16. \A i \in Cells : a.seq[i] = {t \in full.seq[i] : ~(full.pos[i] <= m[t])}
    BY <1>11 DEF Removed, Old
  <1>17. \A t \in Seqs : m[t] = MaxRm(c, idxs, t)
    BY DEF m
  <1>18. ASSUME NEW i \in Cells \ R
         PROVE  a.seq[i] = {t \in c.seq[i] : ~(c.pos[i] <= MaxRm(c, idxs, t))}
    <2>1. c.seq[i] \subseteq Seqs /\ (c.pos[i] = -1 <=> c.seq[i] = {})
      BY DEF Agree, CellRecs
    <2>2. bare.seq[i] = c.seq[i]
      BY <1>0, <1>3 DEF Removed
    <2>3. full.seq[i] = c.seq[i] /\ full.pos[i] = bare.pos[i]
      BY <2>2, <1>7, <1>9
    <2>4. c.seq[i] # {} => bare.pos[i] = c.pos[i]
      BY <2>2, <1>3, <1>4 DEF Agree
    <2> QED BY <2>1, <2>3, <2>4, <1>16, <1>17
  <1>19. ASSUME IsInjective(idxs), NEW k \in 1 .. n
         PROVE  /\ a.seq[idxs[k]] = IF p + k - 1 <= MaxRm(c, idxs, s) THEN {} ELSE {s}
                /\ a.seq[idxs[k]] # {} => a.pos[idxs[k]] = p + k - 1
    <2>1. idxs[k] \in R /\ idxs[k] \in Cells
      BY <1>0 DEF R, Range
    <2>2. At(idxs[k]) = k
      BY <1>19 DEF At, IsInjective
    <2>3. full.pos[idxs[k]] = p + k - 1
      BY <2>1, <2>2, <1>7 DEF P
    <2>4. full.seq[idxs[k]] = {s}
      BY <2>1, <1>4, <1>7
    <2>5. a.seq[idxs[k]] = {t \in {s} : ~(p + k - 1 <= m[t])}
      BY <2>1, <2>3, <2>4, <1>16
    <2>6. a.seq[idxs[k]] # {} => a.pos[idxs[k]] = p + k - 1
      BY <2>1, <2>3, <1>12
    <2> QED BY <2>5, <2>6, <1>17
  <1>20. Tokens(c, a, idxs, n, s, p)
    BY <1>18, <1>19 DEF Tokens, R
  <1> QED BY <1>2, <1>15, <1>20 DEF R

(* set() puts cells back that have no shift.                               *)
LEMMA RestoreAgrees ==
    ASSUME NEW c, Agree(c), NEW old, Agree(old),
           NEW idxs, Range(idxs) \subseteq Cells,
           \A i \in Range(idxs) : c.shift[i] = 0
    PROVE  LET r == Restore(c, idxs, old)
           IN  /\ Agree(r)
               /\ r.has_shift = c.has_shift /\ r.shift = c.shift
               /\ \A i \in Cells :
                    /\ r.pos[i] = IF i \in Range(idxs) THEN old.pos[i] ELSE c.pos[i]
                    /\ r.seq[i] = IF i \in Range(idxs) THEN old.seq[i] ELSE c.seq[i]
  <1> DEFINE R == Range(idxs)
             q1 == Recount(c, R, c.seq, -1)
             gone == [c EXCEPT !.seq_pos = q1]
             P == [i \in Cells |-> IF i \in R THEN old.pos[i] ELSE c.pos[i]]
             S == [i \in Cells |-> IF i \in R THEN old.seq[i] ELSE c.seq[i]]
             V == {i \in Cells : IF i \in R THEN old.pos[i] # -1 ELSE i \in c.used}
             back == [gone EXCEPT !.pos = P, !.seq = S, !.used = V]
             q2 == Recount(back, R, old.seq, 1)
             r == [back EXCEPT !.seq_pos = q2]
  <1>0. /\ c \in CellRecs /\ c.pos \in [Cells -> Int] /\ c.seq \in [Cells -> SUBSET Seqs]
        /\ old \in CellRecs /\ old.pos \in [Cells -> Int]
        /\ old.seq \in [Cells -> SUBSET Seqs]
        /\ R \subseteq Cells
    BY DEF Agree, CellRecs
  <1> HIDE DEF R
  <1>1. /\ q1 \in [Seqs -> [Positions -> Int]]
        /\ \A u \in Seqs, p \in Positions :
              q1[u][p] = c.seq_pos[u][p] - Cardinality(Touched(c, R, c.seq, u, p))
    BY <1>0, Recounted
  <1>2. /\ gone \in CellRecs /\ gone.seq_pos = q1
        /\ gone.pos = c.pos /\ gone.seq = c.seq /\ gone.shift = c.shift
        /\ gone.used = c.used /\ gone.has_shift = c.has_shift
    <2> HIDE DEF q1
    <2> QED BY <1>0, <1>1, WithCounts
  <1>3. /\ back \in CellRecs /\ back.seq_pos = q1
        /\ back.pos = P /\ back.seq = S /\ back.shift = c.shift
        /\ back.used = V /\ back.has_shift = c.has_shift
    <2>1. P \in [Cells -> Int] /\ S \in [Cells -> SUBSET Seqs]
      BY <1>0
    <2>2. V \in SUBSET Cells
      OBVIOUS
    <2> HIDE DEF gone, P, S, V, q1
    <2> QED BY <1>2, <2>1, <2>2 DEF CellRecs
  <1>4. Restore(c, idxs, old) = r
    <2>1. /\ [i \in Cells |-> IF i \in R THEN old.pos[i] ELSE gone.pos[i]] = P
          /\ [i \in Cells |-> IF i \in R THEN old.seq[i] ELSE gone.seq[i]] = S
          /\ {i \in Cells : IF i \in R THEN old.pos[i] # -1 ELSE i \in gone.used} = V
      <3> HIDE DEF gone
      <3> QED BY <1>2
    <2>2. back = [gone EXCEPT
                   !.pos  = [i \in Cells |-> IF i \in R THEN old.pos[i] ELSE @[i]],
                   !.seq  = [i \in Cells |-> IF i \in R THEN old.seq[i] ELSE @[i]],
                   !.used = {i \in Cells : IF i \in R THEN old.pos[i] # -1 ELSE i \in @}]
      <3> HIDE DEF P, S, V, gone
      <3> QED BY <2>1
    <2> HIDE DEF back
    <2> QED BY <2>2 DEF Restore, R
  <1> HIDE DEF gone, q1, back
  <1>5. /\ q2 \in [Seqs -> [Positions -> Int]]
        /\ \A u \in Seqs, p \in Positions :
              q2[u][p] = back.seq_pos[u][p] + Cardinality(Touched(back, R, old.seq, u, p))
    <2>1. back \in CellRecs
      BY <1>3
    <2>2. R \subseteq Cells
      BY <1>0
    <2> HIDE DEF P, S, V
    <2> QED BY <2>1, <2>2, Recounted
  <1>6. /\ r \in CellRecs /\ r.seq_pos = q2
        /\ r.pos = P /\ r.seq = S /\ r.shift = c.shift
        /\ r.used = V /\ r.has_shift = c.has_shift
    <2> HIDE DEF q2, P, S, V
    <2> QED BY <1>3, <1>5, WithCounts
  <1> HIDE DEF r, q2
  <1>7. Counted(r)
    <2> SUFFICES ASSUME NEW u \in Seqs, NEW p \in Positions
                 PROVE  r.seq_pos[u][p] = Cardinality(CellsAt(r, u, p))
      BY DEF Counted
    <2> DEFINE A == CellsAt(c, u, p)
               B == Touched(c, R, c.seq, u, p)
               C == Touched(back, R, old.seq, u, p)
    <2>1. r.seq_pos[u][p] = Cardinality(A) - Cardinality(B) + Cardinality(C)
      <3> HIDE DEF P, S, V
      <3> QED BY <1>1, <1>3, <1>5, <1>6 DEF Counted, Agree
    <2>2. A \subseteq Cells /\ B \subseteq A /\ C \subseteq Cells /\ (A \ B) \cap C = {}
      BY <1>0 DEF CellsAt, Touched
    <2>3. CellsAt(r, u, p) = (A \ B) \cup C
      <3>1. C = {i \in R : u \in old.seq[i] /\ old.pos[i] = p}
        BY <1>0, <1>3 DEF Touched
      <3>2. A \ B = {i \in Cells \ R : u \in c.seq[i] /\ c.pos[i] = p}
        BY DEF CellsAt, Touched
      <3>3. \A i \in Cells : /\ r.pos[i] = IF i \in R THEN old.pos[i] ELSE c.pos[i]
                             /\ r.seq[i] = IF i \in R THEN old.seq[i] ELSE c.seq[i]
        BY <1>6
      <3> HIDE DEF A, B, C, P, S, V
      <3> QED BY <3>1, <3>2, <3>3, <1>0 DEF CellsAt
    <2> HIDE DEF A, B, C
    <2>4. Cardinality(A \ B) = Cardinality(A) - Cardinality(B)
      BY <2>2, CountLess
    <2>5. Cardinality((A \ B) \cup C) = Cardinality(A \ B) + Cardinality(C)
      BY <2>2, CountMore
    <2> QED BY <2>1, <2>3, <2>4, <2>5
  <1>8. \A i \in Cells : /\ r.pos[i] = IF i \in R THEN old.pos[i] ELSE c.pos[i]
                         /\ r.seq[i] = IF i \in R THEN old.seq[i] ELSE c.seq[i]
                         /\ i \in r.used <=> r.pos[i] # -1
    BY <1>6 DEF Agree
  <1> HIDE DEF P, S, V
  <1>9. r.used = {i \in Cells : r.pos[i] # -1}
    <2>1. r.used \subseteq Cells
      BY <1>6 DEF CellRecs
    <2> QED BY <2>1, <1>8
  <1>10. /\ \A i \in Cells : r.pos[i] \in Positions \cup {-1}
         /\ \A i \in Cells : r.pos[i] = -1 <=> r.seq[i] = {}
    BY <1>8 DEF Agree
  <1>11. \A i \in Cells : r.pos[i] = -1 \/ ~r.has_shift => r.shift[i] = 0
    BY <1>6, <1>8 DEF Agree, R
  <1>12. Agree(r)
    BY <1>6, <1>7, <1>9, <1>10, <1>11 DEF Agree
  <1> QED BY <1>4, <1>6, <1>8, <1>12 DEF R

-----------------------------------------------------------------------------
(* Placing a batch and taking it back.                                     *)

(* A function that is defined by recursion, each value from the one        *)
(* before, exists when every step stays in the sets it should stay in.     *)
Recurs(ff, N, z, F) ==
    ff = [k \in 0 .. N |-> IF k = 0 THEN z ELSE F[k][ff[k - 1]]]

LEMMA RecursionExists ==
    ASSUME NEW N \in Nat, NEW X, NEW z, z \in X[0], NEW F,
           \A k \in 1 .. N : \A g \in X[k - 1] : F[k][g] \in X[k]
    PROVE  \E ff : /\ Recurs(ff, N, z, F)
                   /\ \A k \in 0 .. N : ff[k] \in X[k]
  <1> DEFINE Good(n, ff) ==
                 /\ ff = [k \in 0 .. n |-> IF k = 0 THEN z ELSE F[k][ff[k - 1]]]
                 /\ \A k \in 0 .. n : ff[k] \in X[k]
             S == {n \in 0 .. N : \E ff : Good(n, ff)}
  <1>1. 0 \in S
    <2>1. Good(0, [k \in 0 .. 0 |-> z])
      OBVIOUS
    <2> HIDE DEF Good
    <2> QED BY <2>1
  <1>2. ASSUME NEW n \in 1 .. N, n - 1 \in S PROVE n \in S
    <2>1. PICK ff : Good(n - 1, ff)
      BY <1>2
    <2> DEFINE gg == [k \in 0 .. n |-> IF k < n THEN ff[k] ELSE F[n][ff[n - 1]]]
    <2>2. /\ n - 1 \in 0 .. n - 1 /\ \A k \in 0 .. n : k < n => k \in 0 .. n - 1
          /\ \A k \in 0 .. n : k < n => k <= n - 1
      OBVIOUS
    <2>3. /\ ff[n - 1] \in X[n - 1]
          /\ \A k \in 0 .. n - 1 : ff[k] \in X[k]
          /\ \A k \in 0 .. n - 1 : ff[k] = IF k = 0 THEN z ELSE F[k][ff[k - 1]]
      BY <2>1, <2>2
    <2>4. \A k \in 0 .. n : gg[k] \in X[k]
      <3> SUFFICES ASSUME NEW k \in 0 .. n PROVE gg[k] \in X[k]
        OBVIOUS
      <3>1. CASE k < n
        BY <3>1, <2>2, <2>3
      <3>2. CASE k = n
        BY <3>2, <2>3
      <3> QED BY <3>1, <3>2
    <2>5. \A k \in 0 .. n : gg[k] = IF k = 0 THEN z ELSE F[k][gg[k - 1]]
      <3> SUFFICES ASSUME NEW k \in 0 .. n
                   PROVE  gg[k] = IF k = 0 THEN z ELSE F[k][gg[k - 1]]
        OBVIOUS
      <3>1. CASE k < n
        <4>1. gg[k] = ff[k] /\ (k # 0 => gg[k - 1] = ff[k - 1])
          BY <3>1
        <4> QED BY <4>1, <3>1, <2>2, <2>3
      <3>2. CASE k = n
        <4>1. gg[k] = F[n][ff[n - 1]] /\ gg[n - 1] = ff[n - 1]
          BY <3>2
        <4> QED BY <4>1, <3>2
      <3> QED BY <3>1, <3>2
    <2>6. gg = [k \in 0 .. n |-> IF k = 0 THEN z ELSE F[k][gg[k - 1]]]
      <3>1. gg = [k \in 0 .. n |-> gg[k]]
        OBVIOUS
      <3> HIDE DEF gg
      <3> QED BY <3>1, <2>5
    <2>7. Good(n, gg)
      <3> HIDE DEF gg
      <3> QED BY <2>4, <2>6
    <2> HIDE DEF Good
    <2> QED BY <2>7
  <1> HIDE DEF S
  <1>3. N \in S
    BY <1>1, <1>2, UptoInduction
  <1> QED BY <1>3 DEF S, Recurs

(* seq_pos_max() is a position, or -1.                                     *)
LEMMA SeqPosMaxType ==
    ASSUME NEW c, NEW s
    PROVE  SeqPosMax(c, s) \in Positions \cup {-1}
  <1>1. PosOf(c, s) \in SUBSET (0 .. MaxPos)
    BY DEF PosOf, Positions
  <1>2. CASE PosOf(c, s) = {}
    BY <1>2 DEF SeqPosMax
  <1>3. CASE PosOf(c, s) # {}
    <2>1. SetMax(PosOf(c, s)) \in PosOf(c, s)
      BY <1>1, <1>3, CacheAssumption, SetMaxIn
    <2> QED BY <1>1, <1>3, <2>1 DEF SeqPosMax, Positions
  <1> QED BY <1>2, <1>3

(* find_slot() finds as many cells as it was asked for, all different and  *)
(* usable; without a window they are empty.                                *)
LEMMA FindSlotCells ==
    ASSUME NEW c, Agree(c), NEW h \in 0 .. NCells, NEW n \in Nat \ {0},
           FindSlot(c, h, n) # <<>>
    PROVE  /\ FindSlot(c, h, n) \in [1 .. n -> Cells]
           /\ IsInjective(FindSlot(c, h, n))
           /\ \A k \in 1 .. n : CanUse(c, FindSlot(c, h, n)[k])
           /\ n_swa = 0 => \A k \in 1 .. n : c.pos[FindSlot(c, h, n)[k]] = -1
  <1> DEFINE start == IF h > Cardinality(c.used) + 2 * n THEN 0 ELSE h
             Rank(i) == (i - start + NCells) % NCells
             usable == {i \in Cells : CanUse(c, i)}
             Before(i) == {j \in usable : Rank(j) < Rank(i)}
             r == [i \in Cells |-> Rank(i)]
             Kth(k) == CHOOSE i \in usable : Cardinality(Before(i)) = k - 1
             idxs == [k \in 1 .. n |-> Kth(k)]
  <1>1. start \in 0 .. NCells
    BY CacheAssumption
  <1> HIDE DEF start
  <1>2. FindSlot(c, h, n) = idxs /\ ~(Cardinality(usable) < n)
    BY DEF FindSlot, start
  <1>3. \A i \in Cells : Rank(i) = IF i < start THEN i - start + NCells ELSE i - start
    <2> SUFFICES ASSUME NEW i \in Cells
                 PROVE Rank(i) = IF i < start THEN i - start + NCells ELSE i - start
      OBVIOUS
    <2>1. /\ i - start + NCells \in 0 .. 2 * NCells - 1 /\ NCells \in Nat \ {0}
          /\ i \in Int /\ start \in Int
      BY <1>1, CacheAssumption DEF Cells
    <2>2. Rank(i) = IF i - start + NCells < NCells THEN i - start + NCells
                    ELSE i - start + NCells - NCells
      <3> DEFINE x == i - start + NCells
      <3> HIDE DEF x
      <3>1. x \in 0 .. 2 * NCells - 1 /\ Rank(i) = x % NCells
        BY <2>1 DEF x
      <3> HIDE DEF Rank
      <3>2. Rank(i) = IF x < NCells THEN x ELSE x - NCells
        <4>1. x % NCells = IF x < NCells THEN x ELSE x - NCells
          BY <3>1, CacheAssumption, Wrap
        <4> QED BY <3>1, <4>1
      <3> QED BY <2>1, <3>2 DEF x
    <2> HIDE DEF Rank
    <2> QED BY <2>1, <2>2
  <1> HIDE DEF Rank
  <1>4. /\ r \in [Cells -> Int]
        /\ \A i, j \in Cells : r[i] = r[j] => i = j
    BY <1>1, <1>3, CacheAssumption DEF Cells
  <1>5. usable \subseteq Cells /\ Cardinality(usable) \in Nat
    BY CellsFinite
  <1>6. \A k \in 1 .. n : idxs[k] \in usable /\ Cardinality(Before(idxs[k])) = k - 1
    <2> SUFFICES ASSUME NEW k \in 1 .. n
                 PROVE  idxs[k] \in usable /\ Cardinality(Before(idxs[k])) = k - 1
      OBVIOUS
    <2>1. k \in 1 .. Cardinality(usable)
      BY <1>2, <1>5
    <2> HIDE DEF usable
    <2>2. \E i \in usable : Cardinality(Below(usable, r, i)) = k - 1
      <3> HIDE DEF r
      <3> QED BY <2>1, <1>4, <1>5, KthExists
    <2>3. \A i \in usable : Below(usable, r, i) = Before(i)
      BY <1>5 DEF Below
    <2>4. \E i \in usable : Cardinality(Before(i)) = k - 1
      <3> HIDE DEF Before, r
      <3> QED BY <2>2, <2>3
    <2> HIDE DEF Before
    <2> QED BY <2>4
  <1>7. n_swa = 0 => \A i \in usable : c.pos[i] = -1
    BY DEF CanUse, IsMaskedSwa
  <1>8. idxs \in [1 .. n -> Cells]
    <2> HIDE DEF Kth
    <2> QED BY <1>5, <1>6
  <1>9. \A i \in usable : CanUse(c, i)
    OBVIOUS
  <1> HIDE DEF idxs, usable
  <1>10. IsInjective(idxs)
    <2> SUFFICES ASSUME NEW k \in 1 .. n, NEW l \in 1 .. n, idxs[k] = idxs[l]
                 PROVE  k = l
      BY <1>8 DEF IsInjective
    <2> HIDE DEF Before
    <2>1. k - 1 = l - 1
      BY <1>6
    <2> QED BY <2>1
  <1> QED BY <1>2, <1>6, <1>7, <1>8, <1>9, <1>10

(* A slot has a cell of its own for each token, and their positions exist. *)
SlotRecs == {u \in [idxs : Seq(Cells), p : Nat] :
                /\ u.idxs # <<>> /\ IsInjective(u.idxs)
                /\ u.p + Len(u.idxs) - 1 <= MaxPos}

(* What prepare() has between two micro-batches, when the cells were c:    *)
(* cells that agree, whose slots carry no shift and, without a window,     *)
(* were empty, and the other cells as they were.                           *)
Placements(c) ==
    {g \in [c : CellRecs, h : 0 .. NCells, ok : BOOLEAN,
            slots : Seq(SlotRecs), old : Seq(CellRecs)] :
        /\ Agree(g.c) /\ g.c.has_shift = c.has_shift
        /\ Len(g.old) = Len(g.slots)
        /\ \A j \in 1 .. Len(g.slots) :
              /\ Agree(g.old[j])
              /\ \A i \in Range(g.slots[j].idxs) :
                    g.c.shift[i] = 0 /\ (n_swa = 0 => g.old[j].pos[i] = -1)
        /\ \A i \in Cells :
              \/ g.c.pos[i] # -1 => g.c.pos[i] = c.pos[i] /\ g.c.shift[i] = c.shift[i]
              \/ \E j \in 1 .. Len(g.slots) : i \in Range(g.slots[j].idxs)}

(* The batches that decode() can be in the middle of.                      *)
Batches == {b \in [s : Seqs, n : Nat \ {0}, p : Nat, did_optimize : BOOLEAN] :
              b.p + b.n - 1 <= MaxPos}

(* The micro-batches of a batch have tokens, and no more than the batch.   *)
LEMMA Parts ==
    ASSUME NEW n \in Nat \ {0}, NEW k \in 1 .. NParts(n)
    PROVE  /\ PartLen(n, k) \in Nat \ {0}
           /\ (k - 1) * NUbatch \in Nat
           /\ (k - 1) * NUbatch + PartLen(n, k) <= n
  <1> DEFINE U == NUbatch
  <1>1. U \in Nat \ {0} /\ k \in Nat \ {0} /\ k <= (n + U - 1) \div U
    BY CacheAssumption DEF NParts
  <1> HIDE DEF U
  <1>2. (k - 1) * U \in Nat /\ (k - 1) * U < n /\ (k - 1) * U + U = k * U
    BY <1>1
  <1>3. PartLen(n, k) = IF k * U <= n THEN U ELSE n - (k - 1) * U
    BY DEF PartLen, U
  <1>4. k * U \in Int
    BY <1>1
  <1> QED BY <1>1, <1>2, <1>3, <1>4 DEF U

(* One micro-batch.                                                        *)
PlaceStep(b, g, k) ==
    LET idxs == FindSlot(g.c, g.h, PartLen(b.n, k))
        p == b.p + (k - 1) * NUbatch
    IN  IF ~g.ok \/ idxs = <<>> THEN [g EXCEPT !.ok = FALSE]
        ELSE [c |-> Apply(g.c, idxs, b.s, p),
              h |-> idxs[Len(idxs)] + 1,
              ok |-> TRUE,
              slots |-> Append(g.slots, [idxs |-> idxs, p |-> p]),
              old |-> Append(g.old, g.c)]

(* A micro-batch more leaves a state that prepare() can be in.             *)
LEMMA PlaceStepKeeps ==
    ASSUME NEW c, NEW b \in Batches, NEW k \in 1 .. NParts(b.n),
           NEW g \in Placements(c)
    PROVE  PlaceStep(b, g, k) \in Placements(c)
  <1> DEFINE n == PartLen(b.n, k)
             idxs == FindSlot(g.c, g.h, n)
             p == b.p + (k - 1) * NUbatch
             a == Apply(g.c, idxs, b.s, p)
             u == [idxs |-> idxs, p |-> p]
             e == [c |-> a, h |-> idxs[Len(idxs)] + 1, ok |-> TRUE,
                   slots |-> Append(g.slots, u), old |-> Append(g.old, g.c)]
  <1>0. /\ g \in [c : CellRecs, h : 0 .. NCells, ok : BOOLEAN,
                  slots : Seq(SlotRecs), old : Seq(CellRecs)]
        /\ Agree(g.c) /\ g.c.has_shift = c.has_shift
        /\ Len(g.old) = Len(g.slots)
    BY DEF Placements
  <1>1. b.n \in Nat \ {0} /\ b.s \in Seqs /\ b.p \in Nat /\ b.p + b.n - 1 <= MaxPos
    BY DEF Batches
  <1>2. n \in Nat \ {0} /\ p \in Nat /\ p + n - 1 <= MaxPos
    <2>1. /\ n \in Nat \ {0} /\ (k - 1) * NUbatch \in Nat
          /\ (k - 1) * NUbatch + n <= b.n
      BY <1>1, Parts
    <2> QED BY <1>1, <2>1, CacheAssumption
  <1> HIDE DEF n, p
  <1>3. CASE ~g.ok \/ idxs = <<>>
    <2>1. PlaceStep(b, g, k) = [g EXCEPT !.ok = FALSE]
      BY <1>3 DEF PlaceStep, n
    <2> DEFINE f == [g EXCEPT !.ok = FALSE]
    <2>2. /\ f \in [c : CellRecs, h : 0 .. NCells, ok : BOOLEAN,
                    slots : Seq(SlotRecs), old : Seq(CellRecs)]
          /\ f.c = g.c /\ f.slots = g.slots /\ f.old = g.old
      BY <1>0
    <2> HIDE DEF f
    <2>3. f \in Placements(c)
      BY <2>2 DEF Placements
    <2> QED BY <2>1, <2>3 DEF f
  <1>4. CASE g.ok /\ idxs # <<>>
    <2>1. PlaceStep(b, g, k) = e
      BY <1>4 DEF PlaceStep, n, p
    <2>2. /\ idxs \in [1 .. n -> Cells] /\ IsInjective(idxs)
          /\ n_swa = 0 => \A j \in 1 .. n : g.c.pos[idxs[j]] = -1
      <3>1. g.h \in 0 .. NCells
        BY <1>0
      <3> QED BY <3>1, <1>0, <1>2, <1>4, FindSlotCells
    <2> HIDE DEF idxs
    <2>3. Applied(g.c, a, Range(idxs), b.s, p)
      BY <1>0, <1>1, <1>2, <2>2, ApplyAgrees
    <2> HIDE DEF a
    <2>4. idxs \in Seq(Cells) /\ Len(idxs) = n /\ idxs # <<>>
      BY <1>2, <1>4, <2>2
    <2>5. idxs[Len(idxs)] + 1 \in 0 .. NCells
      <3>1. idxs[n] \in Cells
        BY <1>2, <2>2
      <3> QED BY <3>1, <2>4, CacheAssumption DEF Cells
    <2>6. u \in SlotRecs /\ u.idxs = idxs
      BY <1>2, <2>2, <2>4 DEF SlotRecs
    <2> HIDE DEF u
    <2>7. /\ g.slots \in Seq(SlotRecs) /\ g.old \in Seq(CellRecs)
          /\ g.c \in CellRecs
      BY <1>0
    <2>8. /\ Append(g.slots, u) \in Seq(SlotRecs)
          /\ Len(Append(g.slots, u)) = Len(g.slots) + 1
          /\ Append(g.slots, u)[Len(g.slots) + 1] = u
          /\ \A j \in 1 .. Len(g.slots) : Append(g.slots, u)[j] = g.slots[j]
      BY <2>6, <2>7, AppendProperties
    <2>9. /\ Append(g.old, g.c) \in Seq(CellRecs)
          /\ Len(Append(g.old, g.c)) = Len(g.slots) + 1
          /\ Append(g.old, g.c)[Len(g.slots) + 1] = g.c
          /\ \A j \in 1 .. Len(g.slots) : Append(g.old, g.c)[j] = g.old[j]
      BY <2>7, <1>0, AppendProperties
    <2> DEFINE S == Append(g.slots, u)
               O == Append(g.old, g.c)
               L == Len(g.slots)
    <2>10. L \in Nat
      BY <2>7, LenProperties
    <2> HIDE DEF S, O, L
    <2>11. /\ e \in [c : CellRecs, h : 0 .. NCells, ok : BOOLEAN,
                     slots : Seq(SlotRecs), old : Seq(CellRecs)]
           /\ e.c = a /\ e.slots = S /\ e.old = O
      <3>1. a \in CellRecs
        BY <2>3 DEF Applied, Agree
      <3> QED BY <3>1, <2>5, <2>8, <2>9 DEF S, O
    <2> HIDE DEF e
    <2>12. Agree(a) /\ a.has_shift = c.has_shift
      BY <2>3, <1>0 DEF Applied
    <2>13. \A j \in 1 .. L + 1 :
              /\ Agree(O[j])
              /\ \A i \in Range(S[j].idxs) :
                    a.shift[i] = 0 /\ (n_swa = 0 => O[j].pos[i] = -1)
      <3> SUFFICES ASSUME NEW j \in 1 .. L + 1
                   PROVE  /\ Agree(O[j])
                          /\ \A i \in Range(S[j].idxs) :
                                a.shift[i] = 0 /\ (n_swa = 0 => O[j].pos[i] = -1)
        OBVIOUS
      <3>1. CASE j = L + 1
        <4>1. S[j] = u /\ O[j] = g.c
          BY <3>1, <2>8, <2>9 DEF S, O, L
        <4>2. \A i \in Range(idxs) : n_swa = 0 => g.c.pos[i] = -1
          BY <2>2 DEF Range
        <4> QED BY <4>1, <4>2, <2>3, <2>6, <1>0 DEF Applied
      <3>2. CASE j # L + 1
        <4>1. j \in 1 .. L
          BY <3>2, <2>10
        <4>2. S[j] = g.slots[j] /\ O[j] = g.old[j]
          BY <4>1, <2>8, <2>9 DEF S, O, L
        <4>3. /\ Agree(g.old[j])
              /\ \A i \in Range(g.slots[j].idxs) :
                    g.c.shift[i] = 0 /\ (n_swa = 0 => g.old[j].pos[i] = -1)
          BY <4>1 DEF Placements, L
        <4>4. Range(g.slots[j].idxs) \subseteq Cells
          <5>1. g.slots[j] \in SlotRecs
            BY <4>1, <2>7 DEF L
          <5>2. g.slots[j].idxs \in Seq(Cells)
            BY <5>1 DEF SlotRecs
          <5> QED BY <5>2 DEF Range
        <4>5. \A i \in Range(g.slots[j].idxs) : a.shift[i] = 0
          BY <4>3, <4>4, <2>3 DEF Applied
        <4> QED BY <4>2, <4>3, <4>5
      <3> QED BY <3>1, <3>2
    <2>14. \A i \in Cells :
              \/ a.pos[i] # -1 => a.pos[i] = c.pos[i] /\ a.shift[i] = c.shift[i]
              \/ \E j \in 1 .. L + 1 : i \in Range(S[j].idxs)
      <3> SUFFICES ASSUME NEW i \in Cells
                   PROVE
                     \/ a.pos[i] # -1 => a.pos[i] = c.pos[i] /\ a.shift[i] = c.shift[i]
                     \/ \E j \in 1 .. L + 1 : i \in Range(S[j].idxs)
        OBVIOUS
      <3>1. CASE i \in Range(idxs)
        <4>1. S[L + 1].idxs = idxs /\ L + 1 \in 1 .. L + 1
          BY <2>6, <2>8, <2>10 DEF S, L
        <4> QED BY <4>1, <3>1
      <3>2. CASE i \notin Range(idxs)
        <4>1. a.pos[i] # -1 => a.pos[i] = g.c.pos[i] /\ a.shift[i] = g.c.shift[i]
          BY <3>2, <2>3 DEF Applied
        <4>2. CASE g.c.pos[i] # -1 => g.c.pos[i] = c.pos[i] /\ g.c.shift[i] = c.shift[i]
          BY <4>1, <4>2
        <4>3. CASE \E j \in 1 .. L : i \in Range(g.slots[j].idxs)
          <5>1. PICK j \in 1 .. L : i \in Range(g.slots[j].idxs)
            BY <4>3
          <5>2. S[j] = g.slots[j] /\ j \in 1 .. L + 1
            BY <5>1, <2>8, <2>10 DEF S, L
          <5> QED BY <5>1, <5>2
        <4> QED BY <4>2, <4>3 DEF Placements, L
      <3> QED BY <3>1, <3>2
    <2>15. Len(S) = L + 1 /\ Len(O) = L + 1
      BY <2>8, <2>9 DEF S, O, L
    <2>16. e \in Placements(c)
      BY <2>11, <2>12, <2>13, <2>14, <2>15 DEF Placements
    <2> QED BY <2>1, <2>16
  <1> QED BY <1>3, <1>4

(* The recursion of Placed, step by step.                                  *)
LEMMA PlacedUnfolds ==
    ASSUME NEW c, Agree(c), NEW h \in 0 .. NCells, NEW b \in Batches
    PROVE  \E f : /\ Placed(c, h, b) = f[NParts(b.n)]
                  /\ f[0] = [c |-> c, h |-> h, ok |-> TRUE, slots |-> <<>>, old |-> <<>>]
                  /\ \A k \in 1 .. NParts(b.n) : f[k] = PlaceStep(b, f[k - 1], k)
                  /\ \A k \in 0 .. NParts(b.n) : f[k] \in Placements(c)
  <1> DEFINE z == [c |-> c, h |-> h, ok |-> TRUE, slots |-> <<>>, old |-> <<>>]
             N == NParts(b.n)
             ff == CHOOSE f : f = [k \in 0 .. N |->
                                      IF k = 0 THEN z ELSE PlaceStep(b, f[k - 1], k)]
  <1>1. Placed(c, h, b) = ff[N]
    BY DEF Placed, PlaceStep
  <1>2. N \in Nat
    <2>1. b.n \in Nat
      BY DEF Batches
    <2> QED BY <2>1, CacheAssumption DEF NParts
  <1>3. z \in Placements(c)
    <2>1. /\ z \in [c : CellRecs, h : 0 .. NCells, ok : BOOLEAN,
                    slots : Seq(SlotRecs), old : Seq(CellRecs)]
          /\ z.c = c /\ z.slots = <<>> /\ z.old = <<>>
      BY DEF Agree
    <2> HIDE DEF z
    <2> QED BY <2>1 DEF Placements
  <1> HIDE DEF z
  <1>4. \A k \in 1 .. N : \A g \in Placements(c) : PlaceStep(b, g, k) \in Placements(c)
    BY PlaceStepKeeps
  <1> HIDE DEF N
  <1> DEFINE X == [k \in 0 .. N |-> Placements(c)]
             F == [k \in 1 .. N |-> [g \in Placements(c) |-> PlaceStep(b, g, k)]]
  <1>5. PICK f : /\ Recurs(f, N, z, F)
                 /\ \A k \in 0 .. N : f[k] \in X[k]
    <2>1. z \in X[0]
      BY <1>2, <1>3
    <2>2. \A k \in 1 .. N : \A g \in X[k - 1] : F[k][g] \in X[k]
      BY <1>2, <1>4
    <2> HIDE DEF X, F
    <2> QED BY <1>2, <2>1, <2>2, RecursionExists
  <1>6. f = [k \in 0 .. N |-> IF k = 0 THEN z ELSE PlaceStep(b, f[k - 1], k)]
    <2>1. \A k \in 1 .. N : k - 1 \in 0 .. N
      BY <1>2
    <2>2. \A k \in 1 .. N : f[k - 1] \in Placements(c)
      BY <1>5, <2>1
    <2>3. \A k \in 1 .. N : F[k][f[k - 1]] = PlaceStep(b, f[k - 1], k)
      BY <2>2
    <2>4. f = [k \in 0 .. N |-> IF k = 0 THEN z ELSE F[k][f[k - 1]]]
      BY <1>5 DEF Recurs
    <2> HIDE DEF F, X
    <2> QED BY <1>2, <2>3, <2>4
  <1>7. ff = [k \in 0 .. N |-> IF k = 0 THEN z ELSE PlaceStep(b, ff[k - 1], k)]
    <2> HIDE DEF F, X
    <2> QED BY <1>6
  <1> HIDE DEF ff
  <1> DEFINE S == {k \in 0 .. N : ff[k] \in Placements(c)}
  <1>8. 0 \in S
    BY <1>2, <1>3, <1>7
  <1>9. \A k \in 1 .. N : k - 1 \in S => k \in S
    BY <1>2, <1>4, <1>7
  <1> HIDE DEF S
  <1>10. \A k \in 0 .. N : k \in S
    BY <1>2, <1>8, <1>9, UptoInduction
  <1>11. ff[0] = z /\ \A k \in 1 .. N : ff[k] = PlaceStep(b, ff[k - 1], k)
    BY <1>2, <1>7
  <1>12. \A k \in 0 .. N : ff[k] \in Placements(c)
    BY <1>10 DEF S
  <1> QED BY <1>1, <1>11, <1>12 DEF z, N

(* So does placing all of them.                                            *)
LEMMA PlacedKeeps ==
    ASSUME NEW c, Agree(c), NEW h \in 0 .. NCells, NEW b \in Batches
    PROVE  Placed(c, h, b) \in Placements(c)
  <1>1. NParts(b.n) \in 0 .. NParts(b.n)
    <2>1. b.n \in Nat
      BY DEF Batches
    <2> QED BY <2>1, CacheAssumption DEF NParts
  <1>2. PICK f : /\ Placed(c, h, b) = f[NParts(b.n)]
                 /\ \A k \in 0 .. NParts(b.n) : f[k] \in Placements(c)
    BY PlacedUnfolds
  <1> QED BY <1>1, <1>2

(* What is left of cells c after prepare(): without a window, every token  *)
(* that is there is where it was.                                          *)
Kept(c, r) ==
    /\ Agree(r) /\ r.has_shift = c.has_shift
    /\ n_swa = 0 => \A i \in Cells : r.pos[i] # -1 =>
                        r.pos[i] = c.pos[i] /\ r.shift[i] = c.shift[i]

(* What is left after all slots beyond the first n are taken back.         *)
PartlyBack(c, g, n) ==
    {r \in CellRecs :
        /\ Agree(r) /\ r.has_shift = c.has_shift
        /\ \A j \in 1 .. Len(g.slots) : \A i \in Range(g.slots[j].idxs) : r.shift[i] = 0
        /\ n_swa = 0 => \A i \in Cells :
              \/ r.pos[i] # -1 => r.pos[i] = c.pos[i] /\ r.shift[i] = c.shift[i]
              \/ \E j \in 1 .. n : i \in Range(g.slots[j].idxs)}

BackStep(g, r, k) ==
    LET j == Len(g.slots) - k + 1
    IN  Restore(r, g.slots[j].idxs, g.old[j])

(* A slot less, taken back.                                                *)
LEMMA BackStepKeeps ==
    ASSUME NEW c, NEW g \in Placements(c), NEW k \in 1 .. Len(g.slots),
           NEW r \in PartlyBack(c, g, Len(g.slots) - (k - 1))
    PROVE  BackStep(g, r, k) \in PartlyBack(c, g, Len(g.slots) - k)
  <1> DEFINE L == Len(g.slots)
             j == L - k + 1
             R == Range(g.slots[j].idxs)
             e == Restore(r, g.slots[j].idxs, g.old[j])
  <1>1. L \in Nat /\ g.slots \in Seq(SlotRecs)
    BY LenProperties DEF Placements
  <1>2. j \in 1 .. L /\ L - (k - 1) = j /\ L - k = j - 1
    BY <1>1
  <1>3. R \subseteq Cells
    <2>1. g.slots[j] \in SlotRecs
      BY <1>1, <1>2
    <2>2. g.slots[j].idxs \in Seq(Cells)
      BY <2>1 DEF SlotRecs
    <2> QED BY <2>2 DEF Range
  <1>4. /\ Agree(g.old[j])
        /\ \A i \in R : n_swa = 0 => g.old[j].pos[i] = -1
    BY <1>2 DEF Placements
  <1>5. /\ Agree(r) /\ r.has_shift = c.has_shift
        /\ \A m \in 1 .. L : \A i \in Range(g.slots[m].idxs) : r.shift[i] = 0
        /\ n_swa = 0 => \A i \in Cells :
              \/ r.pos[i] # -1 => r.pos[i] = c.pos[i] /\ r.shift[i] = c.shift[i]
              \/ \E m \in 1 .. j : i \in Range(g.slots[m].idxs)
    BY <1>2 DEF PartlyBack
  <1>6. BackStep(g, r, k) = e
    BY DEF BackStep
  <1> HIDE DEF j, L
  <1>7. /\ Agree(e) /\ e.has_shift = r.has_shift /\ e.shift = r.shift
        /\ \A i \in Cells : e.pos[i] = IF i \in R THEN g.old[j].pos[i] ELSE r.pos[i]
    <2>1. \A i \in R : r.shift[i] = 0
      BY <1>2, <1>5
    <2> QED BY <2>1, <1>3, <1>4, <1>5, RestoreAgrees
  <1> HIDE DEF e
  <1>8. ASSUME n_swa = 0, NEW i \in Cells
        PROVE  \/ e.pos[i] # -1 => e.pos[i] = c.pos[i] /\ e.shift[i] = c.shift[i]
               \/ \E m \in 1 .. j - 1 : i \in Range(g.slots[m].idxs)
    <2>1. CASE i \in R
      BY <2>1, <1>4, <1>7, <1>8
    <2>2. CASE i \notin R
      <3>1. e.pos[i] = r.pos[i] /\ e.shift[i] = r.shift[i]
        BY <2>2, <1>7
      <3>2. CASE r.pos[i] # -1 => r.pos[i] = c.pos[i] /\ r.shift[i] = c.shift[i]
        BY <3>1, <3>2
      <3>3. CASE \E m \in 1 .. j : i \in Range(g.slots[m].idxs)
        <4>1. PICK m \in 1 .. j : i \in Range(g.slots[m].idxs)
          BY <3>3
        <4>2. m # j
          BY <4>1, <2>2
        <4>3. m \in 1 .. j - 1
          BY <4>2, <1>1, <1>2
        <4> QED BY <4>1, <4>3
      <3> QED BY <3>2, <3>3, <1>5, <1>8
    <2> QED BY <2>1, <2>2
  <1>9. e \in PartlyBack(c, g, j - 1)
    <2>1. e \in CellRecs
      BY <1>7 DEF Agree
    <2>2. \A m \in 1 .. Len(g.slots) : \A i \in Range(g.slots[m].idxs) : e.shift[i] = 0
      BY <1>5, <1>7 DEF L
    <2> HIDE DEF R
    <2> QED BY <2>1, <2>2, <1>5, <1>7, <1>8 DEF PartlyBack
  <1> QED BY <1>2, <1>6, <1>9 DEF L

(* The recursion of TakenBack, step by step.                               *)
LEMMA TakenBackUnfolds ==
    ASSUME NEW c, NEW g \in Placements(c)
    PROVE  \E f : /\ TakenBack(g) = f[Len(g.slots)]
                  /\ f[0] = g.c
                  /\ \A k \in 1 .. Len(g.slots) : f[k] = BackStep(g, f[k - 1], k)
                  /\ \A k \in 0 .. Len(g.slots) : f[k] \in PartlyBack(c, g, Len(g.slots) - k)
  <1> DEFINE N == Len(g.slots)
             z == g.c
             ff == CHOOSE f : f = [k \in 0 .. N |->
                                      IF k = 0 THEN z ELSE BackStep(g, f[k - 1], k)]
             X == [k \in 0 .. N |-> PartlyBack(c, g, N - k)]
             F == [k \in 1 .. N |-> [r \in X[k - 1] |-> BackStep(g, r, k)]]
  <1>1. TakenBack(g) = ff[N]
    BY DEF TakenBack, BackStep
  <1>2. N \in Nat
    BY LenProperties DEF Placements
  <1>3. z \in X[0]
    <2>1. z \in PartlyBack(c, g, N)
      BY DEF Placements, PartlyBack
    <2> HIDE DEF N
    <2>2. X[0] = PartlyBack(c, g, N)
      BY <1>2
    <2> QED BY <2>1, <2>2
  <1>4. \A k \in 1 .. N : \A r \in X[k - 1] : BackStep(g, r, k) \in X[k]
    <2> SUFFICES ASSUME NEW k \in 1 .. N, NEW r \in X[k - 1]
                 PROVE  BackStep(g, r, k) \in X[k]
      OBVIOUS
    <2>1. X[k - 1] = PartlyBack(c, g, N - (k - 1)) /\ X[k] = PartlyBack(c, g, N - k)
      <3> HIDE DEF N
      <3> QED BY <1>2
    <2> HIDE DEF X
    <2> QED BY <2>1, BackStepKeeps
  <1> HIDE DEF N, z, X
  <1>5. PICK f : Recurs(f, N, z, F) /\ \A k \in 0 .. N : f[k] \in X[k]
    <2>1. \A k \in 1 .. N : \A r \in X[k - 1] : F[k][r] \in X[k]
      BY <1>4
    <2> HIDE DEF F
    <2> QED BY <1>2, <1>3, <2>1, RecursionExists
  <1>6. f = [k \in 0 .. N |-> IF k = 0 THEN z ELSE BackStep(g, f[k - 1], k)]
    <2>1. \A k \in 1 .. N : k - 1 \in 0 .. N
      BY <1>2
    <2>2. \A k \in 1 .. N : F[k][f[k - 1]] = BackStep(g, f[k - 1], k)
      BY <1>5, <2>1
    <2>3. f = [k \in 0 .. N |-> IF k = 0 THEN z ELSE F[k][f[k - 1]]]
      BY <1>5 DEF Recurs
    <2> HIDE DEF F
    <2> QED BY <1>2, <2>2, <2>3
  <1>7. ff = [k \in 0 .. N |-> IF k = 0 THEN z ELSE BackStep(g, ff[k - 1], k)]
    <2> HIDE DEF F
    <2> QED BY <1>6
  <1> HIDE DEF ff
  <1> DEFINE S == {k \in 0 .. N : ff[k] \in X[k]}
  <1>8. 0 \in S
    BY <1>2, <1>3, <1>7
  <1>9. \A k \in 1 .. N : k - 1 \in S => k \in S
    BY <1>2, <1>4, <1>7
  <1> HIDE DEF S
  <1>10. \A k \in 0 .. N : k \in S
    BY <1>2, <1>8, <1>9, UptoInduction
  <1>11. ff[0] = z /\ \A k \in 1 .. N : ff[k] = BackStep(g, ff[k - 1], k)
    BY <1>2, <1>7
  <1>12. \A k \in 0 .. N : ff[k] \in PartlyBack(c, g, N - k)
    BY <1>10 DEF S, X
  <1> QED BY <1>1, <1>11, <1>12 DEF z, N

(* All slots taken back.                                                   *)
LEMMA TakenBackKeeps ==
    ASSUME NEW c, NEW g \in Placements(c)
    PROVE  Kept(c, TakenBack(g))
  <1> DEFINE N == Len(g.slots)
  <1>1. N \in Nat
    BY LenProperties DEF Placements
  <1>2. PICK f : /\ TakenBack(g) = f[N]
                 /\ \A k \in 0 .. N : f[k] \in PartlyBack(c, g, N - k)
    BY TakenBackUnfolds
  <1> HIDE DEF N
  <1>3. N \in 0 .. N /\ N - N = 0
    BY <1>1
  <1>4. f[N] \in PartlyBack(c, g, 0)
    BY <1>2, <1>3
  <1>5. ~ \E j \in 1 .. 0 : TRUE
    OBVIOUS
  <1> QED BY <1>2, <1>4, <1>5 DEF PartlyBack, Kept

-----------------------------------------------------------------------------
(* The invariant. What CellsAgree and KeysFollowPositions rest on besides  *)
(* themselves: the batch in decode() and the slots it has are ones that    *)
(* prepare() makes.                                                        *)
DecodeOK ==
    /\ batch = NoBatch \/ batch \in Batches
    /\ todo \in Seq(SlotRecs)
    /\ batch = NoBatch => todo = <<>>

StateOK ==
    /\ n_swa \in Windows
    /\ Agree(cells)
    /\ head \in 0 .. NCells
    /\ key \in [Cells -> Int]

IInv == StateOK /\ DecodeOK /\ KeysFollowPositions

(* Cells c of which the keys k follow the positions.                       *)
Follows(c, k) ==
    n_swa = 0 => \A i \in Cells : c.pos[i] # -1 => k[i] + c.shift[i] = c.pos[i]

(* Tokens of d are tokens of c, moved with their shift or not at all.      *)
MovedAlong(c, d) ==
    \A i \in Cells : d.pos[i] # -1 =>
        c.pos[i] # -1 /\ d.shift[i] - d.pos[i] = c.shift[i] - c.pos[i]

(* Positions and shifts are numbers.                                       *)
LEMMA AgreeTypes ==
    ASSUME NEW c, Agree(c), NEW i \in Cells
    PROVE  c.pos[i] \in Int /\ c.shift[i] \in Int
  BY DEF Agree, CellRecs

(* Keys keeps the keys of the tokens.                                      *)
LEMMA KeysType ==
    ASSUME NEW c, NEW k \in [Cells -> Int]
    PROVE  /\ Keys(c, k) \in [Cells -> Int]
           /\ n_swa = 0 => \A i \in Cells : c.pos[i] # -1 => Keys(c, k)[i] = k[i]
  BY DEF Keys

(* Keys follow tokens that move along with their shift.                    *)
LEMMA AlongFollows ==
    ASSUME NEW c, NEW d, NEW k \in [Cells -> Int], Agree(c), Agree(d),
           Follows(c, k), MovedAlong(c, d)
    PROVE  Follows(d, k)
  <1> SUFFICES ASSUME n_swa = 0, NEW i \in Cells, d.pos[i] # -1
               PROVE  k[i] + d.shift[i] = d.pos[i]
    BY DEF Follows
  <1>1. /\ c.pos[i] \in Int /\ c.shift[i] \in Int
        /\ d.pos[i] \in Int /\ d.shift[i] \in Int /\ k[i] \in Int
    BY AgreeTypes
  <1>2. /\ k[i] + c.shift[i] = c.pos[i]
        /\ d.shift[i] - d.pos[i] = c.shift[i] - c.pos[i]
    BY DEF Follows, MovedAlong
  <1>3. \A x, y, u, v, w \in Int : w + x = y /\ u - v = x - y => w + u = v
    OBVIOUS
  <1> QED BY <1>1, <1>2, <1>3

(* Tokens that stay when others leave do not move.                         *)
LEMMA RemovedAlong ==
    ASSUME NEW c, NEW d, NEW D, Agree(c), Removed(c, d, D)
    PROVE  Agree(d) /\ MovedAlong(c, d)
  <1>1. Agree(d)
    BY RemovedAgrees
  <1>2. \A i \in Cells : d.pos[i] # -1 => d.pos[i] = c.pos[i] /\ d.shift[i] = c.shift[i]
    BY DEF Removed
  <1> QED BY <1>1, <1>2 DEF MovedAlong

(* The head stays in the cache.                                            *)
LEMMA HeadAfterType ==
    ASSUME NEW h \in 0 .. NCells, NEW F, F \subseteq Cells
    PROVE  /\ HeadAfter(h, F) \in 0 .. NCells
           /\ F # {} => SetMin(F) \in 0 .. NCells
  <1>1. ASSUME F # {} PROVE SetMin(F) \in 0 .. NCells
    <2>1. F \in SUBSET Nat
      BY CacheAssumption DEF Cells
    <2>2. SetMin(F) \in F
      BY <1>1, <2>1, SetMinIn
    <2>3. SetMin(F) \in Cells
      BY <2>2
    <2>4. \A x \in Cells : x \in 0 .. NCells
      BY CacheAssumption DEF Cells
    <2> QED BY <2>3, <2>4
  <1> QED BY <1>1 DEF HeadAfter

(* What is freed is a cell.                                                *)
LEMMA FreedCells ==
    ASSUME NEW c, NEW d
    PROVE  Freed(c, d) \subseteq Cells
  BY DEF Freed

(* An operation between two batches.                                       *)
LEMMA UpdateKeeps ==
    ASSUME IInv, NEW c, Agree(c), MovedAlong(cells, c), NEW h \in 0 .. NCells,
           Update(c, h)
    PROVE  IInv'
  <1>1. Follows(c, key)
    <2>1. Follows(cells, key)
      BY DEF IInv, KeysFollowPositions, Follows
    <2> QED BY <2>1, AlongFollows DEF IInv, StateOK
  <1>2. key' \in [Cells -> Int] /\ Follows(c, key')
    <2>1. key' = Keys(c, key) /\ key \in [Cells -> Int]
      BY DEF Update, IInv, StateOK
    <2>2. /\ Keys(c, key) \in [Cells -> Int]
          /\ n_swa = 0 => \A i \in Cells : c.pos[i] # -1 => Keys(c, key)[i] = key[i]
      BY <2>1, KeysType
    <2> QED BY <2>1, <2>2, <1>1 DEF Follows
  <1>3. cells' = c /\ head' = h /\ UNCHANGED <<n_swa, batch, todo>>
    BY DEF Update
  <1>4. StateOK'
    BY <1>2, <1>3 DEF IInv, StateOK
  <1>5. KeysFollowPositions'
    BY <1>2, <1>3 DEF Follows, KeysFollowPositions
  <1>6. DecodeOK'
    BY <1>3 DEF IInv, DecodeOK
  <1> QED BY <1>4, <1>5, <1>6 DEF IInv

(* A range of a sequence has cells of the sequence only.                   *)
LEMMA InSeqCells ==
    ASSUME IInv, NEW s \in Seqs, NEW r \in Ranges
    PROVE  /\ InSeq(s, r[1], r[2]) \subseteq Has(cells, s)
           /\ InSeq(s, r[1], r[2]) \subseteq Cells
           /\ \A i \in InSeq(s, r[1], r[2]) : cells.pos[i] # -1
  <1>1. \A i \in Has(cells, s) : i \in Cells /\ cells.pos[i] # -1
    BY DEF IInv, StateOK, Agree, Has
  <1> QED BY <1>1 DEF InSeq

(* The operations between two batches keep the invariant.                  *)
LEMMA OperationsKeep ==
    ASSUME IInv,
           \/ Clear
           \/ \E s \in Seqs, r \in Ranges : SeqRm(s, r[1], r[2])
           \/ \E r \in Ranges : RmAny(r[1], r[2])
           \/ \E s, d \in Seqs, r \in Ranges : SeqCp(s, d, r[1], r[2])
           \/ \E s \in Seqs : SeqKeep(s)
           \/ \E s \in Seqs, r \in Ranges, d \in Deltas : SeqAdd(s, r[1], r[2], d)
    PROVE  IInv'
  <1>0. Agree(cells) /\ head \in 0 .. NCells
    BY DEF IInv, StateOK
  <1>1. CASE Clear
    <2>1. MovedAlong(cells, Blank)
      BY DEF MovedAlong, Blank
    <2>2. 0 \in 0 .. NCells
      BY CacheAssumption
    <2> QED BY <1>1, <2>1, <2>2, BlankAgrees, UpdateKeeps DEF Clear
  <1>2. ASSUME NEW s \in Seqs, NEW r \in Ranges, SeqRm(s, r[1], r[2]) PROVE IInv'
    <2> DEFINE I == InSeq(s, r[1], r[2])
               c == SeqRmCells(cells, I, s)
    <2>1. I \subseteq Has(cells, s)
      BY InSeqCells
    <2>2. Update(c, HeadAfter(head, Freed(cells, c)))
      BY <1>2 DEF SeqRm
    <2> HIDE DEF I
    <2>3. Removed(cells, c, [i \in Cells |-> IF i \in I THEN {s} ELSE {}])
      BY <1>0, <2>1, SeqRmRemoves
    <2> HIDE DEF c
    <2>4. Agree(c) /\ MovedAlong(cells, c)
      BY <1>0, <2>3, RemovedAlong
    <2>5. HeadAfter(head, Freed(cells, c)) \in 0 .. NCells
      BY <1>0, FreedCells, HeadAfterType
    <2> QED BY <2>2, <2>4, <2>5, UpdateKeeps
  <1>3. ASSUME NEW r \in Ranges, RmAny(r[1], r[2]) PROVE IInv'
    <2> DEFINE I == InRange(cells, From(r[1]), Upto(r[2]))
               c == Rm(cells, I)
    <2>1. I \subseteq Cells
      BY DEF InRange
    <2>2. Update(c, HeadAfter(head, Freed(cells, c)))
      BY <1>3 DEF RmAny
    <2> HIDE DEF I
    <2>3. Removed(cells, c, [i \in Cells |-> IF i \in I THEN Seqs ELSE {}])
      BY <1>0, <2>1, RmRemoves
    <2> HIDE DEF c
    <2>4. Agree(c) /\ MovedAlong(cells, c)
      BY <1>0, <2>3, RemovedAlong
    <2>5. HeadAfter(head, Freed(cells, c)) \in 0 .. NCells
      BY <1>0, FreedCells, HeadAfterType
    <2> QED BY <2>2, <2>4, <2>5, UpdateKeeps
  <1>4. ASSUME NEW s \in Seqs, NEW d \in Seqs, NEW r \in Ranges, SeqCp(s, d, r[1], r[2])
        PROVE IInv'
    <2> DEFINE I == InSeq(s, r[1], r[2])
               c == SeqAddCells(cells, I, d)
    <2>1. I \subseteq Cells /\ \A i \in I : cells.pos[i] # -1
      BY InSeqCells
    <2>2. I \cap Has(cells, d) = {} /\ Update(c, head)
      BY <1>4 DEF SeqCp
    <2> HIDE DEF I
    <2>3. Agree(c)
      BY <1>0, <2>1, <2>2, SeqAddAgrees
    <2>4. MovedAlong(cells, c)
      <3>1. Joined(cells, c, I, d)
        BY <1>0, <2>1, <2>2, SeqAddCounts DEF Agree
      <3> HIDE DEF c
      <3> QED BY <3>1 DEF Joined, MovedAlong
    <2> HIDE DEF c
    <2> QED BY <1>0, <2>2, <2>3, <2>4, UpdateKeeps
  <1>5. ASSUME NEW s \in Seqs, SeqKeep(s) PROVE IInv'
    <2> DEFINE c == SeqKeepCells(cells, s)
    <2>1. Update(c, HeadAfter(head, Freed(cells, c)))
      BY <1>5 DEF SeqKeep
    <2>2. Removed(cells, c, [i \in Cells |-> Seqs \ {s}])
      BY <1>0, SeqKeepRemoves
    <2> HIDE DEF c
    <2>3. Agree(c) /\ MovedAlong(cells, c)
      BY <1>0, <2>2, RemovedAlong
    <2>4. HeadAfter(head, Freed(cells, c)) \in 0 .. NCells
      BY <1>0, FreedCells, HeadAfterType
    <2> QED BY <2>1, <2>3, <2>4, UpdateKeeps
  <1>6. ASSUME NEW s \in Seqs, NEW r \in Ranges, NEW d \in Deltas,
               SeqAdd(s, r[1], r[2], d)
        PROVE  IInv'
    <2> DEFINE I == InSeq(s, r[1], r[2])
               c == PosAdd(cells, I, d)
               F == Freed(cells, c)
    <2>1. I \subseteq Cells /\ \A i \in I : cells.pos[i] # -1
      BY InSeqCells
    <2>2. /\ \A i \in I : cells.pos[i] + d <= MaxPos
          /\ Update(c, IF F = {} THEN 0 ELSE SetMin(F))
      BY <1>6 DEF SeqAdd
    <2>3. d \in Int
      BY CacheAssumption
    <2> HIDE DEF I
    <2>4. Agree(c) /\ MovedAlong(cells, c)
      <3>1. /\ Agree(c)
            /\ \A i \in Cells : c.pos[i] # -1 =>
                  cells.pos[i] # -1 /\ c.shift[i] - c.pos[i] = cells.shift[i] - cells.pos[i]
        BY <1>0, <2>1, <2>2, <2>3, PosAddAgrees
      <3> HIDE DEF c
      <3> QED BY <3>1 DEF MovedAlong
    <2>5. (IF F = {} THEN 0 ELSE SetMin(F)) \in 0 .. NCells
      <3>1. F \subseteq Cells
        BY FreedCells
      <3> HIDE DEF F
      <3> QED BY <1>0, <3>1, HeadAfterType, CacheAssumption
    <2> HIDE DEF c, F
    <2> QED BY <2>2, <2>4, <2>5, UpdateKeeps
  <1> QED BY <1>1, <1>2, <1>3, <1>4, <1>5, <1>6

(* The pending shifts are applied, or their computation fails.             *)
LEMMA ShiftKeeps ==
    ASSUME NEW c, Agree(c), key \in [Cells -> Int], Follows(c, key), Shift(c)
    PROVE  Agree(cells') /\ key' \in [Cells -> Int] /\ Follows(cells', key')
  <1> DEFINE d == [c EXCEPT !.shift = [i \in Cells |-> 0], !.has_shift = FALSE]
             k == [i \in Cells |-> key[i] + c.shift[i]]
  <1>0. \A i \in Cells : c.pos[i] \in Int /\ c.shift[i] \in Int
    BY AgreeTypes
  <1>1. CASE cells' = d /\ key' = Keys(c, k)
    <2>1. /\ d \in CellRecs /\ d.pos = c.pos /\ d.seq = c.seq /\ d.used = c.used
          /\ d.seq_pos = c.seq_pos /\ d.has_shift = FALSE
          /\ d.shift = [i \in Cells |-> 0]
      <3>1. c \in CellRecs /\ [i \in Cells |-> 0] \in [Cells -> Int]
        BY DEF Agree
      <3> QED BY <3>1 DEF CellRecs
    <2> HIDE DEF d
    <2>2. Agree(d)
      <3>1. \A s, p : CellsAt(d, s, p) = CellsAt(c, s, p)
        BY <2>1 DEF CellsAt
      <3>2. Counted(d)
        BY <2>1, <3>1 DEF Agree, Counted
      <3> QED BY <2>1, <3>2 DEF Agree
    <2>3. k \in [Cells -> Int]
      BY <1>0
    <2>4. /\ Keys(c, k) \in [Cells -> Int]
          /\ n_swa = 0 => \A i \in Cells : c.pos[i] # -1 => Keys(c, k)[i] = k[i]
      <3> HIDE DEF k
      <3> QED BY <2>3, KeysType
    <2>5. Follows(d, Keys(c, k))
      <3> SUFFICES ASSUME n_swa = 0, NEW i \in Cells, d.pos[i] # -1
                   PROVE  Keys(c, k)[i] + d.shift[i] = d.pos[i]
        BY DEF Follows
      <3>1. c.pos[i] # -1 /\ d.pos[i] = c.pos[i] /\ d.shift[i] = 0
        BY <2>1
      <3>2. Keys(c, k)[i] = key[i] + c.shift[i]
        BY <3>1, <2>4
      <3>3. key[i] + c.shift[i] = c.pos[i]
        BY <3>1 DEF Follows
      <3> QED BY <3>1, <3>2, <3>3, <1>0
    <2> QED BY <1>1, <2>2, <2>4, <2>5
  <1>2. CASE cells' = c /\ key' = Keys(c, key)
    <2>1. /\ Keys(c, key) \in [Cells -> Int]
          /\ n_swa = 0 => \A i \in Cells : c.pos[i] # -1 => Keys(c, key)[i] = key[i]
      BY KeysType
    <2> QED BY <1>2, <2>1 DEF Follows
  <1> QED BY <1>1, <1>2 DEF Shift

(* The parts of the invariant after a step.                                *)
LEMMA Together ==
    ASSUME n_swa' \in Windows, n_swa' = n_swa, Agree(cells)', head' \in 0 .. NCells,
           key' \in [Cells -> Int], Follows(cells', key'), DecodeOK'
    PROVE  IInv'
  BY DEF IInv, StateOK, Follows, KeysFollowPositions

(* decode() begins.                                                        *)
LEMMA DecodeKeeps ==
    ASSUME IInv, NEW s \in Seqs, NEW n \in 1 .. MaxBatch, Decode(s, n)
    PROVE  IInv'
  <1>1. /\ Agree(cells) /\ key \in [Cells -> Int] /\ Follows(cells, key)
        /\ n_swa \in Windows /\ head \in 0 .. NCells
    BY DEF IInv, StateOK, KeysFollowPositions, Follows
  <1>2. Agree(cells') /\ key' \in [Cells -> Int] /\ Follows(cells', key')
    BY <1>1, ShiftKeeps DEF Decode
  <1>3. DecodeOK'
    <2> DEFINE p == SeqPosMax(cells, s) + 1
    <2>1. SeqPosMax(cells, s) \in Positions \cup {-1}
      BY SeqPosMaxType
    <2>2. p \in Nat
      BY <2>1, CacheAssumption DEF Positions
    <2>3. n \in Nat \ {0}
      BY CacheAssumption
    <2>4. /\ batch = NoBatch /\ p + n - 1 <= MaxPos
          /\ batch' = [s |-> s, n |-> n, p |-> p, did_optimize |-> FALSE]
          /\ todo' = todo
      BY DEF Decode
    <2> HIDE DEF p
    <2>5. batch' \in Batches
      BY <2>2, <2>3, <2>4 DEF Batches
    <2>6. todo = <<>> /\ todo \in Seq(SlotRecs)
      BY <2>4 DEF IInv, DecodeOK
    <2> QED BY <2>4, <2>5, <2>6 DEF DecodeOK
  <1> QED BY <1>1, <1>2, <1>3, Together DEF Decode

(* prepare() keeps the invariant.                                          *)
LEMMA PrepareKeeps ==
    ASSUME IInv, Prepare
    PROVE  IInv'
  <1> DEFINE g == Placed(cells, head, batch)
             c == TakenBack(g)
  <1>1. /\ Agree(cells) /\ key \in [Cells -> Int] /\ Follows(cells, key)
        /\ n_swa \in Windows /\ head \in 0 .. NCells
        /\ batch \in Batches /\ todo = <<>>
    BY DEF IInv, StateOK, DecodeOK, KeysFollowPositions, Follows, Prepare
  <1>2. /\ UNCHANGED <<n_swa, head>>
        /\ \/ /\ todo' = g.slots
              /\ cells' = c /\ key' = Keys(c, key)
              /\ UNCHANGED batch
           \/ /\ batch' = [batch EXCEPT !.did_optimize = TRUE]
              /\ Shift(c)
              /\ UNCHANGED todo
           \/ /\ batch' = NoBatch
              /\ cells' = c /\ key' = Keys(c, key)
              /\ UNCHANGED todo
    BY DEF Prepare
  <1>3. g \in Placements(cells)
    BY <1>1, PlacedKeeps
  <1> HIDE DEF g
  <1>4. Kept(cells, c)
    BY <1>3, TakenBackKeeps
  <1>5. g.slots \in Seq(SlotRecs)
    BY <1>3 DEF Placements
  <1> HIDE DEF c
  <1>6. Agree(c) /\ Follows(c, key)
    BY <1>1, <1>4 DEF Kept, Follows
  <1>7. /\ Keys(c, key) \in [Cells -> Int]
        /\ Follows(c, Keys(c, key))
    <2>1. /\ Keys(c, key) \in [Cells -> Int]
          /\ n_swa = 0 => \A i \in Cells : c.pos[i] # -1 => Keys(c, key)[i] = key[i]
      BY <1>1, KeysType
    <2> QED BY <2>1, <1>6 DEF Follows
  <1>8. Agree(cells') /\ key' \in [Cells -> Int] /\ Follows(cells', key')
    <2>1. CASE cells' = c /\ key' = Keys(c, key)
      BY <2>1, <1>6, <1>7
    <2>2. CASE Shift(c)
      BY <2>2, <1>1, <1>6, ShiftKeeps
    <2> QED BY <2>1, <2>2, <1>2
  <1>9. DecodeOK'
    <2>1. CASE todo' = g.slots /\ UNCHANGED batch
      <3>1. batch # NoBatch
        BY DEF Prepare
      <3> QED BY <2>1, <3>1, <1>1, <1>5 DEF DecodeOK
    <2>2. CASE batch' = [batch EXCEPT !.did_optimize = TRUE] /\ UNCHANGED todo
      <3>1. batch' \in Batches
        BY <2>2, <1>1 DEF Batches
      <3> QED BY <2>2, <3>1, <1>1 DEF DecodeOK
    <2>3. CASE batch' = NoBatch /\ UNCHANGED todo
      BY <2>3, <1>1 DEF DecodeOK
    <2> QED BY <2>1, <2>2, <2>3, <1>2
  <1> QED BY <1>1, <1>2, <1>8, <1>9, Together

(* The slot that is applied, in decode().                                  *)
LEMMA NextSlot ==
    ASSUME IInv, todo # <<>>
    PROVE  /\ batch \in Batches /\ batch # NoBatch /\ batch.s \in Seqs
           /\ Tail(todo) \in Seq(SlotRecs)
           /\ Range(todo[1].idxs) \subseteq Cells
           /\ todo[1].p \in Nat
           /\ todo[1].idxs[Len(todo[1].idxs)] + 1 \in 0 .. NCells
           /\ Applied(cells, Apply(cells, todo[1].idxs, batch.s, todo[1].p),
                      Range(todo[1].idxs), batch.s, todo[1].p)
           /\ Tokens(cells, Apply(cells, todo[1].idxs, batch.s, todo[1].p),
                     todo[1].idxs, Len(todo[1].idxs), batch.s, todo[1].p)
           /\ Len(todo[1].idxs) \in Nat \ {0} /\ IsInjective(todo[1].idxs)
           /\ todo[1].idxs \in [1 .. Len(todo[1].idxs) -> Cells]
           /\ todo[1].p + Len(todo[1].idxs) - 1 <= MaxPos
  <1> DEFINE u == todo[1]
             n == Len(u.idxs)
  <1>1. batch \in Batches /\ batch # NoBatch /\ batch.s \in Seqs
    BY DEF IInv, DecodeOK, Batches
  <1>2. todo \in Seq(SlotRecs)
    BY DEF IInv, DecodeOK
  <1>3. Tail(todo) \in Seq(SlotRecs) /\ u \in SlotRecs
    BY <1>2
  <1> HIDE DEF u
  <1>4. /\ u.idxs \in Seq(Cells) /\ u.idxs # <<>> /\ IsInjective(u.idxs)
        /\ u.p \in Nat /\ u.p + n - 1 <= MaxPos
    BY <1>3 DEF SlotRecs
  <1>5. n \in Nat \ {0} /\ u.idxs \in [1 .. n -> Cells]
    BY <1>4
  <1> HIDE DEF n
  <1>6. Range(u.idxs) \subseteq Cells
    BY <1>5 DEF Range
  <1>7. u.idxs[n] + 1 \in 0 .. NCells
    <2>1. u.idxs[n] \in Cells
      BY <1>5
    <2>2. \A x \in Cells : x + 1 \in 0 .. NCells
      BY CacheAssumption DEF Cells
    <2> QED BY <2>1, <2>2
  <1>8. Agree(cells)
    BY DEF IInv, StateOK
  <1>9. /\ Applied(cells, Apply(cells, u.idxs, batch.s, u.p), Range(u.idxs), batch.s, u.p)
        /\ Tokens(cells, Apply(cells, u.idxs, batch.s, u.p), u.idxs, n, batch.s, u.p)
    BY <1>1, <1>4, <1>5, <1>8, ApplyAgrees DEF n
  <1> QED BY <1>1, <1>3, <1>4, <1>5, <1>6, <1>7, <1>9 DEF u, n

(* A micro-batch is applied and computed.                                  *)
LEMMA ProcessKeeps ==
    ASSUME IInv, Process
    PROVE  IInv'
  <1> DEFINE u == todo[1]
             R == Range(u.idxs)
             c == Apply(cells, u.idxs, batch.s, u.p)
             k == [i \in Cells |-> IF i \in R THEN c.pos[i] ELSE key[i]]
  <1>1. /\ Agree(cells) /\ key \in [Cells -> Int] /\ Follows(cells, key)
        /\ n_swa \in Windows /\ todo # <<>>
    BY DEF IInv, StateOK, KeysFollowPositions, Follows, Process
  <1>2. /\ batch \in Batches /\ batch # NoBatch
        /\ Tail(todo) \in Seq(SlotRecs) /\ R \subseteq Cells
        /\ u.idxs[Len(u.idxs)] + 1 \in 0 .. NCells
        /\ Applied(cells, c, R, batch.s, u.p)
    BY <1>1, NextSlot
  <1>3. /\ cells' = c /\ key' = Keys(c, k)
        /\ head' = u.idxs[Len(u.idxs)] + 1
        /\ todo' = Tail(todo)
        /\ batch' = IF todo' = <<>> THEN NoBatch ELSE batch
        /\ UNCHANGED n_swa
    BY DEF Process
  <1> HIDE DEF c, u
  <1>4. Agree(c) /\ \A i \in Cells : c.pos[i] \in Int /\ c.shift[i] \in Int
    BY <1>2, AgreeTypes DEF Applied
  <1>5. k \in [Cells -> Int]
    BY <1>1, <1>4
  <1>6. Follows(c, k)
    <2> SUFFICES ASSUME n_swa = 0, NEW i \in Cells, c.pos[i] # -1
                 PROVE  k[i] + c.shift[i] = c.pos[i]
      BY DEF Follows
    <2>1. CASE i \in R
      <3>1. k[i] = c.pos[i] /\ c.shift[i] = 0
        BY <2>1, <1>2 DEF Applied
      <3> QED BY <3>1, <1>4
    <2>2. CASE i \notin R
      <3>1. k[i] = key[i] /\ c.pos[i] = cells.pos[i] /\ c.shift[i] = cells.shift[i]
        BY <2>2, <1>2 DEF Applied
      <3> QED BY <3>1, <1>1 DEF Follows
    <2> QED BY <2>1, <2>2
  <1> HIDE DEF k
  <1>7. key' \in [Cells -> Int] /\ Follows(cells', key')
    <2>1. /\ Keys(c, k) \in [Cells -> Int]
          /\ n_swa = 0 => \A i \in Cells : c.pos[i] # -1 => Keys(c, k)[i] = k[i]
      BY <1>5, KeysType
    <2> QED BY <2>1, <1>3, <1>6 DEF Follows
  <1>8. DecodeOK'
    BY <1>2, <1>3 DEF DecodeOK
  <1> QED BY <1>1, <1>2, <1>3, <1>4, <1>7, <1>8, Together

(* A micro-batch is applied and its computation fails.                     *)
LEMMA ProcessFailsKeeps ==
    ASSUME IInv, ProcessFails
    PROVE  IInv'
  <1> DEFINE u == todo[1]
             R == Range(u.idxs)
             c == Apply(cells, u.idxs, batch.s, u.p)
             J == InRange(c, u.p, MaxPos + 1) \cap Has(c, batch.s)
             d == SeqRmCells(c, J, batch.s)
  <1>1. /\ Agree(cells) /\ key \in [Cells -> Int] /\ Follows(cells, key)
        /\ n_swa \in Windows /\ todo # <<>>
    BY DEF IInv, StateOK, KeysFollowPositions, Follows, ProcessFails
  <1>2. /\ batch.s \in Seqs /\ R \subseteq Cells /\ u.p \in Nat
        /\ u.idxs[Len(u.idxs)] + 1 \in 0 .. NCells
        /\ Applied(cells, c, R, batch.s, u.p)
    BY <1>1, NextSlot
  <1>3. /\ cells' = d /\ key' = Keys(d, key)
        /\ head' = HeadAfter(u.idxs[Len(u.idxs)] + 1, Freed(c, d))
        /\ todo' = <<>> /\ batch' = NoBatch
        /\ UNCHANGED n_swa
    BY DEF ProcessFails
  <1> HIDE DEF c, u
  <1>4. Agree(c)
    BY <1>2 DEF Applied
  <1>5. Removed(c, d, [i \in Cells |-> IF i \in J THEN {batch.s} ELSE {}])
    <2>1. J \subseteq Has(c, batch.s)
      OBVIOUS
    <2> HIDE DEF J
    <2> QED BY <2>1, <1>2, <1>4, SeqRmRemoves
  <1> HIDE DEF d
  <1>6. Agree(d)
    <2> HIDE DEF J
    <2> QED BY <1>4, <1>5, RemovedAlong
  <1>7. \A i \in Cells : d.pos[i] # -1 =>
            /\ d.pos[i] = c.pos[i] /\ d.shift[i] = c.shift[i]
            /\ d.seq[i] # {}
            /\ i \in J => d.seq[i] = c.seq[i] \ {batch.s}
    <2> HIDE DEF J
    <2> QED BY <1>5 DEF Removed
  <1>8. Follows(d, key)
    <2> SUFFICES ASSUME n_swa = 0, NEW i \in Cells, d.pos[i] # -1
                 PROVE  key[i] + d.shift[i] = d.pos[i]
      BY DEF Follows
    <2>1. i \notin R
      <3> SUFFICES ASSUME i \in R PROVE FALSE
        OBVIOUS
      <3>1. c.pos[i] # -1 /\ c.seq[i] = {batch.s} /\ c.pos[i] >= u.p
        BY <1>2, <1>7 DEF Applied
      <3>2. c.pos[i] < MaxPos + 1
        BY <3>1, <1>4, CacheAssumption DEF Agree, Positions
      <3>3. i \in J
        BY <3>1, <3>2 DEF InRange, Has
      <3> HIDE DEF J
      <3> QED BY <3>1, <3>3, <1>7
    <2>2. d.pos[i] = cells.pos[i] /\ d.shift[i] = cells.shift[i]
      <3> HIDE DEF J
      <3> QED BY <2>1, <1>2, <1>7 DEF Applied
    <2> QED BY <2>2, <1>1 DEF Follows
  <1> HIDE DEF J
  <1>9. key' \in [Cells -> Int] /\ Follows(cells', key')
    <2>1. /\ Keys(d, key) \in [Cells -> Int]
          /\ n_swa = 0 => \A i \in Cells : d.pos[i] # -1 => Keys(d, key)[i] = key[i]
      BY <1>1, KeysType
    <2> QED BY <2>1, <1>3, <1>8 DEF Follows
  <1>10. head' \in 0 .. NCells
    BY <1>2, <1>3, FreedCells, HeadAfterType
  <1>11. DecodeOK'
    BY <1>3 DEF DecodeOK
  <1> QED BY <1>1, <1>3, <1>6, <1>9, <1>10, <1>11, Together

(* The invariant is inductive.                                             *)
LEMMA InitHolds == Init => IInv
  <1> SUFFICES ASSUME Init PROVE IInv
    OBVIOUS
  <1>1. StateOK
    BY BlankAgrees, CacheAssumption DEF Init, StateOK
  <1>2. DecodeOK
    BY DEF Init, DecodeOK
  <1>3. KeysFollowPositions
    BY DEF Init, KeysFollowPositions, Blank
  <1> QED BY <1>1, <1>2, <1>3 DEF IInv

LEMMA NextKeeps ==
    ASSUME IInv, [Next]_vars
    PROVE  IInv'
  <1>1. CASE UNCHANGED vars
    <2>1. StateOK'
      BY <1>1 DEF IInv, StateOK, vars
    <2>2. DecodeOK'
      BY <1>1 DEF IInv, DecodeOK, vars
    <2>3. KeysFollowPositions'
      BY <1>1 DEF IInv, KeysFollowPositions, vars
    <2> QED BY <2>1, <2>2, <2>3 DEF IInv
  <1>2. CASE \/ Clear
             \/ \E s \in Seqs, r \in Ranges : SeqRm(s, r[1], r[2])
             \/ \E r \in Ranges : RmAny(r[1], r[2])
             \/ \E s, d \in Seqs, r \in Ranges : SeqCp(s, d, r[1], r[2])
             \/ \E s \in Seqs : SeqKeep(s)
             \/ \E s \in Seqs, r \in Ranges, d \in Deltas : SeqAdd(s, r[1], r[2], d)
    BY <1>2, OperationsKeep
  <1>3. CASE \E s \in Seqs, n \in 1 .. MaxBatch : Decode(s, n)
    BY <1>3, DecodeKeeps
  <1>4. CASE Prepare
    BY <1>4, PrepareKeeps
  <1>5. CASE Process
    BY <1>5, ProcessKeeps
  <1>6. CASE ProcessFails
    BY <1>6, ProcessFailsKeeps
  <1> QED BY <1>1, <1>2, <1>3, <1>4, <1>5, <1>6 DEF Next

LEMMA IInvHolds == Spec => []IInv
  BY InitHolds, NextKeeps, PTL DEF Spec

-----------------------------------------------------------------------------
(* The cells of llama-kv-cells.h, the head and the keys have their types,  *)
(* and there is no slot to apply without a batch in decode().              *)
THEOREM TypeCorrect == Spec => []TypeOK
  <1>1. IInv => TypeOK
    <2> SUFFICES ASSUME IInv PROVE TypeOK
      OBVIOUS
    <2>1. Agree(cells) /\ cells \in CellRecs
      BY DEF IInv, StateOK, Agree
    <2>2. /\ cells.pos \in [Cells -> Int] /\ cells.seq \in [Cells -> SUBSET Seqs]
          /\ cells.shift \in [Cells -> Int] /\ cells.used \subseteq Cells
          /\ cells.seq_pos \in [Seqs -> [Positions -> Int]]
          /\ cells.has_shift \in BOOLEAN
      BY <2>1 DEF CellRecs
    <2>3. cells.pos \in [Cells -> Positions \cup {-1}]
      BY <2>1, <2>2 DEF Agree
    <2>4. cells.seq_pos \in [Seqs -> [Positions -> Nat]]
      <3>1. \A s \in Seqs, p \in Positions : cells.seq_pos[s][p] \in Nat
        <4> SUFFICES ASSUME NEW s \in Seqs, NEW p \in Positions
                     PROVE  cells.seq_pos[s][p] \in Nat
          OBVIOUS
        <4>1. CellsAt(cells, s, p) \subseteq Cells
          BY DEF CellsAt
        <4>2. Cardinality(CellsAt(cells, s, p)) \in Nat
          BY <4>1, CellsFinite
        <4> QED BY <4>2, <2>1 DEF Agree, Counted
      <3> QED BY <2>2, <3>1
    <2> QED BY <2>2, <2>3, <2>4 DEF TypeOK, IInv, StateOK, DecodeOK
  <1> QED BY <1>1, IInvHolds, PTL

(* What the cells say of themselves agrees after every sequence of         *)
(* removals, copies, moves and batches, placed, taken back, applied or     *)
(* failed: no position is counted that is not there, and no empty cell     *)
(* hands a sequence or a shift to the next token.                          *)
THEOREM CellsAgreement == Spec => []CellsAgree
  <1>1. IInv => CellsAgree
    <2> SUFFICES ASSUME IInv PROVE CellsAgree
      OBVIOUS
    <2>1. Agree(cells)
      BY DEF IInv, StateOK
    <2>2. ASSUME NEW s \in Seqs, NEW p \in Positions
          PROVE  cells.seq_pos[s][p] = Cardinality({i \in Has(cells, s) : cells.pos[i] = p})
      <3> DEFINE A == {i \in Has(cells, s) : cells.pos[i] = p}
      <3> SUFFICES cells.seq_pos[s][p] = Cardinality(A)
        OBVIOUS
      <3>1. A = CellsAt(cells, s, p)
        BY DEF Has, CellsAt
      <3> HIDE DEF A
      <3> QED BY <2>1, <3>1 DEF Agree, Counted
    <2> QED BY <2>1, <2>2 DEF CellsAgree, Agree
  <1> QED BY <1>1, IInvHolds, PTL

(* Without a window, the key of a token is rotated for the token's         *)
(* position once the pending shift is applied, whatever was moved, copied, *)
(* removed and put back, and whether or not the last K-shift was computed. *)
THEOREM KeysAreRotated == Spec => []KeysFollowPositions
  <1>1. IInv => KeysFollowPositions
    BY DEF IInv
  <1> QED BY <1>1, IInvHolds, PTL

-----------------------------------------------------------------------------
(* Positions without a gap.                                                *)

(* Sequence s has a token at position p.                                   *)
Present(c, s, p) == \E i \in Cells : s \in c.seq[i] /\ c.pos[i] = p

(* seq_pos knows which positions are present.                              *)
LEMMA PosOfPresent ==
    ASSUME NEW c, Agree(c), NEW s \in Seqs, NEW p \in Positions
    PROVE  p \in PosOf(c, s) <=> Present(c, s, p)
  <1>1. CellsAt(c, s, p) \subseteq Cells
    BY DEF CellsAt
  <1>2. IsFiniteSet(CellsAt(c, s, p))
    BY <1>1, CellsFinite, FS_Subset
  <1>3. c.seq_pos[s][p] = Cardinality(CellsAt(c, s, p))
    BY DEF Agree, Counted
  <1>4. Cardinality(CellsAt(c, s, p)) = 0 <=> CellsAt(c, s, p) = {}
    BY <1>2, FS_EmptySet
  <1>5. CellsAt(c, s, p) # {} <=> Present(c, s, p)
    BY DEF CellsAt, Present
  <1> QED BY <1>3, <1>4, <1>5 DEF PosOf

(* The minimum and the maximum are those of the positions present.         *)
LEMMA PosBounds ==
    ASSUME NEW c, Agree(c), NEW s \in Seqs
    PROVE  /\ \A p \in Positions :
                 Present(c, s, p) => SeqPosMin(c, s) <= p /\ p <= SeqPosMax(c, s)
           /\ SeqPosMax(c, s) = -1 <=> \A p \in Positions : ~Present(c, s, p)
           /\ SeqPosMax(c, s) # -1 =>
                 /\ SeqPosMin(c, s) \in Positions /\ Present(c, s, SeqPosMin(c, s))
                 /\ SeqPosMax(c, s) \in Positions /\ Present(c, s, SeqPosMax(c, s))
           /\ SeqPosMax(c, s) = -1 => SeqPosMin(c, s) = -1
  <1> DEFINE Q == PosOf(c, s)
  <1>1. Q \in SUBSET Nat /\ Q \in SUBSET (0 .. MaxPos) /\ Q \subseteq Positions
    BY CacheAssumption DEF PosOf, Positions
  <1>2. \A p \in Positions : p \in Q <=> Present(c, s, p)
    BY PosOfPresent
  <1>3. -1 \notin Positions
    BY CacheAssumption DEF Positions
  <1>4. /\ SeqPosMin(c, s) = IF Q = {} THEN -1 ELSE SetMin(Q)
        /\ SeqPosMax(c, s) = IF Q = {} THEN -1 ELSE SetMax(Q)
    BY DEF SeqPosMin, SeqPosMax
  <1> HIDE DEF Q
  <1>5. CASE Q = {}
    BY <1>2, <1>4, <1>5
  <1>6. CASE Q # {}
    <2>1. SetMin(Q) \in Q /\ \A x \in Q : SetMin(Q) <= x
      BY <1>1, <1>6, NatMin DEF SetMin
    <2>2. SetMax(Q) \in Q /\ \A x \in Q : x <= SetMax(Q)
      BY <1>1, <1>6, CacheAssumption, SetMaxIn
    <2> QED BY <2>1, <2>2, <1>1, <1>2, <1>3, <1>4, <1>6
  <1> QED BY <1>5, <1>6

(* Gapless, without the minimum and the maximum.                           *)
Filled(c, s) ==
    \A x, y, p \in Positions :
        Present(c, s, x) /\ Present(c, s, y) /\ x <= p /\ p <= y => Present(c, s, p)

(* The two are the same when the cells agree.                              *)
LEMMA GaplessFilled ==
    ASSUME NEW c, Agree(c), NEW s \in Seqs
    PROVE  Gapless(c, s) <=> Filled(c, s)
  <1>0. Positions \subseteq Int /\ SeqPosMax(c, s) \in Int /\ SeqPosMin(c, s) \in Int
    BY PosBounds, CacheAssumption DEF Positions
  <1>1. \A p \in Positions : Present(c, s, p) <=> \E i \in Has(c, s) : c.pos[i] = p
    BY DEF Present, Has
  <1>2. ASSUME Gapless(c, s) PROVE Filled(c, s)
    <2> SUFFICES ASSUME NEW x \in Positions, NEW y \in Positions, NEW p \in Positions,
                        Present(c, s, x), Present(c, s, y), x <= p, p <= y
                 PROVE  Present(c, s, p)
      BY DEF Filled
    <2>1. SeqPosMin(c, s) <= x /\ y <= SeqPosMax(c, s)
      BY PosBounds
    <2>2. SeqPosMin(c, s) <= p /\ p <= SeqPosMax(c, s)
      BY <2>1, <1>0
    <2> QED BY <2>2, <1>1, <1>2 DEF Gapless
  <1>3. ASSUME Filled(c, s) PROVE Gapless(c, s)
    <2> SUFFICES ASSUME NEW p \in Positions, SeqPosMin(c, s) <= p, p <= SeqPosMax(c, s)
                 PROVE  Present(c, s, p)
      BY <1>1 DEF Gapless
    <2>1. SeqPosMax(c, s) # -1
      BY CacheAssumption DEF Positions
    <2> QED BY <2>1, <1>3, PosBounds DEF Filled
  <1> QED BY <1>2, <1>3

(* The largest position of a sequence that a slot overwrites.              *)
LEMMA MaxRmBounds ==
    ASSUME NEW c, Agree(c), NEW n \in Nat, NEW idxs \in [1 .. n -> Cells], NEW s \in Seqs
    PROVE  /\ MaxRm(c, idxs, s) \in Positions \cup {-1}
           /\ MaxRm(c, idxs, s) # -1 =>
                 \E i \in Range(idxs) : s \in c.seq[i] /\ c.pos[i] = MaxRm(c, idxs, s)
           /\ \A i \in Range(idxs) : s \in c.seq[i] => c.pos[i] <= MaxRm(c, idxs, s)
  <1> DEFINE J == {j \in Range(idxs) : s \in c.seq[j]}
             ps == {c.pos[i] : i \in J}
  <1>1. J \subseteq Cells
    BY DEF Range
  <1>2. \A i \in J : c.pos[i] \in Positions
    BY <1>1 DEF Agree
  <1>3. MaxRm(c, idxs, s) = IF ps = {} THEN -1 ELSE SetMax(ps)
    BY DEF MaxRm
  <1>4. ps \in SUBSET (0 .. MaxPos)
    BY <1>2 DEF Positions
  <1>5. CASE ps = {}
    BY <1>3, <1>5
  <1>6. CASE ps # {}
    <2>1. SetMax(ps) \in ps /\ \A x \in ps : x <= SetMax(ps)
      <3> HIDE DEF ps
      <3> QED BY <1>4, <1>6, CacheAssumption, SetMaxIn
    <2> QED BY <2>1, <1>2, <1>3, <1>6
  <1> QED BY <1>5, <1>6

(* apply_ubatch() leaves no gap in another sequence: what it takes is a    *)
(* lower part of its positions.                                            *)
LEMMA ApplyOther ==
    ASSUME NEW c, NEW a, NEW n \in Nat \ {0}, NEW idxs \in [1 .. n -> Cells],
           NEW s \in Seqs, NEW p \in Nat, Agree(c), IsInjective(idxs),
           Applied(c, a, Range(idxs), s, p), Tokens(c, a, idxs, n, s, p),
           NEW t \in Seqs, t # s
    PROVE  \A q \in Positions :
              Present(a, t, q) <=> Present(c, t, q) /\ q > MaxRm(c, idxs, t)
  <1> DEFINE M == MaxRm(c, idxs, t)
             R == Range(idxs)
  <1>1. M \in Int
    BY MaxRmBounds, CacheAssumption DEF Positions
  <1>2. ASSUME NEW i \in R PROVE t \notin a.seq[i]
    <2>1. PICK k \in 1 .. n : i = idxs[k]
      BY <1>2 DEF Range
    <2> QED BY <2>1 DEF Tokens
  <1>3. \A i \in R : t \in c.seq[i] => c.pos[i] <= M
    BY MaxRmBounds
  <1>4. \A i \in Cells \ R :
           /\ t \in a.seq[i] <=> t \in c.seq[i] /\ ~(c.pos[i] <= M)
           /\ t \in a.seq[i] => a.pos[i] = c.pos[i]
    <2>1. \A i \in Cells : t \in a.seq[i] => a.pos[i] # -1
      BY DEF Applied, Agree
    <2> QED BY <2>1 DEF Tokens, Applied
  <1> HIDE DEF M, R
  <1>5. Positions \subseteq Int
    BY DEF Positions
  <1>6. R \subseteq Cells
    BY DEF R, Range
  <1>7. ASSUME NEW q \in Positions, Present(a, t, q)
        PROVE  Present(c, t, q) /\ q > M
    <2>1. PICK i \in Cells : t \in a.seq[i] /\ a.pos[i] = q
      BY <1>7 DEF Present
    <2>2. i \in Cells \ R
      BY <2>1, <1>2
    <2>3. t \in c.seq[i] /\ c.pos[i] = q /\ ~(q <= M)
      BY <2>1, <2>2, <1>4
    <2> QED BY <2>3, <1>1, <1>5 DEF Present
  <1>8. ASSUME NEW q \in Positions, Present(c, t, q), q > M
        PROVE  Present(a, t, q)
    <2>1. PICK i \in Cells : t \in c.seq[i] /\ c.pos[i] = q
      BY <1>8 DEF Present
    <2>2. ~(q <= M)
      BY <1>1, <1>5, <1>8
    <2>3. i \in Cells \ R
      BY <2>1, <2>2, <1>3
    <2> QED BY <2>1, <2>2, <2>3, <1>4 DEF Present
  <1> QED BY <1>7, <1>8 DEF M

(* ... and its own sequence has the new positions and an upper part of the *)
(* old ones, if it ended before them.                                      *)
LEMMA ApplyOwn ==
    ASSUME NEW c, NEW a, NEW n \in Nat \ {0}, NEW idxs \in [1 .. n -> Cells],
           NEW s \in Seqs, NEW p \in Nat, Agree(c), IsInjective(idxs),
           Applied(c, a, Range(idxs), s, p), Tokens(c, a, idxs, n, s, p),
           p + n - 1 <= MaxPos,
           \A q \in Positions : Present(c, s, q) => q < p
    PROVE  \A q \in Positions :
              Present(a, s, q) <=> \/ Present(c, s, q) /\ q > MaxRm(c, idxs, s)
                                   \/ q \in p .. p + n - 1
  <1> DEFINE M == MaxRm(c, idxs, s)
             R == Range(idxs)
  <1>0. Positions \subseteq Int /\ R \subseteq Cells
    BY DEF Positions, Range
  <1>1. M \in Int /\ M < p
    <2>1. M = -1 \/ (M \in Positions /\ Present(c, s, M))
      <3>1. M \in Positions \cup {-1}
        BY MaxRmBounds
      <3>2. M # -1 => \E i \in R : s \in c.seq[i] /\ c.pos[i] = M
        BY MaxRmBounds
      <3> HIDE DEF M, R
      <3> QED BY <3>1, <3>2, <1>0 DEF Present
    <2> HIDE DEF M
    <2>2. CASE M = -1
      BY <2>2
    <2>3. CASE M \in Positions /\ Present(c, s, M)
      <3>1. M < p
        BY <2>3
      <3> QED BY <3>1, <2>3, <1>0
    <2> QED BY <2>1, <2>2, <2>3
  <1>2. \A k \in 1 .. n : a.seq[idxs[k]] = {s} /\ a.pos[idxs[k]] = p + k - 1
    <2> SUFFICES ASSUME NEW k \in 1 .. n
                 PROVE  a.seq[idxs[k]] = {s} /\ a.pos[idxs[k]] = p + k - 1
      OBVIOUS
    <2>1. ~(p + k - 1 <= M)
      <3> HIDE DEF M
      <3> QED BY <1>1
    <2> QED BY <2>1 DEF Tokens
  <1>3. \A i \in R : s \in c.seq[i] => c.pos[i] <= M
    BY MaxRmBounds
  <1>4. \A i \in Cells \ R :
           /\ s \in a.seq[i] <=> s \in c.seq[i] /\ ~(c.pos[i] <= M)
           /\ s \in a.seq[i] => a.pos[i] = c.pos[i]
    <2>1. \A i \in Cells : s \in a.seq[i] => a.pos[i] # -1
      BY DEF Applied, Agree
    <2> QED BY <2>1 DEF Tokens, Applied
  <1>5. \A i \in R : \E k \in 1 .. n : i = idxs[k]
    BY DEF Range
  <1>6. \A k \in 1 .. n : idxs[k] \in Cells
    OBVIOUS
  <1> HIDE DEF M, R
  <1>7. ASSUME NEW q \in Positions, Present(a, s, q)
        PROVE  (Present(c, s, q) /\ q > M) \/ q \in p .. p + n - 1
    <2>1. PICK i \in Cells : s \in a.seq[i] /\ a.pos[i] = q
      BY <1>7 DEF Present
    <2>2. CASE i \in R
      <3>1. PICK k \in 1 .. n : i = idxs[k]
        BY <2>2, <1>5
      <3> QED BY <3>1, <2>1, <1>2
    <2>3. CASE i \notin R
      <3>1. s \in c.seq[i] /\ c.pos[i] = q /\ ~(q <= M)
        BY <2>1, <2>3, <1>4
      <3> QED BY <3>1, <1>0, <1>1 DEF Present
    <2> QED BY <2>2, <2>3
  <1>8. ASSUME NEW q \in Positions, Present(c, s, q), q > M
        PROVE  Present(a, s, q)
    <2>1. PICK i \in Cells : s \in c.seq[i] /\ c.pos[i] = q
      BY <1>8 DEF Present
    <2>2. ~(q <= M)
      BY <1>0, <1>1, <1>8
    <2>3. i \in Cells \ R
      BY <2>1, <2>2, <1>3
    <2> QED BY <2>1, <2>2, <2>3, <1>4 DEF Present
  <1>9. ASSUME NEW q \in p .. p + n - 1
        PROVE  Present(a, s, q)
    <2>1. q - p + 1 \in 1 .. n /\ p + (q - p + 1) - 1 = q
      BY <1>9
    <2> QED BY <2>1, <1>2, <1>6 DEF Present
  <1> QED BY <1>7, <1>8, <1>9 DEF M

(* So apply_ubatch() keeps a sequence without a gap, if its own goes on    *)
(* from the last token.                                                    *)
LEMMA ApplyFills ==
    ASSUME NEW c, NEW a, NEW n \in Nat \ {0}, NEW idxs \in [1 .. n -> Cells],
           NEW s \in Seqs, NEW p \in Nat, Agree(c), IsInjective(idxs),
           Applied(c, a, Range(idxs), s, p), Tokens(c, a, idxs, n, s, p),
           p + n - 1 <= MaxPos,
           NEW t \in Seqs, Filled(c, t),
           t = s => SeqPosMax(c, s) \in {-1, p - 1}
    PROVE  Filled(a, t)
  <1> SUFFICES ASSUME NEW x \in Positions, NEW y \in Positions, NEW q \in Positions,
                      Present(a, t, x), Present(a, t, y), x <= q, q <= y
               PROVE  Present(a, t, q)
    BY DEF Filled
  <1> DEFINE M == MaxRm(c, idxs, t)
  <1>0. Positions \subseteq Int /\ M \in Int
    BY MaxRmBounds DEF Positions
  <1> HIDE DEF M
  <1>1. CASE t # s
    <2>1. \A z \in Positions : Present(a, t, z) <=> Present(c, t, z) /\ z > M
      BY <1>1, ApplyOther DEF M
    <2>2. Present(c, t, q)
      BY <2>1 DEF Filled
    <2> QED BY <2>1, <2>2, <1>0
  <1>2. CASE t = s
    <2>1. \A z \in Positions : Present(c, t, z) => z < p /\ p - 1 \in Positions
                                                         /\ Present(c, t, p - 1)
      <3>1. CASE SeqPosMax(c, s) = -1
        BY <3>1, <1>2, PosBounds
      <3>2. CASE SeqPosMax(c, s) = p - 1 /\ SeqPosMax(c, s) # -1
        <4>1. p - 1 \in Positions /\ Present(c, s, p - 1)
          BY <3>2, PosBounds
        <4>2. \A z \in Positions : Present(c, s, z) => z <= p - 1
          BY <3>2, PosBounds
        <4> QED BY <4>1, <4>2, <1>0, <1>2
      <3> QED BY <3>1, <3>2, <1>2
    <2>2. \A z \in Positions :
             Present(a, t, z) <=> \/ Present(c, t, z) /\ z > M
                                  \/ z \in p .. p + n - 1
      BY <2>1, <1>2, ApplyOwn DEF M
    <2>3. CASE q >= p
      <3>1. y \in p .. p + n - 1
        BY <2>1, <2>2, <2>3, <1>0
      <3>2. q \in p .. p + n - 1
        BY <3>1, <2>3, <1>0
      <3> QED BY <3>2, <2>2
    <2>4. CASE q < p
      <3>1. ~(x \in p .. p + n - 1)
        BY <2>4, <1>0
      <3>2. Present(c, t, x) /\ x > M
        BY <3>1, <2>2
      <3>3. p - 1 \in Positions /\ Present(c, t, p - 1) /\ q <= p - 1
        BY <3>2, <2>1, <2>4, <1>0
      <3>4. Present(c, t, q) /\ q > M
        BY <3>2, <3>3, <1>0 DEF Filled
      <3> QED BY <3>4, <2>2
    <2> QED BY <2>3, <2>4, <1>0
  <1> QED BY <1>1, <1>2

(* Removing the end of a sequence, as decode() does when a computation     *)
(* fails, opens no gap.                                                    *)
LEMMA CutFills ==
    ASSUME NEW c, NEW d, NEW s \in Seqs, NEW p \in Nat, Agree(c),
           Removed(c, d, [i \in Cells |->
              IF i \in InRange(c, p, MaxPos + 1) \cap Has(c, s) THEN {s} ELSE {}]),
           NEW t \in Seqs, Filled(c, t)
    PROVE  Filled(d, t)
  <1> DEFINE J == InRange(c, p, MaxPos + 1) \cap Has(c, s)
  <1>0. Positions \subseteq Int
    BY DEF Positions
  <1>1. \A i \in Cells : /\ d.seq[i] = IF i \in J THEN c.seq[i] \ {s} ELSE c.seq[i]
                         /\ d.seq[i] # {} => d.pos[i] = c.pos[i]
    <2>1. Removed(c, d, [i \in Cells |-> IF i \in J THEN {s} ELSE {}])
      OBVIOUS
    <2> HIDE DEF J
    <2>2. \A i \in Cells : /\ d.seq[i] = c.seq[i] \ (IF i \in J THEN {s} ELSE {})
                           /\ d.pos[i] = IF d.seq[i] = {} THEN -1 ELSE c.pos[i]
      BY <2>1 DEF Removed
    <2> QED BY <2>2
  <1>2. \A i \in Cells : t \in c.seq[i] =>
            (i \in J /\ t = s <=> t = s /\ ~(c.pos[i] < p))
    <2> SUFFICES ASSUME NEW i \in Cells, t \in c.seq[i], t = s
                 PROVE  i \in J <=> ~(c.pos[i] < p)
      OBVIOUS
    <2>1. c.pos[i] \in Positions
      BY DEF Agree
    <2> QED BY <2>1, CacheAssumption DEF InRange, Has, Positions
  <1> HIDE DEF J
  <1>3. \A q \in Positions : Present(d, t, q) <=> Present(c, t, q) /\ (t = s => q < p)
    BY <1>1, <1>2 DEF Present
  <1> SUFFICES ASSUME NEW x \in Positions, NEW y \in Positions, NEW q \in Positions,
                      Present(d, t, x), Present(d, t, y), x <= q, q <= y
               PROVE  Present(d, t, q)
    BY DEF Filled
  <1>4. Present(c, t, q)
    BY <1>3 DEF Filled
  <1> QED BY <1>0, <1>3, <1>4

(* While a batch is applied, no sequence without a gap gets one, of a      *)
(* cache of any size and for any window: apply_ubatch() purges enough when *)
(* it reuses cells, and what decode() removes after a failure is the end   *)
(* of a sequence. The new tokens must go on from the last one.             *)
THEOREM AppliedWithoutGap == Spec => AppliesWithoutGap
  <1> DEFINE OneStep ==
               todo # <<>> => \A s \in Seqs :
                 /\ Gapless(cells, s)
                 /\ s = batch.s => SeqPosMax(cells, s) \in {-1, todo[1].p - 1}
                 => Gapless(cells', s)
  <1>1. ASSUME IInv, [Next]_vars PROVE [OneStep]_vars
    <2> SUFFICES ASSUME todo # <<>>, NEW t \in Seqs, Gapless(cells, t),
                        t = batch.s => SeqPosMax(cells, t) \in {-1, todo[1].p - 1},
                        Next
                 PROVE  Gapless(cells', t)
      BY <1>1
    <2> DEFINE u == todo[1]
               n == Len(u.idxs)
               c == Apply(cells, u.idxs, batch.s, u.p)
               J == InRange(c, u.p, MaxPos + 1) \cap Has(c, batch.s)
               d == SeqRmCells(c, J, batch.s)
    <2>1. batch # NoBatch
      BY <1>1 DEF IInv, DecodeOK
    <2>2. Process \/ ProcessFails
      BY <2>1 DEF Next, Clear, SeqRm, RmAny, SeqCp, SeqKeep, SeqAdd, Update, Decode, Prepare
    <2>3. /\ batch.s \in Seqs /\ u.p \in Nat /\ n \in Nat \ {0}
          /\ u.idxs \in [1 .. n -> Cells] /\ IsInjective(u.idxs)
          /\ u.p + n - 1 <= MaxPos
          /\ Applied(cells, c, Range(u.idxs), batch.s, u.p)
          /\ Tokens(cells, c, u.idxs, n, batch.s, u.p)
      BY <1>1, NextSlot
    <2>4. Agree(cells)
      BY <1>1 DEF IInv, StateOK
    <2>5. cells' = c \/ cells' = d
      BY <2>2 DEF Process, ProcessFails
    <2> HIDE DEF c, u, n
    <2>6. Agree(c)
      BY <2>3 DEF Applied
    <2>7. Filled(cells, t) /\ (t = batch.s => SeqPosMax(cells, batch.s) \in {-1, u.p - 1})
      BY <2>4, GaplessFilled DEF u
    <2>8. Filled(c, t)
      BY <2>3, <2>4, <2>7, ApplyFills
    <2>9. Removed(c, d, [i \in Cells |-> IF i \in J THEN {batch.s} ELSE {}])
      <3>1. J \subseteq Has(c, batch.s)
        OBVIOUS
      <3> HIDE DEF J
      <3> QED BY <3>1, <2>3, <2>6, SeqRmRemoves
    <2> HIDE DEF d
    <2>10. Agree(d) /\ Filled(d, t)
      <3>1. Agree(d)
        <4> HIDE DEF J
        <4> QED BY <2>6, <2>9, RemovedAgrees
      <3> QED BY <3>1, <2>3, <2>6, <2>8, <2>9, CutFills
    <2> QED BY <2>5, <2>6, <2>8, <2>10, GaplessFilled
  <1>2. IInv /\ [Next]_vars => [OneStep]_vars
    BY <1>1
  <1> QED BY <1>2, IInvHolds, PTL DEF Spec, AppliesWithoutGap

-----------------------------------------------------------------------------
(* What prepare() puts back.                                               *)

(* LastPos, for any cells and batch; a token of sequence s that is in the  *)
(* window then; and cells x that have all of these tokens.                 *)
LastIn(c, b, s) == IF s = b.s THEN b.p + b.n - 1 ELSE SeqPosMax(c, s) + 1
Live(c, b, i, s) == s \in c.seq[i] /\ ~IsMaskedSwa(c.pos[i], LastIn(c, b, s))
Holds(c, b, x) ==
    \A i \in Cells, s \in Seqs :
        Live(c, b, i, s) => s \in x.seq[i] /\ x.pos[i] = c.pos[i]

(* Cell i of x has nothing that it does not have in c.                     *)
Sub(c, x, i) == x.seq[i] \subseteq c.seq[i] /\ (x.seq[i] # {} => x.pos[i] = c.pos[i])

InSlot(g, n, i) == \E j \in 1 .. n : i \in Range(g.slots[j].idxs)

(* What prepare() has after k micro-batches, when the cells were c: only   *)
(* cells of the slots have new tokens, those of the batch; the cells it    *)
(* remembers for a slot have new tokens in earlier slots only; what is in  *)
(* the window at the end of the batch is everywhere.                       *)
Trail(c, b, g, k) ==
    /\ \A i \in Cells :
          Sub(c, g.c, i) \/ (InSlot(g, Len(g.slots), i) /\ g.c.seq[i] \subseteq {b.s})
    /\ Holds(c, b, g.c)
    /\ \A j \in 1 .. Len(g.slots) :
          /\ Holds(c, b, g.old[j])
          /\ \A i \in Cells : Sub(c, g.old[j], i) \/ InSlot(g, j - 1, i)
    /\ \A q \in Positions : Present(g.c, b.s, q) => q < b.p + k * NUbatch

(* A slot overwrites only what is older than any token that is in the      *)
(* window at the end of the batch.                                         *)
LEMMA OverwritesOlder ==
    ASSUME n_swa \in Nat, NEW c, Agree(c), NEW b \in Batches,
           NEW k \in 1 .. NParts(b.n), NEW g, Agree(g.c), Trail(c, b, g, k - 1),
           NEW n \in Nat, NEW idxs \in [1 .. n -> Cells],
           \A l \in 1 .. n : CanUse(g.c, idxs[l]),
           NEW i \in Cells, NEW s \in Seqs, Live(c, b, i, s)
    PROVE  MaxRm(g.c, idxs, s) \in Int /\ MaxRm(g.c, idxs, s) < c.pos[i]
  <1> DEFINE M == MaxRm(g.c, idxs, s)
             T == SeqPosMax(g.c, s)
             B == LastIn(c, b, s)
  <1>0. /\ Positions \subseteq Int /\ \A q \in Positions : q >= 0
        /\ b.s \in Seqs /\ b.n \in Nat \ {0} /\ b.p \in Nat
    BY DEF Positions, Batches
  <1>1. c.pos[i] \in Positions
    BY DEF Live, Agree
  <1>2. M \in Positions \cup {-1}
    BY MaxRmBounds
  <1>3. CASE M = -1
    <2> HIDE DEF M
    <2>0. c.pos[i] \in Int /\ c.pos[i] >= 0
      BY <1>0, <1>1
    <2>1. -1 < c.pos[i]
      BY <2>0
    <2> QED BY <2>1, <1>3 DEF M
  <1>4. CASE M # -1
    <2>1. PICK j \in Range(idxs) : s \in g.c.seq[j] /\ g.c.pos[j] = M
      BY <1>4, MaxRmBounds
    <2>2. j \in Cells /\ CanUse(g.c, j)
      BY DEF Range
    <2> HIDE DEF M
    <2>3. IsMaskedSwa(M, T + 1)
      BY <2>1, <2>2, <1>4 DEF CanUse
    <2>4. M \in Positions /\ Present(g.c, s, M)
      BY <2>1, <2>2, <1>2, <1>4 DEF Present
    <2>5. T \in Positions /\ Present(g.c, s, T)
      BY <2>4, PosBounds
    <2> HIDE DEF T
    <2>6. B \in Int /\ T + 1 <= B
      <3>1. CASE s = b.s
        <4>1. T < b.p + (k - 1) * NUbatch
          BY <2>5, <3>1 DEF Trail
        <4>2. /\ PartLen(b.n, k) \in Nat \ {0} /\ (k - 1) * NUbatch \in Nat
              /\ (k - 1) * NUbatch + PartLen(b.n, k) <= b.n
          BY <1>0, Parts
        <4> DEFINE v == (k - 1) * NUbatch
                   w == PartLen(b.n, k)
        <4> HIDE DEF v, w
        <4>3. T < b.p + v /\ v \in Nat /\ w \in Nat \ {0} /\ v + w <= b.n
          BY <4>1, <4>2 DEF v, w
        <4>4. B = b.p + b.n - 1
          BY <3>1 DEF LastIn
        <4> QED BY <4>3, <4>4, <2>5, <1>0
      <3>2. CASE s # b.s
        <4>1. PICK l \in Cells : s \in g.c.seq[l] /\ g.c.pos[l] = T
          BY <2>5 DEF Present
        <4>2. Sub(c, g.c, l)
          BY <4>1, <3>2 DEF Trail
        <4>3. Present(c, s, T)
          BY <4>1, <4>2 DEF Sub, Present
        <4>4. T <= SeqPosMax(c, s)
          BY <4>3, <2>5, PosBounds
        <4>5. SeqPosMax(c, s) \in Int /\ B = SeqPosMax(c, s) + 1
          BY <3>2, <1>0, SeqPosMaxType DEF LastIn
        <4> QED BY <4>4, <4>5, <2>5, <1>0
      <3> QED BY <3>1, <3>2
    <2>7. ~IsMaskedSwa(c.pos[i], B)
      BY DEF Live
    <2> HIDE DEF B
    <2>8. M < c.pos[i]
      <3>1. c.pos[i] \in Int /\ M \in Int /\ T \in Int
        BY <1>0, <1>1, <2>4, <2>5
      <3>2. T + 1 - M >= n_swa /\ B - c.pos[i] < n_swa
        BY <2>3, <2>6, <2>7, <3>1 DEF IsMaskedSwa
      <3> QED BY <3>1, <3>2, <2>6
    <2> QED BY <2>4, <2>8, <1>0 DEF M
  <1> QED BY <1>3, <1>4

(* A micro-batch more leaves such a trail.                                 *)
LEMMA PlaceStepTrail ==
    ASSUME n_swa \in Nat, NEW c, Agree(c), NEW b \in Batches,
           NEW k \in 1 .. NParts(b.n),
           NEW g \in Placements(c), Trail(c, b, g, k - 1)
    PROVE  Trail(c, b, PlaceStep(b, g, k), k)
  <1> DEFINE n == PartLen(b.n, k)
             idxs == FindSlot(g.c, g.h, n)
             p == b.p + (k - 1) * NUbatch
             a == Apply(g.c, idxs, b.s, p)
             u == [idxs |-> idxs, p |-> p]
             e == [c |-> a, h |-> idxs[Len(idxs)] + 1, ok |-> TRUE,
                   slots |-> Append(g.slots, u), old |-> Append(g.old, g.c)]
             L == Len(g.slots)
             S == Append(g.slots, u)
             O == Append(g.old, g.c)
  <1>0. /\ g.slots \in Seq(SlotRecs) /\ g.old \in Seq(CellRecs) /\ g.c \in CellRecs
        /\ g.h \in 0 .. NCells /\ L \in Nat /\ Len(g.old) = L
        /\ Agree(g.c)
        /\ g \in [c : CellRecs, h : 0 .. NCells, ok : BOOLEAN,
                  slots : Seq(SlotRecs), old : Seq(CellRecs)]
    BY LenProperties DEF Placements
  <1>1. /\ b.n \in Nat \ {0} /\ b.s \in Seqs /\ b.p \in Nat /\ b.p + b.n - 1 <= MaxPos
        /\ Positions \subseteq Int
    BY DEF Batches, Positions
  <1>2. /\ n \in Nat \ {0} /\ p \in Nat /\ p + n - 1 <= MaxPos
        /\ p + n <= b.p + k * NUbatch /\ k * NUbatch \in Int
        /\ b.p + (k - 1) * NUbatch <= b.p + k * NUbatch
        /\ p = b.p + (k - 1) * NUbatch
    <2>1. /\ n \in Nat \ {0} /\ (k - 1) * NUbatch \in Nat
          /\ (k - 1) * NUbatch + n <= b.n
      BY <1>1, Parts
    <2>2. NUbatch \in Nat \ {0} /\ k \in Nat \ {0}
      BY CacheAssumption
    <2>3. (k - 1) * NUbatch + NUbatch = k * NUbatch /\ k * NUbatch \in Int
      BY <2>2
    <2>4. n <= NUbatch
      BY <2>2, <2>3, <1>1 DEF PartLen
    <2> DEFINE v == (k - 1) * NUbatch
               w == k * NUbatch
    <2>5. v \in Nat /\ w \in Int /\ v + NUbatch = w /\ v + n <= b.n
      BY <2>1, <2>3
    <2> HIDE DEF v, w, n
    <2>6. /\ b.p + v \in Nat /\ b.p + v + n - 1 <= MaxPos /\ b.p + v + n <= b.p + w
          /\ b.p + v <= b.p + w
      BY <2>1, <2>2, <2>4, <2>5, <1>1, CacheAssumption
    <2> QED BY <2>1, <2>5, <2>6 DEF v, w
  <1> HIDE DEF n, p, L
  <1>3. CASE ~g.ok \/ idxs = <<>>
    <2>1. PlaceStep(b, g, k) = [g EXCEPT !.ok = FALSE]
      BY <1>3 DEF PlaceStep, n
    <2> DEFINE f == [g EXCEPT !.ok = FALSE]
    <2>2. f.c = g.c /\ f.slots = g.slots /\ f.old = g.old
      BY <1>0
    <2> HIDE DEF f
    <2>3. \A q \in Positions : Present(g.c, b.s, q) => q < b.p + k * NUbatch
      <3>1. \A q \in Positions : Present(g.c, b.s, q) => q < b.p + (k - 1) * NUbatch
        BY DEF Trail
      <3> DEFINE v == b.p + (k - 1) * NUbatch
                 w == b.p + k * NUbatch
      <3>2. v \in Int /\ w \in Int /\ v <= w
        BY <1>1, <1>2
      <3> HIDE DEF v, w
      <3>3. \A q \in Positions : Present(g.c, b.s, q) => q < v
        BY <3>1 DEF v
      <3>4. \A q \in Positions : Present(g.c, b.s, q) => q < w
        BY <3>2, <3>3, <1>1
      <3> QED BY <3>4 DEF w
    <2>4. \A m, i : InSlot(f, m, i) <=> InSlot(g, m, i)
      BY <2>2 DEF InSlot
    <2>5. Trail(c, b, f, k)
      BY <2>2, <2>3, <2>4 DEF Trail
    <2> QED BY <2>1, <2>5 DEF f
  <1>4. CASE g.ok /\ idxs # <<>>
    <2>1. PlaceStep(b, g, k) = e
      BY <1>4 DEF PlaceStep, n, p
    <2>2. /\ idxs \in [1 .. n -> Cells] /\ IsInjective(idxs)
          /\ \A l \in 1 .. n : CanUse(g.c, idxs[l])
      BY <1>0, <1>2, <1>4, FindSlotCells
    <2> HIDE DEF idxs
    <2>3. /\ Applied(g.c, a, Range(idxs), b.s, p)
          /\ Tokens(g.c, a, idxs, n, b.s, p)
      BY <1>0, <1>1, <1>2, <2>2, ApplyAgrees
    <2> HIDE DEF a
    <2>4. Range(idxs) \subseteq Cells
      BY <2>2 DEF Range
    <2>5. u \in SlotRecs /\ u.idxs = idxs
      <3>1. idxs \in Seq(Cells) /\ Len(idxs) = n /\ idxs # <<>>
        BY <1>2, <1>4, <2>2
      <3> QED BY <1>2, <2>2, <3>1 DEF SlotRecs
    <2> HIDE DEF u
    <2>6. /\ Len(S) = L + 1 /\ S[L + 1] = u
          /\ \A j \in 1 .. L : S[j] = g.slots[j]
      BY <2>5, <1>0, AppendProperties DEF L
    <2>7. /\ O[L + 1] = g.c
          /\ \A j \in 1 .. L : O[j] = g.old[j]
      BY <1>0, AppendProperties
    <2>8. e.c = a /\ e.slots = S /\ e.old = O
      OBVIOUS
    <2> HIDE DEF e, S, O
    <2>9. \A m \in 0 .. L, i \in Cells : InSlot(g, m, i) => InSlot(e, m, i)
      <3> SUFFICES ASSUME NEW m \in 0 .. L, NEW i \in Cells, InSlot(g, m, i)
                   PROVE  InSlot(e, m, i)
        OBVIOUS
      <3>1. PICK j \in 1 .. m : i \in Range(g.slots[j].idxs)
        BY DEF InSlot
      <3>2. e.slots[j] = g.slots[j]
        BY <2>6, <2>8, <1>0
      <3> QED BY <3>1, <3>2 DEF InSlot
    <2>10. \A i \in Cells : /\ InSlot(e, L, i) => InSlot(e, L + 1, i)
                            /\ i \in Range(idxs) => InSlot(e, L + 1, i)
      BY <2>5, <2>6, <2>8, <1>0 DEF InSlot
    <2>11. \A i \in Cells \ Range(idxs) :
              a.seq[i] \subseteq g.c.seq[i] /\ (a.seq[i] # {} => a.pos[i] = g.c.pos[i])
      <3>1. \A i \in Cells : a.seq[i] # {} => a.pos[i] # -1
        BY <2>3 DEF Applied, Agree
      <3> QED BY <3>1, <2>3 DEF Tokens, Applied
    <2>12. \A i \in Range(idxs) : a.seq[i] \subseteq {b.s}
      BY <2>3, <2>4 DEF Applied, Agree
    <2>13. \A i \in Cells :
              Sub(c, a, i) \/ (InSlot(e, L + 1, i) /\ a.seq[i] \subseteq {b.s})
      <3> SUFFICES ASSUME NEW i \in Cells
                   PROVE  Sub(c, a, i) \/ (InSlot(e, L + 1, i) /\ a.seq[i] \subseteq {b.s})
        OBVIOUS
      <3>1. CASE i \in Range(idxs)
        BY <3>1, <2>10, <2>12
      <3>2. CASE i \notin Range(idxs)
        <4>1. a.seq[i] \subseteq g.c.seq[i] /\ (a.seq[i] # {} => a.pos[i] = g.c.pos[i])
          BY <3>2, <2>11
        <4>2. CASE Sub(c, g.c, i)
          BY <4>1, <4>2 DEF Sub
        <4>3. CASE InSlot(g, L, i) /\ g.c.seq[i] \subseteq {b.s}
          <5>1. InSlot(e, L + 1, i)
            BY <4>3, <2>9, <2>10, <1>0
          <5> QED BY <5>1, <4>1, <4>3
        <4> QED BY <4>2, <4>3 DEF Trail, L
      <3> QED BY <3>1, <3>2
    <2>14. Holds(c, b, a)
      <3> SUFFICES ASSUME NEW i \in Cells, NEW s \in Seqs, Live(c, b, i, s)
                   PROVE  s \in a.seq[i] /\ a.pos[i] = c.pos[i]
        BY DEF Holds
      <3>1. s \in g.c.seq[i] /\ g.c.pos[i] = c.pos[i]
        BY DEF Trail, Holds
      <3>2. MaxRm(g.c, idxs, s) \in Int /\ MaxRm(g.c, idxs, s) < c.pos[i]
        BY <1>0, <1>2, <2>2, OverwritesOlder
      <3>3. ~(c.pos[i] <= MaxRm(g.c, idxs, s))
        <4>1. c.pos[i] \in Int
          BY DEF Agree, CellRecs
        <4> QED BY <4>1, <3>2
      <3>4. i \notin Range(idxs)
        <4>1. i \in Range(idxs) => g.c.pos[i] <= MaxRm(g.c, idxs, s)
          BY <3>1, <1>0, <1>2, <2>2, MaxRmBounds
        <4> QED BY <4>1, <3>1, <3>3
      <3>5. s \in a.seq[i]
        BY <3>1, <3>3, <3>4, <2>3 DEF Tokens
      <3> QED BY <3>1, <3>4, <3>5, <2>11
    <2>15. \A j \in 1 .. L + 1 :
              /\ Holds(c, b, O[j])
              /\ \A i \in Cells : Sub(c, O[j], i) \/ InSlot(e, j - 1, i)
      <3> SUFFICES ASSUME NEW j \in 1 .. L + 1
                   PROVE  /\ Holds(c, b, O[j])
                          /\ \A i \in Cells : Sub(c, O[j], i) \/ InSlot(e, j - 1, i)
        OBVIOUS
      <3>1. CASE j = L + 1
        <4>1. O[j] = g.c /\ j - 1 = L /\ L \in 0 .. L
          BY <3>1, <2>7, <1>0
        <4>2. /\ Holds(c, b, g.c)
              /\ \A i \in Cells : Sub(c, g.c, i) \/ InSlot(g, L, i)
          BY DEF Trail, L
        <4> QED BY <4>1, <4>2, <2>9
      <3>2. CASE j # L + 1
        <4>1. j \in 1 .. L /\ j - 1 \in 0 .. L
          BY <3>2, <1>0
        <4>2. O[j] = g.old[j]
          BY <4>1, <2>7
        <4>3. /\ Holds(c, b, g.old[j])
              /\ \A i \in Cells : Sub(c, g.old[j], i) \/ InSlot(g, j - 1, i)
          BY <4>1 DEF Trail, L
        <4> QED BY <4>1, <4>2, <4>3, <2>9
      <3> QED BY <3>1, <3>2
    <2>16. \A q \in Positions : Present(a, b.s, q) => q < b.p + k * NUbatch
      <3> DEFINE w == b.p + k * NUbatch
      <3>1. w \in Int /\ p + n <= w
        BY <1>1, <1>2
      <3> HIDE DEF w
      <3>2. \A q \in Positions : Present(g.c, b.s, q) => q < p
        BY DEF Trail, p
      <3>3. \A q \in Positions :
               Present(a, b.s, q) => Present(g.c, b.s, q) \/ q \in p .. p + n - 1
        <4>0. /\ n \in Nat \ {0} /\ idxs \in [1 .. n -> Cells] /\ b.s \in Seqs /\ p \in Nat
              /\ Agree(g.c) /\ IsInjective(idxs) /\ p + n - 1 <= MaxPos
              /\ Applied(g.c, a, Range(idxs), b.s, p) /\ Tokens(g.c, a, idxs, n, b.s, p)
          BY <2>2, <2>3, <1>0, <1>1, <1>2
        <4>1. \A q \in Positions :
                 Present(a, b.s, q) <=> \/ Present(g.c, b.s, q) /\ q > MaxRm(g.c, idxs, b.s)
                                        \/ q \in p .. p + n - 1
          BY <4>0, <3>2, ApplyOwn
        <4> QED BY <4>1
      <3>4. \A q \in Positions : Present(a, b.s, q) => q < w
        BY <3>1, <3>2, <3>3, <1>1, <1>2
      <3> QED BY <3>4 DEF w
    <2>17. Trail(c, b, e, k)
      BY <2>6, <2>8, <2>13, <2>14, <2>15, <2>16 DEF Trail
    <2> QED BY <2>1, <2>17
  <1> QED BY <1>3, <1>4

(* So does placing all of them, when the batch goes on from the end.       *)
LEMMA PlacedTrail ==
    ASSUME n_swa \in Nat, NEW c, Agree(c), NEW h \in 0 .. NCells, NEW b \in Batches,
           \A q \in Positions : Present(c, b.s, q) => q < b.p
    PROVE  Trail(c, b, Placed(c, h, b), NParts(b.n))
  <1> DEFINE N == NParts(b.n)
             z == [c |-> c, h |-> h, ok |-> TRUE, slots |-> <<>>, old |-> <<>>]
  <1>1. PICK f : /\ Placed(c, h, b) = f[N] /\ f[0] = z
                 /\ \A k \in 1 .. N : f[k] = PlaceStep(b, f[k - 1], k)
                 /\ \A k \in 0 .. N : f[k] \in Placements(c)
    BY PlacedUnfolds
  <1>2. N \in Nat
    <2>1. b.n \in Nat
      BY DEF Batches
    <2> QED BY <2>1, CacheAssumption DEF NParts
  <1>3. Trail(c, b, z, 0)
    <2>1. z.c = c /\ z.slots = <<>> /\ z.old = <<>> /\ Len(z.slots) = 0
      OBVIOUS
    <2> HIDE DEF z
    <2>2. b.p + 0 * NUbatch = b.p
      BY CacheAssumption DEF Batches
    <2>3. \A i \in Cells : Sub(c, c, i)
      BY DEF Sub
    <2>4. Holds(c, b, c)
      BY DEF Holds, Live
    <2>5. ~ \E j \in 1 .. 0 : TRUE
      OBVIOUS
    <2> QED BY <2>1, <2>2, <2>3, <2>4, <2>5 DEF Trail
  <1> DEFINE S == {k \in 0 .. N : Trail(c, b, f[k], k)}
  <1>4. 0 \in S
    <2> HIDE DEF z, N
    <2> QED BY <1>1, <1>2, <1>3
  <1>5. ASSUME NEW k \in 1 .. N, k - 1 \in S PROVE k \in S
    <2>1. f[k - 1] \in Placements(c) /\ Trail(c, b, f[k - 1], k - 1) /\ k \in 0 .. N
      <3> HIDE DEF N
      <3> QED BY <1>1, <1>2, <1>5
    <2>2. Trail(c, b, PlaceStep(b, f[k - 1], k), k)
      BY <2>1, PlaceStepTrail
    <2>3. f[k] = PlaceStep(b, f[k - 1], k)
      BY <1>1
    <2> QED BY <2>1, <2>2, <2>3
  <1> HIDE DEF S, N
  <1>6. \A k \in 0 .. N : k \in S
    BY <1>2, <1>4, <1>5, UptoInduction
  <1>7. Trail(c, b, f[N], N)
    BY <1>2, <1>6 DEF S
  <1> QED BY <1>1, <1>7 DEF N

(* What is left when the slots beyond the first n are taken back.          *)
BackTrail(c, b, g, r, n) ==
    Holds(c, b, r) /\ \A i \in Cells : Sub(c, r, i) \/ InSlot(g, n, i)

(* A slot less, taken back.                                                *)
LEMMA BackStepTrail ==
    ASSUME NEW c, NEW b, NEW g \in Placements(c), NEW k \in 1 .. Len(g.slots),
           NEW K, Trail(c, b, g, K),
           NEW r \in PartlyBack(c, g, Len(g.slots) - (k - 1)),
           BackTrail(c, b, g, r, Len(g.slots) - (k - 1))
    PROVE  BackTrail(c, b, g, BackStep(g, r, k), Len(g.slots) - k)
  <1> DEFINE L == Len(g.slots)
             j == L - k + 1
             R == Range(g.slots[j].idxs)
             e == Restore(r, g.slots[j].idxs, g.old[j])
  <1>1. L \in Nat /\ g.slots \in Seq(SlotRecs)
    BY LenProperties DEF Placements
  <1>2. j \in 1 .. L /\ L - (k - 1) = j /\ L - k = j - 1
    BY <1>1
  <1>3. R \subseteq Cells
    <2>1. g.slots[j] \in SlotRecs
      BY <1>1, <1>2
    <2>2. g.slots[j].idxs \in Seq(Cells)
      BY <2>1 DEF SlotRecs
    <2> QED BY <2>2 DEF Range
  <1>4. /\ Agree(g.old[j]) /\ Agree(r)
        /\ \A i \in R : r.shift[i] = 0
    BY <1>2 DEF Placements, PartlyBack
  <1>5. /\ Holds(c, b, g.old[j])
        /\ \A i \in Cells : Sub(c, g.old[j], i) \/ InSlot(g, j - 1, i)
    BY <1>2 DEF Trail
  <1>6. /\ Holds(c, b, r)
        /\ \A i \in Cells : Sub(c, r, i) \/ InSlot(g, j, i)
    BY <1>2 DEF BackTrail
  <1>7. BackStep(g, r, k) = e
    BY DEF BackStep
  <1> HIDE DEF j, L
  <1>8. \A i \in Cells : /\ e.pos[i] = IF i \in R THEN g.old[j].pos[i] ELSE r.pos[i]
                         /\ e.seq[i] = IF i \in R THEN g.old[j].seq[i] ELSE r.seq[i]
    BY <1>3, <1>4, RestoreAgrees
  <1> HIDE DEF e
  <1>9. Holds(c, b, e)
    BY <1>5, <1>6, <1>8 DEF Holds
  <1>10. ASSUME NEW i \in Cells PROVE Sub(c, e, i) \/ InSlot(g, j - 1, i)
    <2>1. CASE i \in R
      <3>1. Sub(c, g.old[j], i) => Sub(c, e, i)
        BY <2>1, <1>8 DEF Sub
      <3> QED BY <3>1, <1>5
    <2>2. CASE i \notin R
      <3>1. Sub(c, r, i) => Sub(c, e, i)
        BY <2>2, <1>8 DEF Sub
      <3>2. InSlot(g, j, i) => InSlot(g, j - 1, i)
        <4> SUFFICES ASSUME NEW m \in 1 .. j, i \in Range(g.slots[m].idxs)
                     PROVE  InSlot(g, j - 1, i)
          BY DEF InSlot
        <4>1. m # j
          BY <2>2
        <4>2. m \in 1 .. j - 1
          BY <4>1, <1>1, <1>2
        <4> QED BY <4>2 DEF InSlot
      <3> QED BY <3>1, <3>2, <1>6
    <2> QED BY <2>1, <2>2
  <1>11. BackTrail(c, b, g, e, j - 1)
    BY <1>9, <1>10 DEF BackTrail
  <1> QED BY <1>2, <1>7, <1>11 DEF L

(* prepare() as a whole.                                                   *)
LEMMA PreparedCells ==
    ASSUME n_swa \in Nat, NEW c, Agree(c), NEW h \in 0 .. NCells, NEW b \in Batches,
           \A q \in Positions : Present(c, b.s, q) => q < b.p
    PROVE  LET r == TakenBack(Placed(c, h, b))
           IN  Holds(c, b, r) /\ \A i \in Cells : Sub(c, r, i)
  <1> DEFINE g == Placed(c, h, b)
             N == Len(g.slots)
             K == NParts(b.n)
  <1>1. g \in Placements(c)
    BY PlacedKeeps
  <1>2. Trail(c, b, g, K)
    BY PlacedTrail
  <1> HIDE DEF g, K
  <1>3. PICK f : /\ TakenBack(g) = f[N] /\ f[0] = g.c
                 /\ \A k \in 1 .. N : f[k] = BackStep(g, f[k - 1], k)
                 /\ \A k \in 0 .. N : f[k] \in PartlyBack(c, g, N - k)
    BY <1>1, TakenBackUnfolds
  <1>4. N \in Nat
    BY <1>1, LenProperties DEF Placements
  <1> DEFINE S == {k \in 0 .. N : BackTrail(c, b, g, f[k], N - k)}
  <1>5. 0 \in S
    <2>1. BackTrail(c, b, g, g.c, N)
      BY <1>2 DEF Trail, BackTrail
    <2> HIDE DEF N
    <2>2. N - 0 = N /\ 0 \in 0 .. N
      BY <1>4
    <2> QED BY <2>1, <2>2, <1>3
  <1>6. ASSUME NEW k \in 1 .. N, k - 1 \in S PROVE k \in S
    <2>1. /\ f[k - 1] \in PartlyBack(c, g, N - (k - 1))
          /\ BackTrail(c, b, g, f[k - 1], N - (k - 1))
          /\ k \in 0 .. N
      <3> HIDE DEF N
      <3>1. k - 1 \in 0 .. N /\ k \in 0 .. N
        BY <1>4
      <3> QED BY <3>1, <1>3, <1>6
    <2>2. BackTrail(c, b, g, BackStep(g, f[k - 1], k), N - k)
      BY <2>1, <1>1, <1>2, BackStepTrail
    <2>3. f[k] = BackStep(g, f[k - 1], k)
      BY <1>3
    <2> QED BY <2>1, <2>2, <2>3
  <1> HIDE DEF S, N
  <1>7. \A k \in 0 .. N : k \in S
    BY <1>4, <1>5, <1>6, UptoInduction
  <1>8. BackTrail(c, b, g, f[N], 0)
    <2>1. N \in 0 .. N /\ N - N = 0
      BY <1>4
    <2>2. BackTrail(c, b, g, f[N], N - N)
      BY <2>1, <1>7 DEF S
    <2> QED BY <2>1, <2>2
  <1>9. \A i : ~InSlot(g, 0, i)
    BY DEF InSlot
  <1> QED BY <1>3, <1>8, <1>9 DEF BackTrail, g

(* A batch that has no slots yet goes on from the end of its sequence,     *)
(* also when prepare() is tried once more.                                 *)
AheadInv ==
    batch # NoBatch /\ todo = <<>> =>
        \A q \in Positions : Present(cells, batch.s, q) => q < batch.p

(* K-shifts change neither positions nor sequences.                        *)
LEMMA ShiftStays ==
    ASSUME NEW c, Agree(c), Shift(c)
    PROVE  cells'.pos = c.pos /\ cells'.seq = c.seq
  BY DEF Shift, Agree, CellRecs

(* prepare(), with the K-shift that may follow, as a step of decode().     *)
LEMMA PrepareStays ==
    ASSUME IInv, AheadInv, Prepare
    PROVE  /\ Holds(cells, batch, cells')
           /\ \A i \in Cells : Sub(cells, cells', i)
  <1> DEFINE c == TakenBack(Placed(cells, head, batch))
  <1>1. /\ Agree(cells) /\ head \in 0 .. NCells /\ batch \in Batches
        /\ n_swa \in Nat
        /\ \A q \in Positions : Present(cells, batch.s, q) => q < batch.p
    BY CacheAssumption DEF IInv, StateOK, DecodeOK, AheadInv, Prepare
  <1>2. Holds(cells, batch, c) /\ \A i \in Cells : Sub(cells, c, i)
    BY <1>1, PreparedCells
  <1>3. Agree(c)
    <2>1. Placed(cells, head, batch) \in Placements(cells)
      BY <1>1, PlacedKeeps
    <2> QED BY <2>1, TakenBackKeeps DEF Kept
  <1>4. cells' = c \/ Shift(c)
    BY DEF Prepare
  <1> HIDE DEF c
  <1>5. cells'.pos = c.pos /\ cells'.seq = c.seq
    BY <1>3, <1>4, ShiftStays
  <1> QED BY <1>2, <1>5 DEF Holds, Sub

(* AheadInv is an invariant.                                               *)
LEMMA AheadHolds == Spec => []AheadInv
  <1>1. Init => AheadInv
    BY DEF Init, AheadInv
  <1>2. ASSUME IInv, AheadInv, [Next]_vars PROVE AheadInv'
    <2> SUFFICES ASSUME batch' # NoBatch, todo' = <<>>,
                        NEW q \in Positions, Present(cells', batch'.s, q)
                 PROVE  q < batch'.p
      BY DEF AheadInv
    <2>1. CASE UNCHANGED vars
      BY <2>1, <1>2 DEF vars, AheadInv
    <2>2. CASE \E s \in Seqs, n \in 1 .. MaxBatch : Decode(s, n)
      <3>1. PICK s \in Seqs, n \in 1 .. MaxBatch : Decode(s, n)
        BY <2>2
      <3>2. /\ Agree(cells) /\ Shift(cells)
            /\ batch'.s = s /\ batch'.p = SeqPosMax(cells, s) + 1
        BY <3>1, <1>2 DEF Decode, IInv, StateOK
      <3>3. Present(cells, s, q)
        BY <3>2, ShiftStays DEF Present
      <3>4. q <= SeqPosMax(cells, s) /\ SeqPosMax(cells, s) \in Int /\ q \in Int
        BY <3>2, <3>3, PosBounds, SeqPosMaxType DEF Positions
      <3> QED BY <3>2, <3>4
    <2>3. CASE Prepare
      <3>1. \A i \in Cells : Sub(cells, cells', i)
        BY <2>3, <1>2, PrepareStays
      <3>2. batch \in Batches /\ batch # NoBatch /\ todo = <<>>
        BY <2>3, <1>2 DEF Prepare, IInv, DecodeOK
      <3>3. batch' = batch \/ batch' = [batch EXCEPT !.did_optimize = TRUE]
        BY <2>3 DEF Prepare
      <3>4. batch'.s = batch.s /\ batch'.p = batch.p
        BY <3>2, <3>3 DEF Batches
      <3>5. Present(cells, batch.s, q)
        BY <3>1, <3>4 DEF Sub, Present
      <3> QED BY <3>2, <3>4, <3>5, <1>2 DEF AheadInv
    <2>4. CASE Process
      BY <2>4 DEF Process
    <2>5. CASE ProcessFails
      BY <2>5 DEF ProcessFails
    <2>6. CASE \/ Clear
               \/ \E s \in Seqs, r \in Ranges : SeqRm(s, r[1], r[2])
               \/ \E r \in Ranges : RmAny(r[1], r[2])
               \/ \E s, d \in Seqs, r \in Ranges : SeqCp(s, d, r[1], r[2])
               \/ \E s \in Seqs : SeqKeep(s)
               \/ \E s \in Seqs, r \in Ranges, d \in Deltas : SeqAdd(s, r[1], r[2], d)
      <3>1. batch' = NoBatch
        BY <2>6 DEF Clear, SeqRm, RmAny, SeqCp, SeqKeep, SeqAdd, Update
      <3> QED BY <3>1
    <2> QED BY <2>1, <2>2, <2>3, <2>4, <2>5, <2>6, <1>2 DEF Next
  <1>3. IInv /\ AheadInv /\ [Next]_vars => AheadInv'
    BY <1>2
  <1> QED BY <1>1, <1>3, IInvHolds, PTL DEF Spec

(* Looking for room costs nothing that is in the window at the end of the  *)
(* batch, for a cache of any size, any window and any length of a batch    *)
(* and its micro-batches: prepare() leaves no token of its trial behind,   *)
(* and what it purges and does not put back is older than that.            *)
THEOREM PreparedIsRestored == Spec => PrepareRestores
  <1> DEFINE OneStep ==
               batch # NoBatch /\ todo = <<>> =>
                 \A i \in Cells, s \in Seqs :
                    /\ s \in cells'.seq[i]
                         => s \in cells.seq[i] /\ cells'.pos[i] = cells.pos[i]
                    /\ s \in cells.seq[i] /\ ~IsMaskedSwa(cells.pos[i], LastPos(s))
                         => s \in cells'.seq[i] /\ cells'.pos[i] = cells.pos[i]
  <1>1. ASSUME IInv, AheadInv, [Next]_vars PROVE [OneStep]_vars
    <2> SUFFICES ASSUME Next, batch # NoBatch, todo = <<>> PROVE OneStep
      BY <1>1
    <2>1. Prepare
      BY DEF Next, Clear, SeqRm, RmAny, SeqCp, SeqKeep, SeqAdd, Update, Decode,
             Process, ProcessFails
    <2>2. /\ Holds(cells, batch, cells')
          /\ \A i \in Cells : Sub(cells, cells', i)
      BY <2>1, <1>1, PrepareStays
    <2>3. \A s : LastPos(s) = LastIn(cells, batch, s)
      BY DEF LastPos, LastIn
    <2> QED BY <2>2, <2>3 DEF Holds, Live, Sub
  <1>2. IInv /\ AheadInv /\ [Next]_vars => [OneStep]_vars
    BY <1>1
  <1> QED BY <1>2, IInvHolds, AheadHolds, PTL DEF Spec, PrepareRestores
=============================================================================
