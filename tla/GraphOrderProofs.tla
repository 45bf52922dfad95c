-------------------------- MODULE GraphOrderProofs --------------------------
(***************************************************************************)
(* The pool implements NodeOrder: for any number of threads, any graph and *)
(* any shape of the product, nodes are computed in the order of the graph  *)
(* and every element once, however the product is cut into chunks.         *)
(***************************************************************************)
EXTENDS GraphComputeProofs

-----------------------------------------------------------------------------
(* Arithmetic of the chunks.                                               *)

LEMMA DivFacts ==
    ASSUME NEW a \in Nat, NEW b \in Nat, b > 0
    PROVE  /\ a \div b \in Nat /\ a % b \in Nat
           /\ a % b < b
           /\ a = b * (a \div b) + (a % b)
OBVIOUS

LEMMA DivUnique ==
    ASSUME NEW a \in Nat, NEW b \in Nat, NEW q \in Nat, NEW r \in Nat,
           r < b, a = b * q + r
    PROVE  a \div b = q /\ a % b = r
OBVIOUS

LEMMA MulMono ==
    ASSUME NEW a \in Nat, NEW b \in Nat, NEW c \in Nat, b <= c
    PROVE  a * b <= a * c /\ b * a <= c * a
OBVIOUS

LEMMA CeilDivFacts ==
    ASSUME NEW a \in Nat, NEW k \in Nat, a > 0, k > 0
    PROVE  /\ CeilDiv(a, k) \in Nat /\ CeilDiv(a, k) > 0
           /\ a <= CeilDiv(a, k) * k
<1> DEFINE d == (a + k - 1) \div k
<1> DEFINE r == (a + k - 1) % k
<1>1. a + k - 1 \in Nat
  OBVIOUS
<1>2. d \in Nat /\ r \in Nat /\ r < k /\ a + k - 1 = k * d + r
  BY <1>1, DivFacts
<1> HIDE DEF d, r
<1>3. d > 0
  <2> SUFFICES ASSUME d = 0 PROVE FALSE
    BY <1>2
  <2>1. k * d = 0
    OBVIOUS
  <2> QED BY <1>2, <2>1
<1>4. k * d \in Nat /\ k * d >= a /\ k * d = d * k
  BY <1>2
<1> QED BY <1>2, <1>3, <1>4 DEF CeilDiv, d

(* Cut into k parts of this length, a dimension has no part beyond.        *)
LEMMA PartFacts ==
    ASSUME NEW a \in Nat, NEW k \in Nat, a > 0, k > 0, NEW x \in 0 .. a - 1
    PROVE  x \div CeilDiv(a, k) \in 0 .. k - 1
<1> DEFINE d == CeilDiv(a, k)
<1> DEFINE q == x \div d
<1> DEFINE r == x % d
<1>1. d \in Nat /\ d > 0 /\ a <= d * k
  BY CeilDivFacts
<1> HIDE DEF d
<1>2. x \in Nat /\ q \in Nat /\ r \in Nat /\ x = d * q + r
  BY <1>1, DivFacts
<1> HIDE DEF q, r
<1>3. q < k
  <2> SUFFICES ASSUME k <= q PROVE FALSE
    BY <1>2
  <2>1. d * k <= d * q
    BY <1>1, <1>2, MulMono
  <2>2. d * k \in Nat /\ d * q \in Nat
    BY <1>1, <1>2
  <2> QED BY <1>1, <1>2, <2>1, <2>2
<1> QED BY <1>2, <1>3 DEF d, q

NumChunks(n) == NChunk(n)[1] * NChunk(n)[2]

(* The number of the chunk that an element is in.                          *)
Index(c, n) ==
    c[1] \div CeilDiv(NR0, NChunk(n)[1])
        + NChunk(n)[1] * (c[2] \div CeilDiv(NR1, NChunk(n)[2]))

LEMMA SizeFacts ==
    /\ NR0 \in Nat /\ NR0 > 0 /\ NR1 \in Nat /\ NR1 > 0
    /\ ChunkSize \in Nat /\ ChunkSize > 0
BY PoolAssumption

LEMMA NChunkFacts ==
    ASSUME NEW n \in Nat, n > 0
    PROVE  /\ NChunk(n)[1] \in Nat /\ NChunk(n)[1] > 0
           /\ NChunk(n)[2] \in Nat /\ NChunk(n)[2] > 0
           /\ NumChunks(n) \in Nat
<1>1. /\ CeilDiv(NR0, ChunkSize) \in Nat /\ CeilDiv(NR0, ChunkSize) > 0
      /\ CeilDiv(NR1, ChunkSize) \in Nat /\ CeilDiv(NR1, ChunkSize) > 0
  BY CeilDivFacts, SizeFacts
<1>2. /\ NChunk(n)[1] \in Nat /\ NChunk(n)[1] > 0
      /\ NChunk(n)[2] \in Nat /\ NChunk(n)[2] > 0
  BY <1>1 DEF NChunk
<1> QED BY <1>2 DEF NumChunks

(* However many threads cut the product, every element is in one chunk.    *)
LEMMA OneChunk ==
    ASSUME NEW n \in Nat, n > 0, NEW c \in Cells
    PROVE  /\ Index(c, n) \in Nat /\ Index(c, n) < NumChunks(n)
           /\ \A i \in Nat : c \in Chunk(i, n) <=> i = Index(c, n)
<1> DEFINE k1 == NChunk(n)[1]
<1> DEFINE k2 == NChunk(n)[2]
<1> DEFINE a == c[1] \div CeilDiv(NR0, k1)
<1> DEFINE b == c[2] \div CeilDiv(NR1, k2)
<1>1. k1 \in Nat /\ k1 > 0 /\ k2 \in Nat /\ k2 > 0
  BY NChunkFacts
<1>2. c[1] \in 0 .. NR0 - 1 /\ c[2] \in 0 .. NR1 - 1
  BY DEF Cells
<1>3. \A i : c \in Chunk(i, n) <=> a = i % k1 /\ b = i \div k1
  BY DEF Chunk
<1>4. Index(c, n) = a + k1 * b /\ NumChunks(n) = k1 * k2
  BY DEF Index, NumChunks
<1> HIDE DEF k1, k2
<1>5. a \in 0 .. k1 - 1 /\ b \in 0 .. k2 - 1
  BY <1>1, <1>2, PartFacts, SizeFacts
<1> HIDE DEF a, b
<1>6. a + k1 * b \in Nat
  BY <1>1, <1>5
<1>7. a + k1 * b < k1 * k2
  <2>1. k1 * (b + 1) <= k1 * k2
    BY <1>1, <1>5, MulMono
  <2>2. k1 * (b + 1) = k1 * b + k1
    BY <1>1, <1>5
  <2>3. k1 * b \in Nat /\ k1 * k2 \in Nat
    BY <1>1, <1>5
  <2> QED BY <1>1, <1>5, <2>1, <2>2, <2>3
<1>8. ASSUME NEW i \in Nat
      PROVE  a = i % k1 /\ b = i \div k1 <=> i = a + k1 * b
  <2>1. ASSUME a = i % k1, b = i \div k1 PROVE i = a + k1 * b
    <3>1. i = k1 * (i \div k1) + (i % k1)
      BY <1>1, DivFacts
    <3>2. k1 * b \in Nat /\ a \in Nat
      BY <1>1, <1>5
    <3> QED BY <2>1, <3>1, <3>2
  <2>2. ASSUME i = a + k1 * b PROVE a = i % k1 /\ b = i \div k1
    <3>1. k1 * b \in Nat /\ a \in Nat /\ b \in Nat /\ a < k1
      BY <1>1, <1>5
    <3>2. i = k1 * b + a
      BY <2>2, <3>1
    <3> QED BY <1>1, <3>1, <3>2, DivUnique
  <2> QED BY <2>1, <2>2
<1> QED BY <1>3, <1>4, <1>6, <1>7, <1>8


-----------------------------------------------------------------------------
(* The work that is done.                                                  *)

(* While members look for the next node, the nodes before them are done    *)
(* and nothing else is; whoever waits to begin has its own chunk.          *)
SeekingWork ==
    /\ \A t \in Members :
          Order!Complete(done, Pos(t)) /\ Order!NothingFrom(done, Pos(t))
    /\ \A t \in Members : Loc(t) = "wait" /\ ret[t] = "chunks" =>
          chunk[t] = t /\ (t = 0 => current_chunk = n_graph.n)

Held(t, i) == Loc(t) = "chunks" /\ chunk[t] = i

(* Inside node n: the chunks that were given out are computed or held, a   *)
(* chunk is held by one member only, and no member leaves before the last  *)
(* chunk is given out.                                                     *)
ComputingWork(n) ==
    /\ Order!Complete(done, n) /\ Order!NothingFrom(done, n + 1)
    /\ current_chunk >= n_graph.n
    /\ \A t \in Members : Loc(t) = "chunks" => chunk[t] < current_chunk
    /\ \A t, u \in Members : t # u /\ Loc(t) = "chunks" /\ Loc(u) = "chunks" =>
          chunk[t] # chunk[u]
    /\ \A t \in Members : Loc(t) \notin {"chunks", "fetch"} =>
          current_chunk >= NumChunks(n_graph.n)
    /\ \A c \in Cells : done[n][c] =
          IF /\ Index(c, n_graph.n) < current_chunk
             /\ \A t \in Members : ~Held(t, Index(c, n_graph.n))
          THEN 1 ELSE 0

(* How a graph ends.                                                       *)
EndedWork ==
    /\ Order!Complete(done, node[0]) /\ Order!NothingFrom(done, node[0])
    /\ ec = "success" => node[0] = NNodes

WorkInv ==
    /\ ec = "success" => abort = -1
    /\ pc[0] = "kick" => done = Order!Untouched
    /\ Running => \/ Seeking /\ SeekingWork
                  \/ \E n \in Ops : Computing(n) /\ ComputingWork(n)
    /\ ~Running /\ pc[0] \in {"done", "spin"} => EndedWork

LEMMA InitWork == Init => WorkInv
<1> SUFFICES ASSUME Init PROVE WorkInv
  OBVIOUS
<1>1. pc[0] = "idle" /\ ec = "success" /\ abort = -1
  BY PoolFacts DEF Init
<1>2. ~Running
  BY <1>1 DEF Running, Loc, Released, GraphPCs, BarrierPCs
<1> QED BY <1>1, <1>2 DEF WorkInv

(* Work that goes on where no thread leaves its place.                     *)
LEMMA StayWork ==
    ASSUME IInv, TypeOK', WorkInv, Stays,
           \A w \in Workers : last_graph'[w] \in {last_graph[w], n_graph},
           UNCHANGED <<done, current_chunk, chunk, ec>>
    PROVE  WorkInv'
<1>1. (Running' <=> Running) /\ (Running => KeepsStretch)
  BY SameLoc
<1>2. Members' = Members /\ \A u \in Members : u \in Threads
  BY MemberFacts DEF IInv, Stays, Members
<1>3. \A u \in Members : Loc(u)' = Loc(u) /\ Pos(u)' = Pos(u)
  BY <1>2 DEF Stays, Pos
<1>4. SeekingWork => SeekingWork'
  BY <1>2, <1>3 DEF Stays, SeekingWork, Order!Complete, Order!NothingFrom
<1>5. ASSUME NEW n \in Ops, ComputingWork(n) PROVE ComputingWork(n)'
  <2>1. n_graph' = n_graph
    BY DEF Stays
  <2>2. \A t \in Members : \A i : Held(t, i)' = Held(t, i)
    BY <1>3 DEF Held
  <2>3. /\ Order!Complete(done, n)' /\ Order!NothingFrom(done, n + 1)'
    BY <1>5 DEF ComputingWork, Order!Complete, Order!NothingFrom
  <2>4. \A c \in Cells : Index(c, n_graph.n)' = Index(c, n_graph.n)
    BY <2>1
  <2> QED BY <1>2, <1>3, <1>5, <2>1, <2>2, <2>3, <2>4 DEF ComputingWork
<1>6. Running' => \/ Seeking' /\ SeekingWork'
                  \/ \E n \in Ops : Computing(n)' /\ ComputingWork(n)'
  BY <1>1, <1>4, <1>5 DEF WorkInv, KeepsStretch
<1>7. ASSUME ~Running', pc'[0] \in {"done", "spin"} PROVE EndedWork'
  <2>1. pc[0] \in {"done", "spin"}
    BY <1>1, <1>7, LocFacts, PoolFacts DEF Stays, Running, IInv, BarrierPCs
  <2> QED BY <1>1, <1>7, <2>1 DEF WorkInv, EndedWork, Stays, Order!Complete,
             Order!NothingFrom
<1> QED BY <1>6, <1>7 DEF WorkInv, Stays

(* A member that enters the graph.                                         *)
LEMMA EnterWork ==
    ASSUME IInv, WorkInv, KeepsStretch, NEW t \in Members,
           Loc(t) \in {"out", "enter"}, Loc(t)' \in {"enter", "loop"},
           node'[t] = 0 \/ Loc(t)' = "enter",
           \A u \in Threads : u # t => Loc(u)' = Loc(u) /\ node'[u] = node[u],
           UNCHANGED <<done, current_chunk, chunk, ec, abort, ret, n_graph>>,
           pc'[0] # "kick"
    PROVE  WorkInv'
<1>1. \A n \in Ops : ~Computing(n)
  BY DEF Computing, AtNode
<1>2. Seeking /\ SeekingWork /\ Seeking' /\ Running'
  BY <1>1 DEF WorkInv, KeepsStretch
<1>3. Members' = Members /\ \A u \in Members : u \in Threads
  BY MemberFacts DEF IInv, Members
<1>4. \A u \in Members : Pos(u)' = Pos(u)
  BY <1>3 DEF Pos
<1>5. SeekingWork'
  BY <1>2, <1>3, <1>4 DEF SeekingWork, Order!Complete, Order!NothingFrom
<1> QED BY <1>2, <1>5 DEF WorkInv

LEMMA KickoffWork ==
    ASSUME IInv, TypeOK', WorkInv, Kickoff
    PROVE  WorkInv'
<1>1. IInv' /\ Running' /\ Seeking' /\ \A u \in Threads : Loc(u)' = "out"
  BY KickoffStep
<1>2. done = Order!Untouched /\ UNCHANGED <<done, ec, abort>>
  BY DEF Kickoff, WorkInv, work
<1>3. \A u \in Members' : u \in Threads /\ Loc(u)' = "out" /\ Pos(u)' = 0
  <2>1. \A u \in Members' : u \in Threads
    <3>1. n_graph'.n \in Int /\ n_graph'.n <= N
      <4>1. n_graph' \in [count : 0 .. GraphWrap - 1, n : 0 .. N]
        BY DEF TypeOK
      <4> QED BY <4>1, PoolFacts
    <3> QED BY <3>1, PoolFacts DEF Members, Threads
  <2> QED BY <1>1, <2>1 DEF Pos
<1>4. Order!Complete(done, 0)' /\ Order!NothingFrom(done, 0)'
  BY <1>2, PoolFacts DEF Order!Complete, Order!NothingFrom, Order!Untouched
<1>5. SeekingWork'
  BY <1>3, <1>4 DEF SeekingWork, Order!Complete, Order!NothingFrom
<1>6. pc'[0] = "wake"
  BY PoolFacts DEF Kickoff, Goto, IInv, TypeOK
<1> QED BY <1>1, <1>2, <1>5, <1>6 DEF WorkInv

LEMMA LoopWork ==
    ASSUME IInv, TypeOK', WorkInv, NEW t \in Threads, Loop(t)
    PROVE  WorkInv'
<1> USE DEF IInv
<1>0. KeepsStretch
  BY LoopStep
<1>1. /\ pc[t] = "loop" /\ Loc(t) = "loop" /\ nth[t] = n_graph.n /\ t \in Members
  <2>1. pc[t] = "loop" /\ Loc(t) = "loop"
    BY LocFacts DEF Loop, GraphPCs
  <2> QED BY <2>1, InGraph DEF MemberInv
<1>2. /\ UNCHANGED <<converted, abort, n_graph, n_barrier, n_barrier_passed, seen,
                     last_graph, graphs, nth, done, current_chunk, chunk, ec>>
      /\ \A u \in Threads : u # t => ret'[u] = ret[u] /\ node'[u] = node[u]
  BY DEF Loop, work, bar, sync, CallBarrier, TypeOK
<1>3. PICK q \in {"loop", "convert", "arrive"} :
         /\ pc' = [pc EXCEPT ![t] = q]
         /\ q = "arrive" => ret'[t] = "leave"
         /\ \/ node'[t] = node[t]
            \/ /\ q = "loop" /\ node'[t] = node[t] + 1
               /\ node[t] \notin Ops /\ node[t] < NNodes
  <2>1. pc = [pc EXCEPT ![t] = "loop"]
    BY <1>1 DEF TypeOK
  <2> QED BY <2>1 DEF Loop, CallBarrier, Goto, TypeOK
<1>4. /\ Members' = Members
      /\ \A u \in Members : u \in Threads
      /\ \A u \in Threads : u # t => Loc(u)' = Loc(u)
      /\ Loc(t)' = IF q = "arrive" THEN "wait" ELSE q
  <2>1. q \in GraphPCs \cup {"arrive"} /\ pc[t] \in GraphPCs
    BY <1>1 DEF GraphPCs
  <2> QED BY <1>1, <1>2, <1>3, <2>1, GraphMove
<1>5. pc'[0] # "kick"
  BY <1>0, <1>4, PoolFacts DEF KeepsStretch, Running, Loc, Released, GraphPCs, BarrierPCs
<1>6. ASSUME Seeking, SeekingWork PROVE SeekingWork'
  <2>1. \A u \in Members : u # t => Pos(u)' = Pos(u)
    BY <1>2, <1>4 DEF Pos
  <2>2. Pos(t) = node[t] /\ Pos(t)' = node'[t]
    BY <1>1, <1>3, <1>4 DEF Pos
  <2>3. Order!Complete(done, node[t]) /\ Order!NothingFrom(done, node[t])
    BY <1>1, <1>6, <2>2 DEF SeekingWork
  <2>4. node[t] \in Int /\ \A n \in Ops : n \in Int
    BY LocFacts, PoolFacts
  <2>5. Order!Complete(done', node'[t]) /\ Order!NothingFrom(done', node'[t])
    BY <1>2, <1>3, <2>3, <2>4 DEF Order!Complete, Order!NothingFrom
  <2>6. \A u \in Members :
          Order!Complete(done, Pos(u))' /\ Order!NothingFrom(done, Pos(u))'
    <3> TAKE u \in Members
    <3>1. CASE u = t
      BY <2>2, <2>5, <3>1 DEF Order!Complete, Order!NothingFrom
    <3>2. CASE u # t
      BY <1>2, <1>6, <2>1, <3>2 DEF SeekingWork, Order!Complete, Order!NothingFrom
    <3> QED BY <3>1, <3>2
  <2>7. \A u \in Members : Loc(u)' = "wait" /\ ret'[u] = "chunks" =>
          chunk'[u] = u /\ (u = 0 => current_chunk' = n_graph'.n)
    BY <1>2, <1>3, <1>4, <1>6 DEF SeekingWork
  <2> QED BY <1>4, <2>6, <2>7 DEF SeekingWork
<1>7. ASSUME NEW n \in Ops, Computing(n), ComputingWork(n) PROVE ComputingWork(n)'
  <2>1. Loc(t)' \notin {"chunks", "fetch"}
    BY <1>4
  <2>2. \A u \in Members : \A i : Held(u, i)' = Held(u, i)
    BY <1>1, <1>2, <1>4, <2>1 DEF Held
  <2>3. /\ Order!Complete(done, n)' /\ Order!NothingFrom(done, n + 1)'
    BY <1>2, <1>7 DEF ComputingWork, Order!Complete, Order!NothingFrom
  <2>4. \A c \in Cells : Index(c, n_graph.n)' = Index(c, n_graph.n)
    BY <1>2
  <2> QED BY <1>1, <1>2, <1>4, <1>7, <2>1, <2>2, <2>3, <2>4 DEF ComputingWork
<1> QED BY <1>0, <1>2, <1>5, <1>6, <1>7 DEF WorkInv, KeepsStretch

LEMMA ConvertWork ==
    ASSUME IInv, TypeOK', WorkInv, NEW t \in Threads, Convert(t)
    PROVE  WorkInv'
<1> USE DEF IInv
<1>0. KeepsStretch
  BY ConvertStep
<1>1. /\ pc[t] = "convert" /\ Loc(t) = "convert" /\ nth[t] = n_graph.n /\ t \in Members
  <2>1. pc[t] = "convert" /\ Loc(t) = "convert"
    BY LocFacts DEF Convert, GraphPCs
  <2> QED BY <2>1, InGraph DEF MemberInv
<1>2. /\ UNCHANGED <<abort, n_graph, n_barrier, n_barrier_passed, seen,
                     last_graph, graphs, nth, done, ec, node>>
      /\ \A u \in Threads : u # t => ret'[u] = ret[u] /\ chunk'[u] = chunk[u]
      /\ chunk'[t] = t /\ ret'[t] = "chunks" /\ pc' = [pc EXCEPT ![t] = "arrive"]
      /\ current_chunk' = IF t = 0 THEN nth[0] ELSE current_chunk
  BY DEF Convert, bar, sync, CallBarrier, Goto, TypeOK, FirstShared
<1>3. /\ Members' = Members
      /\ \A u \in Members : u \in Threads
      /\ \A u \in Threads : u # t => Loc(u)' = Loc(u)
      /\ Loc(t)' = "wait"
  BY <1>1, <1>2, GraphMove DEF GraphPCs
<1>4. pc'[0] # "kick"
  BY <1>0, <1>3, PoolFacts DEF KeepsStretch, Running, Loc, Released, GraphPCs, BarrierPCs
<1>5. Seeking /\ SeekingWork /\ Seeking'
  <2>1. \A n \in Ops : ~Computing(n)
    BY <1>1 DEF Computing, AtNode
  <2> QED BY <1>0, <2>1 DEF WorkInv, KeepsStretch
<1>6. \A u \in Members : Pos(u)' = Pos(u)
  BY <1>1, <1>2, <1>3 DEF Pos
<1>7. \A u \in Members : Loc(u)' = "wait" /\ ret'[u] = "chunks" =>
          chunk'[u] = u /\ (u = 0 => current_chunk' = n_graph'.n)
  BY <1>1, <1>2, <1>3, <1>5 DEF SeekingWork
<1>8. SeekingWork'
  BY <1>2, <1>3, <1>5, <1>6, <1>7 DEF SeekingWork, Order!Complete, Order!NothingFrom
<1> QED BY <1>0, <1>2, <1>4, <1>5, <1>8 DEF WorkInv, KeepsStretch

(* What a thread in the chunks of a node can rely on.                      *)
LEMMA NodeWork ==
    ASSUME IInv, WorkInv, NEW t \in Threads, pc[t] \in {"chunks", "fetch", "after"}
    PROVE  /\ Loc(t) = pc[t] /\ nth[t] = n_graph.n /\ t \in Members /\ Running
           /\ n_graph.n \in Nat /\ n_graph.n > 0
           /\ node[t] \in Ops /\ Computing(node[t]) /\ ComputingWork(node[t])
           /\ chunk[t] \in Nat /\ current_chunk \in Nat
           /\ \A u \in Members : chunk[u] \in Nat
           /\ done \in [Ops -> [Cells -> Nat]]
<1> USE DEF IInv
<1>1. Loc(t) = pc[t] /\ nth[t] = n_graph.n /\ node[t] \in Ops /\ Computing(node[t])
  BY LocFacts, NodeFacts DEF GraphPCs
<1>2. t \in Members /\ Running /\ n_graph.n \in 1 .. N
  BY <1>1, InGraph
<1>3. ~Seeking
  BY <1>1, <1>2 DEF Seeking
<1>4. PICK n \in Ops : Computing(n) /\ ComputingWork(n)
  BY <1>2, <1>3 DEF WorkInv
<1>5. n = node[t]
  BY <1>1, <1>2, <1>4 DEF Computing, AtNode
<1> QED BY <1>1, <1>2, <1>4, <1>5, MemberFacts, PoolFacts DEF TypeOK

(* A chunk is computed by the one member that holds it.                    *)
LEMMA ChunkWork ==
    ASSUME IInv, TypeOK', WorkInv, NEW t \in Threads, ComputeChunk(t),
           NEW m \in Ops, m = node[t]
    PROVE  /\ WorkInv'
           /\ \A n \in Ops : n # m => done'[n] = done[n]
           /\ \A c \in Cells : done'[m][c] \in {0, 1}
           /\ \A c \in Cells : done[m][c] = 1 => done'[m][c] = 1
<1> DEFINE G == n_graph.n
<1> DEFINE K == NumChunks(G)
<1>0. KeepsStretch
  BY NodeStep
<1>1. /\ pc[t] = "chunks" /\ Loc(t) = "chunks" /\ nth[t] = G /\ t \in Members
      /\ G \in Nat /\ G > 0 /\ Computing(m) /\ ComputingWork(m)
      /\ chunk[t] \in Nat /\ current_chunk \in Nat
      /\ \A u \in Members : chunk[u] \in Nat
      /\ done \in [Ops -> [Cells -> Nat]]
  BY NodeWork DEF ComputeChunk
<1>2. UNCHANGED <<n_graph, n_barrier, n_barrier_passed, seen, last_graph, graphs, nth,
                  node, chunk, ret, abort, ec, current_chunk, converted>>
  BY DEF ComputeChunk, bar, sync, local
<1>3. \/ /\ chunk[t] < K
         /\ done' = [done EXCEPT ![m] = [c \in Cells |->
               done[m][c] + IF c \in Chunk(chunk[t], G) THEN 1 ELSE 0]]
         /\ pc' = [pc EXCEPT ![t] = IF G >= K THEN "after" ELSE "fetch"]
      \/ /\ chunk[t] >= K /\ done' = done
         /\ pc' = [pc EXCEPT ![t] = "after"]
  BY <1>1 DEF ComputeChunk, Goto, NumChunks
<1>4. K \in Nat
  BY <1>1, NChunkFacts
<1>5. \A c \in Cells : /\ Index(c, G) \in Nat /\ Index(c, G) < K
                       /\ c \in Chunk(chunk[t], G) <=> chunk[t] = Index(c, G)
  BY <1>1, OneChunk
<1>6. PICK q \in {"fetch", "after"} : pc' = [pc EXCEPT ![t] = q]
         /\ (q = "after" => G >= K \/ chunk[t] >= K)
  BY <1>3
<1>7. /\ Members' = Members
      /\ \A u \in Members : u \in Threads
      /\ \A u \in Threads : u # t => Loc(u)' = Loc(u)
      /\ Loc(t)' = q
  <2>1. q \in GraphPCs /\ pc[t] \in GraphPCs /\ q # "arrive"
    BY <1>1 DEF GraphPCs
  <2> QED BY <1>1, <1>2, <1>6, <2>1, GraphMove
<1>8. /\ \A u \in Members : u # t => \A i : Held(u, i)' = Held(u, i)
      /\ \A i : ~Held(t, i)'
      /\ \A i : Held(t, i) <=> i = chunk[t]
  BY <1>1, <1>2, <1>7 DEF Held
<1>9. \A n \in Ops : n # m => done'[n] = done[n]
  BY <1>1, <1>3
<1>10. \A c \in Cells : done[m][c] =
          IF Index(c, G) < current_chunk /\ \A u \in Members : ~Held(u, Index(c, G))
          THEN 1 ELSE 0
  BY <1>1 DEF ComputingWork
<1>11. \A u \in Members : u # t => ~Held(u, chunk[t])
  BY <1>1 DEF ComputingWork, Held
<1>12. chunk[t] < current_chunk /\ current_chunk >= G
  BY <1>1 DEF ComputingWork
<1>13. ASSUME NEW c \in Cells
       PROVE  /\ done'[m][c] =
                   IF /\ Index(c, G) < current_chunk
                      /\ \A u \in Members : ~Held(u, Index(c, G))'
                   THEN 1 ELSE 0
              /\ done[m][c] = 1 => done'[m][c] = 1
  <2>1. CASE Index(c, G) = chunk[t]
    <3>1. done[m][c] = 0
      BY <1>1, <1>8, <1>10, <2>1
    <3>2. chunk[t] < K /\ c \in Chunk(chunk[t], G)
      BY <1>5, <2>1
    <3>3. done'[m][c] = done[m][c] + 1
      BY <1>1, <1>3, <1>4, <3>2
    <3>4. done'[m][c] = 1
      BY <3>1, <3>3
    <3>5. \A u \in Members : ~Held(u, Index(c, G))'
      BY <1>2, <1>8, <1>11, <2>1
    <3> QED BY <1>12, <2>1, <3>4, <3>5
  <2>2. CASE Index(c, G) # chunk[t]
    <3>1. c \notin Chunk(chunk[t], G)
      BY <1>5, <2>2
    <3>2. done[m][c] \in Nat
      BY <1>1
    <3>3. done'[m][c] = done[m][c]
      BY <1>1, <1>3, <3>1, <3>2
    <3>4. \A u \in Members : Held(u, Index(c, G))' <=> Held(u, Index(c, G))
      BY <1>2, <1>8, <2>2
    <3> QED BY <1>10, <3>3, <3>4
  <2> QED BY <2>1, <2>2
<1>14. ComputingWork(m)'
  <2>1. Order!Complete(done, m)' /\ Order!NothingFrom(done, m + 1)'
    BY <1>1, <1>9, PoolFacts DEF ComputingWork, Order!Complete, Order!NothingFrom
  <2>2. \A u \in Members : Loc(u)' = "chunks" => Loc(u) = "chunks"
    BY <1>7
  <2>3. \A u \in Members : Loc(u)' \notin {"chunks", "fetch"} => current_chunk >= K
    <3> TAKE u \in Members
    <3>1. CASE u = t
      BY <1>1, <1>4, <1>6, <1>7, <1>12, <3>1
    <3>2. CASE u # t
      BY <1>1, <1>7, <3>2 DEF ComputingWork
    <3> QED BY <3>1, <3>2
  <2>4. \A c \in Cells : done'[m][c] =
          IF /\ Index(c, n_graph.n)' < current_chunk'
             /\ \A u \in Members' : ~Held(u, Index(c, n_graph.n))'
          THEN 1 ELSE 0
    BY <1>2, <1>7, <1>13
  <2> QED BY <1>1, <1>2, <1>7, <2>1, <2>2, <2>3, <2>4 DEF ComputingWork
<1>15. pc'[0] # "kick"
  BY <1>0, <1>7, PoolFacts DEF KeepsStretch, Running, Loc, Released, GraphPCs, BarrierPCs
<1>16. WorkInv'
  BY <1>0, <1>1, <1>2, <1>14, <1>15 DEF WorkInv, KeepsStretch
<1> QED BY <1>9, <1>13, <1>16

LEMMA FetchWork ==
    ASSUME IInv, TypeOK', WorkInv, NEW t \in Threads, FetchChunk(t)
    PROVE  WorkInv'
<1> DEFINE G == n_graph.n
<1>0. KeepsStretch
  BY NodeStep
<1>1. /\ pc[t] = "fetch" /\ Loc(t) = "fetch" /\ nth[t] = G /\ t \in Members
      /\ G \in Nat /\ G > 0 /\ node[t] \in Ops /\ ComputingWork(node[t])
      /\ Computing(node[t]) /\ current_chunk \in Nat
      /\ \A u \in Members : chunk[u] \in Nat
  BY NodeWork DEF FetchChunk
<1> PICK m \in Ops : m = node[t]
  BY <1>1
<1>2. /\ UNCHANGED <<n_graph, n_barrier, n_barrier_passed, seen, last_graph, graphs, nth,
                     node, ret, abort, ec, done, converted>>
      /\ current_chunk' = current_chunk + 1 /\ chunk'[t] = current_chunk
      /\ \A u \in Threads : u # t => chunk'[u] = chunk[u]
      /\ pc' = [pc EXCEPT ![t] = "chunks"]
  BY DEF FetchChunk, bar, sync, Goto, IInv, TypeOK
<1>3. /\ Members' = Members
      /\ \A u \in Members : u \in Threads
      /\ \A u \in Threads : u # t => Loc(u)' = Loc(u)
      /\ Loc(t)' = "chunks"
  BY <1>1, <1>2, GraphMove DEF GraphPCs
<1>4. NumChunks(G) \in Nat /\ \A c \in Cells : Index(c, G) \in Nat
  BY <1>1, NChunkFacts, OneChunk
<1>5. /\ \A u \in Members : u # t => \A i : Held(u, i)' = Held(u, i)
      /\ \A i : Held(t, i)' <=> i = current_chunk
      /\ \A i : ~Held(t, i)
  BY <1>1, <1>2, <1>3 DEF Held
<1>6. /\ \A u \in Members : Loc(u) = "chunks" => chunk[u] < current_chunk
      /\ \A c \in Cells : done[m][c] =
           IF Index(c, G) < current_chunk /\ \A u \in Members : ~Held(u, Index(c, G))
           THEN 1 ELSE 0
  BY <1>1 DEF ComputingWork
<1>7. ASSUME NEW c \in Cells
      PROVE  done'[m][c] =
                IF /\ Index(c, n_graph.n)' < current_chunk'
                   /\ \A u \in Members' : ~Held(u, Index(c, n_graph.n))'
                THEN 1 ELSE 0
  <2>1. Index(c, n_graph.n)' = Index(c, G) /\ done' = done
    BY <1>2
  <2> DEFINE i == Index(c, G)
  <2>2. \A u \in Members : Held(u, Index(c, n_graph.n))' <=>
           IF u = t THEN i = current_chunk ELSE Held(u, i)
    BY <1>2, <1>5
  <2>3. done[m][c] = IF i < current_chunk /\ \A u \in Members : ~Held(u, i) THEN 1 ELSE 0
    BY <1>6
  <2>4. ~Held(t, i) /\ i \in Nat
    BY <1>4, <1>5
  <2> HIDE DEF i
  <2>5. i < current_chunk' <=> i < current_chunk \/ i = current_chunk
    BY <1>1, <1>2, <2>4
  <2>6. (\A u \in Members : ~Held(u, Index(c, n_graph.n))') <=>
           i # current_chunk /\ \A u \in Members : ~Held(u, i)
    BY <1>1, <2>2, <2>4
  <2> QED BY <1>1, <1>3, <2>1, <2>3, <2>4, <2>5, <2>6 DEF i
<1>8. ComputingWork(m)'
  <2>1. Order!Complete(done, m)' /\ Order!NothingFrom(done, m + 1)'
    BY <1>1, <1>2 DEF ComputingWork, Order!Complete, Order!NothingFrom
  <2>2. \A u \in Members : Loc(u)' = "chunks" => chunk'[u] < current_chunk'
    BY <1>1, <1>2, <1>3, <1>6
  <2>3. \A u, v \in Members : u # v /\ Loc(u)' = "chunks" /\ Loc(v)' = "chunks" =>
           chunk'[u] # chunk'[v]
    <3> TAKE u, v \in Members
    <3>1. CASE u = t /\ v # t
      BY <1>1, <1>2, <1>3, <1>6, <3>1
    <3>2. CASE v = t /\ u # t
      BY <1>1, <1>2, <1>3, <1>6, <3>2
    <3>3. CASE u # t /\ v # t
      BY <1>1, <1>2, <1>3, <3>3 DEF ComputingWork
    <3> QED BY <3>1, <3>2, <3>3
  <2>4. \A u \in Members : Loc(u)' \notin {"chunks", "fetch"} =>
           current_chunk' >= NumChunks(G)
    BY <1>1, <1>2, <1>3, <1>4 DEF ComputingWork
  <2>5. current_chunk' >= G
    BY <1>1, <1>2 DEF ComputingWork
  <2> QED BY <1>2, <1>3, <1>7, <2>1, <2>2, <2>3, <2>4, <2>5 DEF ComputingWork
<1>9. pc'[0] # "kick"
  BY <1>0, <1>3, PoolFacts DEF KeepsStretch, Running, Loc, Released, GraphPCs, BarrierPCs
<1> QED BY <1>0, <1>1, <1>2, <1>8, <1>9 DEF WorkInv, KeepsStretch

LEMMA EndNodeWork ==
    ASSUME IInv, TypeOK', WorkInv, NEW t \in Threads, EndNode(t)
    PROVE  WorkInv'
<1>0. KeepsStretch
  BY NodeStep
<1>1. /\ pc[t] = "after" /\ Loc(t) = "after" /\ nth[t] = n_graph.n /\ t \in Members
      /\ node[t] \in Ops /\ ComputingWork(node[t]) /\ Computing(node[t])
  BY NodeWork DEF EndNode
<1> PICK m \in Ops : m = node[t]
  BY <1>1
<1>2. /\ UNCHANGED <<n_graph, n_barrier, n_barrier_passed, seen, last_graph, graphs, nth,
                     done, converted, current_chunk, chunk>>
      /\ \A u \in Threads : u # t => ret'[u] = ret[u]
      /\ UNCHANGED <<abort, ec>> \/ ec' = "aborted"
  BY DEF EndNode, bar, sync, Goto, CallBarrier, IInv, TypeOK
<1>3. PICK q \in {"arrive", "loop"} : pc' = [pc EXCEPT ![t] = q]
  BY DEF EndNode, Goto, CallBarrier
<1>4. /\ Members' = Members
      /\ \A u \in Members : u \in Threads
      /\ \A u \in Threads : u # t => Loc(u)' = Loc(u)
      /\ Loc(t)' = IF q = "arrive" THEN "wait" ELSE q
  <2>1. q \in GraphPCs \cup {"arrive"} /\ pc[t] \in GraphPCs
    BY <1>1 DEF GraphPCs
  <2> QED BY <1>1, <1>2, <1>3, <2>1, GraphMove
<1>5. \A u \in Members : \A i : Held(u, i)' = Held(u, i)
  BY <1>1, <1>2, <1>4 DEF Held
<1>6. ComputingWork(m)'
  <2>1. Order!Complete(done, m)' /\ Order!NothingFrom(done, m + 1)'
    BY <1>1, <1>2 DEF ComputingWork, Order!Complete, Order!NothingFrom
  <2>2. \A u \in Members : /\ Loc(u)' = "chunks" => Loc(u) = "chunks"
                           /\ Loc(u)' \notin {"chunks", "fetch"} =>
                                 Loc(u) \notin {"chunks", "fetch"}
    BY <1>1, <1>4
  <2>3. \A c \in Cells : Index(c, n_graph.n)' = Index(c, n_graph.n)
    BY <1>2
  <2> QED BY <1>1, <1>2, <1>4, <1>5, <2>1, <2>2, <2>3 DEF ComputingWork
<1>7. pc'[0] # "kick"
  BY <1>0, <1>4, PoolFacts DEF KeepsStretch, Running, Loc, Released, GraphPCs, BarrierPCs
<1>8. ec' = "success" => abort' = -1
  BY <1>2 DEF WorkInv
<1> QED BY <1>0, <1>1, <1>6, <1>7, <1>8 DEF WorkInv, KeepsStretch

(* When all members are through with a node it is complete.                *)
LEMMA NodeDone ==
    ASSUME IInv, Running, NEW n \in Ops, ComputingWork(n),
           \A u \in Members : Loc(u) = "wait"
    PROVE  Order!Complete(done, n + 1) /\ Order!NothingFrom(done, n + 1)
<1>1. n_graph.n \in Nat /\ n_graph.n > 0 /\ 0 \in Members
  BY MemberFacts, PoolFacts DEF IInv, MemberInv
<1>2. /\ current_chunk >= NumChunks(n_graph.n) /\ current_chunk \in Nat
      /\ NumChunks(n_graph.n) \in Nat
  BY <1>1, NChunkFacts DEF ComputingWork, IInv, TypeOK
<1>3. \A c \in Cells : Index(c, n_graph.n) < current_chunk
  BY <1>1, <1>2, OneChunk
<1>4. \A c \in Cells : done[n][c] = 1
  BY <1>3 DEF ComputingWork, Held
<1>5. \A k \in Ops : k < n + 1 => k < n \/ k = n
  BY PoolFacts
<1> QED BY <1>4, <1>5 DEF ComputingWork, Order!Complete, Order!NothingFrom

(* At the barrier a node that is computed becomes one that is done, and    *)
(* the chunks of the next one are dealt.                                   *)
LEMMA PassWork ==
    ASSUME IInv, TypeOK', WorkInv, Passes,
           UNCHANGED <<done, current_chunk, chunk, ec>>
    PROVE  WorkInv'
<1> USE DEF IInv
<1>1. /\ \A u \in Members : node[u] = node[0] /\ ret[u] = ret[0]
      /\ ret[0] = "leave" => ~Running'
      /\ ret[0] = "chunks" => \E n \in Ops : n = node[0] /\ Computing(n)'
      /\ ret[0] = "loop" => Seeking'
  BY Pass
<1>2. /\ \A u \in Members : u \in Threads /\ Loc(u) = "wait"
      /\ Members' = Members /\ 0 \in Members /\ n_graph.n \in Nat /\ n_graph.n > 0
      /\ UNCHANGED <<n_graph, node, ret, abort>> /\ Running /\ pc'[0] # "kick"
      /\ \A u \in Members : Loc(u)' = IF ret[0] = "leave" THEN "out" ELSE ret[0]
  BY <1>1, MemberFacts, PoolFacts DEF Passes, MemberInv, Members
<1>3. \A u \in Members : Pos(u) = node[0]
  BY <1>1, <1>2 DEF Pos
<1>4. ret[0] \in {"loop", "chunks", "leave"} /\ node[0] \in Int /\ node[0] >= 0
  BY LocFacts, PoolFacts
<1>5. CASE ret[0] = "leave"
  <2>1. Order!Complete(done, node[0]) /\ Order!NothingFrom(done, node[0])
    <3>1. CASE Seeking /\ SeekingWork
      BY <1>2, <1>3, <3>1 DEF SeekingWork
    <3>2. ASSUME NEW n \in Ops, Computing(n), ComputingWork(n)
          PROVE  Order!Complete(done, node[0]) /\ Order!NothingFrom(done, node[0])
      <4>1. node[0] = n + 1
        BY <1>2, <1>5, <3>2 DEF Computing, AtNode
      <4> QED BY <1>2, <3>2, <4>1, NodeDone
    <3> QED BY <1>2, <3>1, <3>2 DEF WorkInv
  <2>2. ec = "success" => node[0] = NNodes
    BY <1>2, <1>4, <1>5 DEF StopInv, WorkInv
  <2>3. EndedWork'
    BY <1>2, <2>1, <2>2 DEF EndedWork, Order!Complete, Order!NothingFrom
  <2> QED BY <1>1, <1>2, <1>5, <2>3 DEF WorkInv
<1>6. CASE ret[0] = "chunks"
  <2>1. Seeking /\ SeekingWork
    <3>1. \A n \in Ops : ~Computing(n)
      BY <1>2, <1>6 DEF Computing, AtNode
    <3> QED BY <1>2, <3>1 DEF WorkInv
  <2>2. PICK n \in Ops : n = node[0] /\ Computing(n)'
    BY <1>1, <1>6
  <2>3. Order!Complete(done, n) /\ Order!NothingFrom(done, n)
    BY <1>2, <1>3, <2>1, <2>2 DEF SeekingWork
  <2>4. Order!Complete(done, n)' /\ Order!NothingFrom(done, n + 1)'
    BY <2>3, PoolFacts DEF Order!Complete, Order!NothingFrom
  <2>5. \A u \in Members : Loc(u)' = "chunks" /\ chunk'[u] = u
    BY <1>1, <1>2, <1>6, <2>1 DEF SeekingWork
  <2>6. current_chunk' = n_graph.n
    BY <1>2, <1>6, <2>1 DEF SeekingWork
  <2>7. \A u \in Members : u \in Int /\ u < n_graph.n
    BY <1>2 DEF Members
  <2>8. ASSUME NEW c \in Cells
        PROVE  done'[n][c] =
                  IF /\ Index(c, n_graph.n)' < current_chunk'
                     /\ \A u \in Members' : ~Held(u, Index(c, n_graph.n))'
                  THEN 1 ELSE 0
    <3>1. done'[n][c] = 0
      BY <2>3, PoolFacts DEF Order!NothingFrom
    <3>2. Index(c, n_graph.n)' = Index(c, n_graph.n) /\ Index(c, n_graph.n) \in Nat
      BY <1>2, OneChunk
    <3>3. \A u \in Members : Held(u, Index(c, n_graph.n))' <=> u = Index(c, n_graph.n)
      BY <2>5, <3>2 DEF Held
    <3>4. Index(c, n_graph.n) < n_graph.n => Index(c, n_graph.n) \in Members
      BY <1>2, <3>2 DEF Members
    <3> QED BY <1>2, <2>6, <3>1, <3>2, <3>3, <3>4
  <2>9. ComputingWork(n)'
    BY <1>2, <2>4, <2>5, <2>6, <2>7, <2>8 DEF ComputingWork
  <2>10. Running'
    BY <1>2, <2>5 DEF Running
  <2> QED BY <1>2, <2>2, <2>9, <2>10 DEF WorkInv
<1>7. CASE ret[0] = "loop"
  <2>1. PICK n \in Ops : Computing(n) /\ ComputingWork(n)
    <3>1. ~Seeking
      BY <1>2, <1>7 DEF Seeking
    <3> QED BY <1>2, <3>1 DEF WorkInv
  <2>2. node[0] = n + 1
    BY <1>2, <1>7, <2>1 DEF Computing, AtNode
  <2>3. Order!Complete(done, n + 1) /\ Order!NothingFrom(done, n + 1)
    BY <1>2, <2>1, NodeDone
  <2>4. \A u \in Members : Loc(u)' = "loop" /\ Pos(u)' = n + 1
    BY <1>1, <1>2, <1>7, <2>2 DEF Pos
  <2>5. SeekingWork'
    BY <1>2, <2>3, <2>4 DEF SeekingWork, Order!Complete, Order!NothingFrom
  <2>6. Running'
    BY <1>2, <2>4 DEF Running
  <2> QED BY <1>1, <1>2, <1>7, <2>5, <2>6 DEF WorkInv
<1> QED BY <1>4, <1>5, <1>6, <1>7

-----------------------------------------------------------------------------
(* Every step keeps the work right.                                        *)
LEMMA WorkStep == IInv /\ WorkInv /\ [Next]_vars => WorkInv'
<1> SUFFICES ASSUME IInv, WorkInv, [Next]_vars PROVE WorkInv'
  OBVIOUS
<1>0. TypeOK' /\ TypeOK /\ 0 \in Threads /\ PlaceInv /\ MemberInv /\ IInv'
  BY TypeStep, InvStep, PoolFacts DEF IInv
<1>1. ASSUME NEW n \in 1 .. N + 1, Compute(n) PROVE WorkInv'
  <2>1. pc'[0] = "kick" /\ ec' = "success" /\ abort' = -1 /\ done' = Order!Untouched
    BY <1>0, <1>1 DEF Compute, Goto, TypeOK, Order!Untouched
  <2>2. ~Running'
    BY <2>1 DEF Running, Loc, Released, GraphPCs, BarrierPCs
  <2> QED BY <2>1, <2>2 DEF WorkInv
<1>2. CASE (\E b \in BOOLEAN : SetPause(b)) \/ Free \/ Finish \/ Join
  <2>1. pc'[0] \in {"idle", "join", "freed"} /\ UNCHANGED <<ec, abort>>
    BY <1>0, <1>2 DEF SetPause, Free, Finish, Join, Goto, TypeOK, work
  <2>2. ~Running'
    BY <2>1 DEF Running, Loc, Released, GraphPCs, BarrierPCs
  <2> QED BY <2>1, <2>2 DEF WorkInv
<1>3. CASE Kickoff
  BY <1>0, <1>3, KickoffWork
<1>4. CASE KickoffWake
  <2>1. /\ KeepsStretch /\ Seeking
        /\ \A u \in Threads : u # 0 => Loc(u)' = Loc(u)
        /\ Loc(0) = "out" /\ Loc(0)' = "enter"
    BY <1>0, <1>4, KickoffWakeStep
  <2>2. 0 \in Members
    BY <1>0, <2>1, MemberFacts DEF KeepsStretch, MemberInv
  <2>3. UNCHANGED <<done, current_chunk, chunk, ec, abort, ret, n_graph, node>>
    BY <1>4 DEF KickoffWake, work, local
  <2>4. pc'[0] # "kick"
    BY <1>0, <1>4 DEF KickoffWake, Goto, TypeOK
  <2> QED BY <2>1, <2>2, <2>3, <2>4, EnterWork
<1>5. ASSUME NEW t \in Threads, Run(t) PROVE WorkInv'
  <2>1. CASE Enter(t)
    <3>1. KeepsStretch
      BY <1>0, <2>1, EnterStep
    <3>2. /\ pc[t] = "enter" /\ Loc(t) = "enter" /\ t \in Members
      BY <1>0, <2>1, LocFacts, InGraph DEF Enter, GraphPCs
    <3>3. /\ UNCHANGED <<n_graph, n_barrier, n_barrier_passed, seen, last_graph, graphs,
                         ret, done, current_chunk, chunk, ec, abort>>
          /\ \A u \in Threads : u # t => nth'[u] = nth[u] /\ node'[u] = node[u]
          /\ nth'[t] = n_graph.n /\ node'[t] = 0
          /\ pc' = [pc EXCEPT ![t] = "loop"]
      BY <1>0, <2>1 DEF Enter, Goto, bar, sync, work, TypeOK
    <3>4. /\ \A u \in Threads : u # t => Loc(u)' = Loc(u)
          /\ Loc(t)' = "loop"
      BY <1>0, <3>2, <3>3, GraphMove DEF GraphPCs
    <3>5. pc'[0] # "kick"
      BY <3>1, PoolFacts DEF KeepsStretch, Running, Loc, Released, GraphPCs, BarrierPCs
    <3> QED BY <3>1, <3>2, <3>3, <3>4, <3>5, EnterWork
  <2>2. CASE Loop(t)
    BY <1>0, <2>2, LoopWork
  <2>3. CASE Convert(t)
    BY <1>0, <2>3, ConvertWork
  <2>4. CASE ComputeChunk(t)
    <3>1. node[t] \in Ops
      BY <2>4, NodeFacts DEF ComputeChunk
    <3> QED BY <1>0, <2>4, <3>1, ChunkWork
  <2>5. CASE FetchChunk(t)
    BY <1>0, <2>5, FetchWork
  <2>6. CASE EndNode(t)
    BY <1>0, <2>6, EndNodeWork
  <2>7. CASE Arrive(t) \/ Add(t) \/ Clear(t) \/ Open(t) \/ Spin(t)
    <3>1. UNCHANGED <<done, current_chunk, chunk, ec, last_graph>>
      BY <2>7 DEF Arrive, Add, Clear, Open, Spin, work, local
    <3>2. Stays \/ Passes
      BY <1>0, <2>7, ArriveStep, AddStep, ClearStep, OpenStep, SpinStep
    <3> QED BY <1>0, <3>1, <3>2, StayWork, PassWork
  <2> QED BY <1>5, <2>1, <2>2, <2>3, <2>4, <2>5, <2>6, <2>7 DEF Run
<1>6. ASSUME NEW w \in Workers, Work(w) \/ SpuriousWake(w) PROVE WorkInv'
  <2>0. w \in Threads /\ w # 0
    BY PoolFacts
  <2>1. CASE Run(w)
    BY <1>5, <2>0, <2>1
  <2>2. CASE ~Run(w)
    <3>1. /\ UNCHANGED <<n_graph, bar, work, local, ret, graphs>>
          /\ \/ \E q \in RestPCs :
                   pc[w] \in RestPCs /\ pc' = [pc EXCEPT ![w] = q]
             \/ pc' = pc
             \/ /\ pc[w] \in RestPCs /\ pc' = [pc EXCEPT ![w] = "enter"]
                /\ last_graph' = [last_graph EXCEPT ![w] = n_graph]
                /\ n_graph # last_graph[w] /\ w < n_graph.n
          /\ last_graph' \in {last_graph, [last_graph EXCEPT ![w] = n_graph]}
      BY <1>6, <2>2 DEF Work, CheckPause, PauseWait, PauseWoken, CheckStop, PollFlags,
         PollGraph, WaitForWork, SpuriousWake, Goto, sync, RestPCs, Pending
    <3>2. UNCHANGED <<done, current_chunk, chunk, ec, abort, node>>
      BY <3>1 DEF work, local
    <3>3. \A v \in Workers : last_graph'[v] \in {last_graph[v], n_graph}
      BY <1>0, <3>1, PoolFacts DEF TypeOK
    <3>4. CASE \E q \in RestPCs :
                  pc[w] \in RestPCs /\ pc' = [pc EXCEPT ![w] = q]
      <4>1. Stays
        BY <1>0, <3>1, <3>4, RestStep
      <4> QED BY <1>0, <3>2, <3>3, <4>1, StayWork
    <3>5. CASE pc' = pc
      <4>1. \A u \in Threads : Loc(u)' = Loc(u)
        BY <3>1, <3>5, LocFrame DEF bar
      <4>2. Stays
        BY <3>1, <3>5, <4>1 DEF Stays, work, local
      <4> QED BY <1>0, <3>2, <3>3, <4>2, StayWork
    <3>6. CASE /\ pc[w] \in RestPCs /\ pc' = [pc EXCEPT ![w] = "enter"]
               /\ last_graph' = [last_graph EXCEPT ![w] = n_graph]
               /\ n_graph # last_graph[w] /\ w < n_graph.n
      <4>1. /\ KeepsStretch
            /\ \A u \in Threads : u # w => Loc(u)' = Loc(u)
            /\ Loc(w) = "out" /\ Loc(w)' = "enter"
        BY <1>0, <3>1, <3>6, JoinGraph
      <4>2. w \in Members
        BY <1>0, <2>0, <3>6, PoolFacts, MemberFacts DEF Members, Workers
      <4>3. pc'[0] # "kick"
        BY <4>1, PoolFacts DEF KeepsStretch, Running, Loc, Released, GraphPCs, BarrierPCs
      <4> QED BY <3>1, <3>2, <4>1, <4>2, <4>3, EnterWork
    <3> QED BY <3>1, <3>4, <3>5, <3>6
  <2> QED BY <2>1, <2>2
<1>7. CASE UNCHANGED vars
  <2>1. \A u \in Threads : Loc(u)' = Loc(u)
    BY <1>7, LocFrame DEF vars, bar
  <2>2. Stays /\ last_graph' = last_graph /\ UNCHANGED <<done, current_chunk, chunk, ec>>
    BY <1>7, <2>1 DEF Stays, vars, sync, work, local
  <2> QED BY <1>0, <2>2, StayWork
<1> QED BY <1>0, <1>1, <1>2, <1>3, <1>4, <1>5, <1>6, <1>7
        DEF Next, Caller, Call, Freed

LEMMA WorkHolds == Spec => [](IInv /\ WorkInv)
<1>1. Init => IInv /\ WorkInv
  BY InitHolds, InitWork
<1>2. IInv /\ WorkInv /\ [Next]_vars => IInv' /\ WorkInv'
  BY InvStep, WorkStep
<1> QED BY <1>1, <1>2, PTL DEF Spec

(* In a graph that runs, every element was computed once or not yet.       *)
LEMMA DoneOnce ==
    ASSUME IInv, NEW n \in Ops, ComputingWork(n)
    PROVE  \A k \in Ops : \A c \in Cells : done[k][c] \in {0, 1}
<1> SUFFICES ASSUME NEW k \in Ops, NEW c \in Cells
             PROVE  done[k][c] \in {0, 1}
  OBVIOUS
<1>1. k < n \/ k = n \/ k >= n + 1
  BY PoolFacts
<1> QED BY <1>1 DEF ComputingWork, Order!Complete, Order!NothingFrom

(* A step of the pool is a step of one thread that computes the graph      *)
(* alone, or no step of it.                                                *)
LEMMA StepRefines ==
    IInv /\ WorkInv /\ [Next]_vars => [Order!Next]_(Order!vars)
<1> SUFFICES ASSUME IInv, WorkInv, [Next]_vars
             PROVE  Order!Next \/ UNCHANGED Order!vars
  OBVIOUS
<1>0. TypeOK' /\ TypeOK /\ 0 \in Threads /\ PlaceInv
  BY TypeStep, PoolFacts DEF IInv
<1>1. ASSUME NEW n \in 1 .. N + 1, Compute(n) PROVE Order!Begin
  <2>1. pc[0] = "idle" /\ pc'[0] = "kick" /\ done' = Order!Untouched /\ result' = result
    BY <1>0, <1>1 DEF Compute, Goto, TypeOK, Order!Untouched
  <2> QED BY <2>1 DEF Order!Begin
<1>2. CASE Finish
  <2>1. pc[0] = "done" /\ pc'[0] = "idle" /\ done' = done /\ result' = ec
    BY <1>0, <1>2 DEF Finish, Goto, TypeOK, work
  <2>2. ~Running
    BY <1>0, <2>1, LocFacts DEF Running, CallerPCs
  <2>3. EndedWork
    BY <2>1, <2>2 DEF WorkInv
  <2>4. node[0] \in 0 .. NNodes /\ ec \in {"success", "aborted"}
    BY <1>0 DEF TypeOK
  <2> QED BY <2>1, <2>3, <2>4 DEF EndedWork, Order!Return, Order!Next
<1>3. ASSUME NEW t \in Threads, ComputeChunk(t) PROVE Order!Next
  <2>1. /\ node[t] \in Ops /\ ComputingWork(node[t]) /\ Running
        /\ Loc(t) = "chunks"
    BY <1>3, NodeWork DEF ComputeChunk
  <2>2. PICK m \in Ops : m = node[t]
    BY <2>1
  <2>3. /\ \A n \in Ops : n # m => done'[n] = done[n]
        /\ \A c \in Cells : done'[m][c] \in {0, 1}
        /\ \A c \in Cells : done[m][c] = 1 => done'[m][c] = 1
    BY <1>0, <1>3, <2>2, ChunkWork
  <2>4. /\ pc[0] \notin {"idle", "join", "freed"}
        /\ pc'[0] \notin {"idle", "join", "freed"}
    <3>1. pc[0] \notin {"idle", "join", "freed"}
      BY <1>0, <2>1, LocFacts DEF Running, CallerPCs
    <3> QED BY <1>0, <1>3, <3>1 DEF ComputeChunk, Goto, TypeOK
  <2>5. done' \in [Ops -> [Cells -> {0, 1}]]
    <3>1. done' \in [Ops -> [Cells -> Nat]]
      BY <1>0 DEF TypeOK
    <3>2. \A k \in Ops : \A c \in Cells : done'[k][c] \in {0, 1}
      BY <2>1, <2>2, <2>3, DoneOnce
    <3> QED BY <3>1, <3>2
  <2>6. result' = result
    BY <1>3 DEF ComputeChunk
  <2>7. Order!ComputeChunk(m)
    BY <2>1, <2>2, <2>3, <2>4, <2>5, <2>6 DEF ComputingWork, Order!ComputeChunk
  <2> QED BY <2>7 DEF Order!Next
<1>4. ASSUME /\ UNCHANGED <<done, result>>
             /\ pc'[0] \in {"idle", "join", "freed"} <=>
                   pc[0] \in {"idle", "join", "freed"}
      PROVE  UNCHANGED Order!vars
  BY <1>4 DEF Order!vars
<1>5. CASE (\E b \in BOOLEAN : SetPause(b)) \/ Free \/ Kickoff \/ KickoffWake \/ Join
  BY <1>0, <1>4, <1>5 DEF SetPause, Free, Kickoff, KickoffWake, Join, Goto, TypeOK,
     work
<1>6. ASSUME NEW t \in Threads, Run(t), ~ComputeChunk(t) PROVE UNCHANGED Order!vars
  <2>1. UNCHANGED <<done, result>>
    BY <1>6 DEF Run, Enter, Loop, Convert, FetchChunk, EndNode, Arrive, Add, Clear,
       Open, Spin, work
  <2>2. pc[t] \in GraphPCs \cup BarrierPCs
    BY <1>6 DEF Run, Enter, Loop, Convert, FetchChunk, EndNode, Arrive, Add, Clear,
       Open, Spin, GraphPCs, BarrierPCs
  <2>3. \E q : pc' = [pc EXCEPT ![t] = q] /\ q \notin {"idle", "join", "freed"}
    <3>1. ret[t] \notin {"idle", "join", "freed"}
      BY <1>0, LocFacts
    <3>2. pc[t] \notin {"idle", "join", "freed"} /\ pc = [pc EXCEPT ![t] = pc[t]]
      BY <1>0, <2>2 DEF GraphPCs, BarrierPCs, TypeOK
    <3> QED BY <1>6, <3>1, <3>2 DEF Run, Enter, Loop, Convert, FetchChunk, EndNode,
               Arrive, Add, Clear, Open, Spin, Return, Goto, CallBarrier
  <2>4. pc'[0] \in {"idle", "join", "freed"} <=> pc[0] \in {"idle", "join", "freed"}
    BY <1>0, <2>2, <2>3 DEF TypeOK, GraphPCs, BarrierPCs
  <2> QED BY <1>4, <2>1, <2>4
<1>7. ASSUME NEW w \in Workers, Work(w) \/ SpuriousWake(w), ~Run(w)
      PROVE  UNCHANGED Order!vars
  <2>1. w \in Threads /\ w # 0
    BY PoolFacts
  <2>2. UNCHANGED <<done, result>>
    BY <1>7 DEF Work, CheckPause, PauseWait, PauseWoken, CheckStop, PollFlags,
       PollGraph, WaitForWork, SpuriousWake, work
  <2>3. pc' = pc \/ \E q : pc' = [pc EXCEPT ![w] = q]
    BY <1>7 DEF Work, CheckPause, PauseWait, PauseWoken, CheckStop, PollFlags,
       PollGraph, WaitForWork, SpuriousWake, Goto
  <2>4. pc'[0] = pc[0]
    BY <1>0, <2>1, <2>3 DEF TypeOK
  <2> QED BY <1>4, <2>2, <2>4
<1>8. CASE UNCHANGED vars
  BY <1>4, <1>8 DEF vars, work
<1> QED BY <1>0, <1>1, <1>2, <1>3, <1>5, <1>6, <1>7, <1>8, PoolFacts
        DEF Next, Caller, Call, Freed, Order!Next, Work

(* However many threads the pool has and however a product is cut, what    *)
(* ggml_graph_compute() does is what one thread would do: node after node, *)
(* every element once, "success" only for a whole graph.                   *)
THEOREM PoolComputesInOrder == Spec => ComputesInOrder
<1>1. Init => Order!Init
  <2> SUFFICES ASSUME Init PROVE Order!Init
    OBVIOUS
  <2>1. pc[0] = "idle" /\ result = "none" /\ done = Order!Untouched
    BY PoolFacts DEF Init, Order!Untouched
  <2> QED BY <2>1 DEF Order!Init
<1> QED BY <1>1, StepRefines, WorkHolds, PTL DEF Spec, ComputesInOrder, Order!Spec
=============================================================================
