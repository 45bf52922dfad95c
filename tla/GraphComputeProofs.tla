------------------------- MODULE GraphComputeProofs -------------------------
(***************************************************************************)
(* Proofs about the thread pool, for any number of threads, any graph and  *)
(* any size of the product.                                                *)
(*                                                                         *)
(* The barrier is what the argument turns on. A thread that spins has left *)
(* the barrier the moment the counter of openings moves, not when it looks *)
(* at it: so Loc() puts a thread that is released but has not noticed yet  *)
(* where it will go. Seen that way all threads of a graph pass a barrier   *)
(* in one step, and between two barriers they are in one of two stretches: *)
(* on the way from a node to the next one that stops them (Seeking), or    *)
(* computing the chunks of one node (Computing).                           *)
(***************************************************************************)
EXTENDS GraphCompute, FiniteSetTheorems, TLAPS

CallerPCs == {"idle", "kick", "wake", "join", "freed", "done"}
RestPCs   == {"top", "pauseLock", "paused", "stopCheck", "flags", "poll", "lock",
              "exited"}
BarrierPCs == {"arrive", "add", "clear", "open", "spin"}
GraphPCs  == {"enter", "loop", "convert", "chunks", "fetch", "after"}

(* The barrier a thread spins at has been opened.                          *)
Released(t) == pc[t] = "spin" /\ seen[t] # n_barrier_passed

Loc(t) ==
    IF Released(t) THEN (IF ret[t] = "leave" THEN "out" ELSE ret[t])
    ELSE IF pc[t] \in BarrierPCs THEN "wait"
    ELSE IF pc[t] \in GraphPCs THEN pc[t]
    ELSE "out"

(* From the announcement of a graph until its last barrier opens.          *)
Running == Loc(0) # "out" \/ pc[0] = "wake"

Members == 0 .. n_graph.n - 1

(* The threads the barrier has counted.                                    *)
Waiting == {t \in Threads : pc[t] = "spin" /\ seen[t] = n_barrier_passed}

(* The node a thread has come to; a member that is not in yet begins at 0. *)
Pos(t) == IF Loc(t) \in {"out", "enter"} THEN 0 ELSE node[t]

PassedOver(x) == x \notin Ops /\ x # abort /\ x < NNodes

(* On the way: whatever lies between two members stops neither of them.    *)
Seeking ==
    /\ \A t \in Members :
          \/ Loc(t) \in {"out", "enter", "loop", "convert"}
          \/ Loc(t) = "wait" /\ ret[t] # "loop"
    /\ \A t, u \in Members : \A x \in Int :
          Pos(t) <= x /\ x < Pos(u) => PassedOver(x)

(* In the chunks of node n, or through with them.                          *)
AtNode(t, n) ==
    \/ Loc(t) \in {"chunks", "fetch", "after"} /\ node[t] = n
    \/ Loc(t) = "wait" /\ ret[t] = "loop" /\ node[t] = n + 1 /\ n + 1 < NNodes
    \/ Loc(t) = "loop" /\ node[t] = n + 1 /\ n + 1 = NNodes
    \/ Loc(t) = "wait" /\ ret[t] = "leave" /\ node[t] = n + 1 /\ n + 1 = NNodes

Computing(n) ==
    \A t \in Members : AtNode(t, n) /\ converted[t] = n

(* Who can be where; a graph that is begun is within the bound.            *)
PlaceInv ==
    /\ pc[0] \notin {"idle", "join", "freed"} => graphs < MaxGraphs
    /\ pc[0] \in CallerPCs \cup GraphPCs \cup BarrierPCs
    /\ \A w \in Workers : pc[w] \in RestPCs \cup GraphPCs \cup BarrierPCs

(* The counter is the number of threads that wait; the thread that makes   *)
(* it full waits for all the others to be there, and opens.                *)
CountInv ==
    /\ \A t \in Threads : seen[t] <= n_barrier_passed
    /\ \A t \in Threads : pc[t] = "add" => seen[t] = n_barrier_passed
    /\ \A t \in Threads : pc[t] \in {"clear", "open"} =>
          Waiting = Members \ {t}
    /\ \A t \in Threads : pc[t] = "clear" => n_barrier = n_graph.n
    /\ \A t \in Threads : pc[t] = "open" => n_barrier = 0
    /\ (\A t \in Threads : pc[t] \notin {"clear", "open"}) =>
          n_barrier = Cardinality(Waiting)

(* Only members are inside a graph, only while it runs, and none of them   *)
(* comes back to it.                                                       *)
MemberInv ==
    /\ pc[0] = "kick" => nth[0] \in 1 .. N
    /\ Running => n_graph.n \in 1 .. N
    /\ \A w \in Workers : Loc(w) # "out" =>
          Running /\ w < n_graph.n /\ last_graph[w] = n_graph
    /\ ~Running => \A w \in Workers : w < n_graph.n => last_graph[w] = n_graph
    /\ \A t \in Threads : Loc(t) \notin {"out", "enter"} => nth[t] = n_graph.n

(* What stopped a thread.                                                  *)
StopInv ==
    \A t \in Threads :
        /\ Loc(t) = "convert" => node[t] \in Ops /\ abort # node[t]
        /\ Loc(t) = "wait" /\ ret[t] = "chunks" =>
              node[t] \in Ops /\ abort # node[t] /\ converted[t] = node[t]
        /\ Loc(t) = "wait" /\ ret[t] = "leave" =>
              node[t] = NNodes \/ abort = node[t]

StretchInv == Running => Seeking \/ \E n \in Ops : Computing(n)

IInv ==
    /\ TypeOK /\ PlaceInv /\ CountInv /\ MemberInv /\ StopInv /\ StretchInv

(* A step with which no thread leaves its place, one with which all        *)
(* members pass the barrier they wait at, and one that ends no stretch.    *)
Stays ==
    /\ \A u \in Threads : Loc(u)' = Loc(u)
    /\ pc'[0] = "wake" <=> pc[0] = "wake"
    /\ pc'[0] = "kick" => pc[0] = "kick"
    /\ pc'[0] = pc[0] \/ pc[0] \in BarrierPCs
    /\ UNCHANGED <<n_graph, nth, node, ret, converted, abort>>

Passes ==
    /\ Running
    /\ \A u \in Members : Loc(u) = "wait"
    /\ \A u \in Members : Loc(u)' = IF ret[u] = "leave" THEN "out" ELSE ret[u]
    /\ \A u \in Threads : u \notin Members => Loc(u)' = "out"
    /\ pc'[0] \notin {"wake", "kick"}
    /\ UNCHANGED <<n_graph, nth, node, ret, converted, abort, last_graph>>

KeepsStretch ==
    /\ Running /\ Running'
    /\ Seeking => Seeking'
    /\ \A n \in Ops : Computing(n) => Computing(n)'

-----------------------------------------------------------------------------
(* Where threads are.                                                      *)

Locs == {"out", "wait"} \cup GraphPCs

LEMMA PoolFacts ==
    /\ 0 \in Threads /\ N \in Nat /\ N > 0 /\ NNodes \in Nat
    /\ Threads \subseteq Int
    /\ Workers \subseteq Threads
    /\ \A t \in Threads : t = 0 \/ t \in Workers
    /\ \A w \in Workers : w # 0 /\ w > 0
    /\ \A n \in Ops : n \in Int /\ n >= 0 /\ n < NNodes
BY PoolAssumption DEF Threads, Workers

(* A thread is placed by its own program counter and by the openings of    *)
(* the barrier.                                                            *)
LEMMA LocFrame ==
    ASSUME NEW t, n_barrier_passed' = n_barrier_passed,
           pc'[t] = pc[t], ret'[t] = ret[t], seen'[t] = seen[t]
    PROVE  Loc(t)' = Loc(t) /\ Released(t)' = Released(t)
BY DEF Loc, Released

LEMMA LocFacts ==
    ASSUME TypeOK, NEW t \in Threads
    PROVE  /\ Loc(t) \in Locs
           /\ ret[t] \in {"loop", "chunks", "leave"}
           /\ pc[t] \in GraphPCs => Loc(t) = pc[t]
           /\ pc[t] \in BarrierPCs \ {"spin"} => Loc(t) = "wait"
           /\ t \in Waiting => Loc(t) = "wait"
           /\ pc[t] \in CallerPCs \cup RestPCs => Loc(t) = "out"
           /\ Loc(t) = "wait" => pc[t] \in BarrierPCs /\ ~Released(t)
           /\ Loc(t) # "out" =>
                 pc[t] \in GraphPCs \cup BarrierPCs
           /\ node[t] \in Int /\ node[t] >= 0 /\ node[t] <= NNodes
BY PoolFacts DEF TypeOK, Loc, Locs, Released, Waiting, GraphPCs, BarrierPCs,
   CallerPCs, RestPCs, PCs

(* Who is inside is a member of a graph that runs.                         *)
LEMMA InGraph ==
    ASSUME TypeOK, MemberInv, NEW t \in Threads, Loc(t) # "out"
    PROVE  /\ Running
           /\ t \in Members
           /\ n_graph.n \in 1 .. N
           /\ t # 0 => last_graph[t] = n_graph
<1>1. CASE t = 0
  BY <1>1, PoolFacts DEF MemberInv, Running, Members
<1>2. CASE t \in Workers
  BY <1>2, PoolFacts DEF MemberInv, Members, Workers
<1> QED BY <1>1, <1>2, PoolFacts

LEMMA MemberFacts ==
    ASSUME TypeOK
    PROVE  /\ Members \subseteq Threads
           /\ n_graph.n \in Int /\ n_graph.n >= 0 /\ n_graph.n <= N
           /\ n_graph.n >= 1 => 0 \in Members
           /\ IsFiniteSet(Members) /\ Cardinality(Members) = n_graph.n
<1>1. n_graph.n \in 0 .. N
  BY DEF TypeOK
<1>2. /\ IsFiniteSet(0 .. n_graph.n - 1)
      /\ Cardinality(0 .. n_graph.n - 1) = n_graph.n
  <2> DEFINE b == n_graph.n - 1
  <2>1. b \in Int /\ b >= -1 /\ n_graph.n = b + 1
    BY <1>1, PoolFacts
  <2> HIDE DEF b
  <2>2. /\ IsFiniteSet(0 .. b)
        /\ Cardinality(0 .. b) = IF 0 > b THEN 0 ELSE b - 0 + 1
    BY <2>1, FS_Interval
  <2>3. Cardinality(0 .. b) = b + 1
    BY <2>1, <2>2
  <2> QED BY <2>1, <2>2, <2>3 DEF b
<1> QED BY <1>1, <1>2, PoolFacts DEF Members, Threads

(* Where nothing moves nothing changes: threads that only turn their eyes  *)
(* to an open barrier, take a place in the queue, or wait between graphs.  *)
LEMMA SameLoc ==
    ASSUME IInv, TypeOK', Stays,
           \A w \in Workers : last_graph'[w] \in {last_graph[w], n_graph}
    PROVE  /\ MemberInv' /\ StopInv' /\ StretchInv'
           /\ Running' <=> Running
           /\ Running => KeepsStretch
<1> USE DEF Stays
<1>1. Running' <=> Running
  BY PoolFacts DEF Running
<1>2. MemberInv'
  BY <1>1, PoolFacts DEF IInv, MemberInv
<1>3. StopInv'
  BY DEF IInv, StopInv
<1>4. Members' = Members
  BY DEF Members
<1>5. \A u \in Members : Loc(u)' = Loc(u)
  BY MemberFacts DEF IInv
<1>6. \A u \in Members : Pos(u)' = Pos(u)
  BY <1>5 DEF Pos
<1>7. Seeking => Seeking'
  BY <1>4, <1>5, <1>6 DEF Seeking, PassedOver
<1>8. \A n : Computing(n) => Computing(n)'
  BY <1>4, <1>5 DEF Computing, AtNode
<1>9. StretchInv'
  BY <1>1, <1>7, <1>8 DEF IInv, StretchInv
<1> QED BY <1>1, <1>2, <1>3, <1>7, <1>8, <1>9 DEF KeepsStretch

(* A step inside the graph, away from the barrier.                         *)
LEMMA GraphMove ==
    ASSUME IInv, TypeOK', NEW t \in Threads, NEW q \in GraphPCs \cup {"arrive"},
           pc[t] \in GraphPCs, pc' = [pc EXCEPT ![t] = q],
           UNCHANGED <<n_graph, n_barrier, n_barrier_passed, seen, last_graph,
                       graphs>>,
           \A u \in Threads : u # t => ret'[u] = ret[u] /\ nth'[u] = nth[u],
           nth'[t] = n_graph.n
    PROVE  /\ PlaceInv' /\ CountInv' /\ MemberInv'
           /\ Running /\ Running' /\ t \in Members /\ Members' = Members
           /\ \A u \in Members : u \in Threads
           /\ \A u \in Threads : u # t => Loc(u)' = Loc(u)
           /\ Loc(t) = pc[t] /\ Loc(t)' = IF q = "arrive" THEN "wait" ELSE q
<1> USE DEF IInv
<1>1. \A u \in Threads : u # t => pc'[u] = pc[u]
  BY DEF TypeOK
<1>2. pc'[t] = q /\ pc[t] \notin BarrierPCs /\ q \notin {"add", "clear", "open", "spin"}
  BY DEF TypeOK, GraphPCs, BarrierPCs
<1>3. \A u \in Threads : u # t => Loc(u)' = Loc(u)
  BY <1>1, LocFrame
<1>4. Loc(t) = pc[t] /\ Loc(t)' = IF q = "arrive" THEN "wait" ELSE q
  BY <1>2, LocFacts DEF Loc, Released, GraphPCs, BarrierPCs
<1>5. Loc(t) # "out" /\ Loc(t)' # "out"
  BY <1>4 DEF GraphPCs
<1>6. Running /\ t \in Members /\ n_graph.n \in 1 .. N
      /\ (t # 0 => last_graph[t] = n_graph)
  BY <1>5, InGraph
<1>7. Running'
  BY <1>1, <1>3, <1>5, <1>6, PoolFacts DEF Running
<1>8. PlaceInv'
  BY <1>1, <1>2, PoolFacts DEF PlaceInv, CallerPCs, RestPCs, GraphPCs, BarrierPCs
<1>9. Waiting' = Waiting
  BY <1>1, <1>2 DEF Waiting, BarrierPCs
<1>10. Members' = Members
  BY DEF Members
<1>11. \A u \in Threads : /\ pc'[u] = "add" <=> pc[u] = "add"
                          /\ pc'[u] = "clear" <=> pc[u] = "clear"
                          /\ pc'[u] = "open" <=> pc[u] = "open"
  BY <1>1, <1>2 DEF BarrierPCs
<1>12. CountInv'
  BY <1>9, <1>10, <1>11 DEF CountInv
<1>13. MemberInv'
  <2>1. pc'[0] # "kick"
    BY <1>2, <1>1, <1>6, PoolFacts DEF Running, GraphPCs, PlaceInv, Loc, Released,
       BarrierPCs
  <2>2. \A w \in Workers : Loc(w)' # "out" =>
           w < n_graph.n /\ last_graph[w] = n_graph
    BY <1>3, <1>6, PoolFacts DEF MemberInv, Members
  <2>3. \A u \in Threads : Loc(u)' \notin {"out", "enter"} => nth'[u] = n_graph.n
    BY <1>3 DEF MemberInv
  <2> QED BY <1>6, <1>7, <2>1, <2>2, <2>3 DEF MemberInv
<1> QED BY <1>3, <1>4, <1>6, <1>7, <1>8, <1>10, <1>12, <1>13, MemberFacts
(* All members wait at the same barrier.                                   *)
LEMMA SameBarrier ==
    ASSUME IInv, Running, NEW t \in Members, NEW u \in Members,
           Loc(t) = "wait", Loc(u) = "wait"
    PROVE  node[t] = node[u] /\ ret[t] = ret[u]
<1> USE DEF IInv
<1>1. t \in Threads /\ u \in Threads
  BY MemberFacts
<1>2. /\ ret[t] \in {"loop", "chunks", "leave"} /\ node[t] \in Int
      /\ ret[u] \in {"loop", "chunks", "leave"} /\ node[u] \in Int
      /\ node[t] <= NNodes /\ node[u] <= NNodes /\ NNodes \in Int
  BY <1>1, LocFacts, PoolFacts
<1>3. CASE Seeking
  <2>1. ret[t] \in {"chunks", "leave"} /\ ret[u] \in {"chunks", "leave"}
    BY <1>2, <1>3 DEF Seeking
  <2>2. ~PassedOver(node[t]) /\ ~PassedOver(node[u])
    BY <1>1, <1>2, <2>1 DEF StopInv, PassedOver
  <2>3. Pos(t) = node[t] /\ Pos(u) = node[u]
    BY DEF Pos
  <2>4. \A v, w \in Members : \A x \in Int :
           Pos(v) <= x /\ x < Pos(w) => PassedOver(x)
    BY <1>3 DEF Seeking
  <2>5. ~(node[t] < node[u]) /\ ~(node[u] < node[t])
    BY <1>2, <2>2, <2>3, <2>4
  <2>6. node[t] = node[u]
    BY <1>2, <2>5
  <2>7. ret[t] = "chunks" <=> ret[u] = "chunks"
    BY <1>1, <2>1, <2>6, PoolFacts DEF StopInv
  <2> QED BY <2>1, <2>6, <2>7
<1>4. CASE \E n \in Ops : Computing(n)
  <2>1. PICK n \in Ops : Computing(n)
    BY <1>4
  <2>2. AtNode(t, n) /\ AtNode(u, n)
    BY <2>1 DEF Computing
  <2> QED BY <2>2, PoolFacts DEF AtNode
<1> QED BY <1>3, <1>4 DEF StretchInv

(* The barrier opens: all members go on in one step.                       *)
LEMMA Pass ==
    ASSUME IInv, TypeOK', Passes
    PROVE  /\ MemberInv' /\ StopInv' /\ StretchInv'
           /\ \A u \in Members : node[u] = node[0] /\ ret[u] = ret[0]
           /\ ret[0] = "leave" => ~Running'
           /\ ret[0] = "chunks" => \E n \in Ops : n = node[0] /\ Computing(n)'
           /\ ret[0] = "loop" => Seeking'
<1> USE DEF IInv, Passes
<1>1. n_graph.n \in 1 .. N /\ 0 \in Members /\ Members \subseteq Threads
      /\ Members' = Members
  BY MemberFacts, PoolFacts DEF MemberInv, Members
<1>2. \A u \in Members : node[u] = node[0] /\ ret[u] = ret[0]
  BY <1>1, SameBarrier
<1>3. ret[0] \in {"loop", "chunks", "leave"}
  BY LocFacts, PoolFacts
<1>4. \A u \in Threads : Loc(u)' \in {"out", "loop", "chunks"}
  BY <1>1, <1>2, <1>3
<1>5. StopInv'
  BY <1>4 DEF StopInv
<1>6. \A w \in Workers : w < n_graph.n =>
         w \in Members /\ last_graph[w] = n_graph
  <2> TAKE w \in Workers
  <2> HAVE w < n_graph.n
  <2>1. w \in Members /\ w \in Threads /\ w # 0
    BY <1>1, PoolFacts DEF Members, Workers
  <2> QED BY <2>1, InGraph
<1>7. \A u \in Members : nth[u] = n_graph.n
  BY <1>1 DEF MemberInv
<1>8. \A w \in Workers : w \in Members => w < n_graph.n
  BY <1>1 DEF Members, Workers
<1>9. CASE ret[0] = "leave"
  <2>1. \A u \in Threads : Loc(u)' = "out"
    BY <1>1, <1>2, <1>9
  <2>2. ~Running'
    BY <2>1, PoolFacts DEF Running
  <2>3. MemberInv'
    BY <1>6, <2>1, <2>2, PoolFacts DEF MemberInv
  <2> QED BY <1>2, <1>5, <1>9, <2>2, <2>3 DEF StretchInv
<1>10. CASE ret[0] # "leave"
  <2>1. \A u \in Members : Loc(u)' = ret[0]
    BY <1>2, <1>10
  <2>2. Running'
    BY <1>1, <1>3, <1>10, <2>1 DEF Running
  <2>3. MemberInv'
    BY <1>1, <1>6, <1>7, <1>8, <2>2, PoolFacts DEF MemberInv
  <2>4. CASE ret[0] = "chunks"
    <3>1. \A u \in Members : /\ node[0] \in Ops /\ node[u] = node[0]
                             /\ converted[u] = node[0] /\ Loc(u)' = "chunks"
      BY <1>1, <1>2, <2>1, <2>4 DEF StopInv
    <3>2. PICK n \in Ops : n = node[0]
      BY <1>1, <3>1
    <3>3. Computing(n)'
      BY <1>1, <3>1, <3>2 DEF Computing, AtNode
    <3> QED BY <1>2, <1>5, <2>3, <2>4, <3>2, <3>3 DEF StretchInv
  <2>5. CASE ret[0] = "loop"
    <3>1. \A u \in Members : Loc(u)' = "loop" /\ Pos(u)' = node[0]
      BY <1>2, <2>1, <2>5 DEF Pos
    <3>2. node[0] \in Int
      BY LocFacts, PoolFacts
    <3>3. Seeking'
      BY <1>1, <3>1, <3>2 DEF Seeking
    <3> QED BY <1>2, <1>5, <2>3, <2>5, <3>3 DEF StretchInv
  <2> QED BY <1>3, <1>10, <2>4, <2>5
<1> QED BY <1>9, <1>10

(* The thread that fills the barrier finds all other members waiting.      *)
LEMMA LastOne ==
    ASSUME IInv, NEW t \in Threads, pc[t] \in {"clear", "open"}
    PROVE  /\ \A u \in Members : u # t => u \in Waiting
           /\ \A u \in Threads : u # t /\ Loc(u) # "out" =>
                 u \in Waiting /\ pc[u] = "spin"
           /\ t \in Members /\ t \notin Waiting /\ Running
<1> USE DEF IInv
<1>1. Waiting = Members \ {t}
  BY DEF CountInv
<1>2. Loc(t) = "wait"
  BY LocFacts DEF BarrierPCs
<1>3. t \in Members /\ Running
  BY <1>2, InGraph
<1>4. \A u \in Threads : Loc(u) # "out" => u \in Members
  BY InGraph
<1> QED BY <1>1, <1>3, <1>4 DEF Waiting

(* Only members wait, and a member that does not wait is missing.          *)
LEMMA WaitingFacts ==
    ASSUME IInv
    PROVE  /\ Waiting \subseteq Members /\ IsFiniteSet(Waiting)
           /\ Cardinality(Waiting) \in Nat
           /\ \A t \in Members : t \notin Waiting =>
                 /\ Cardinality(Waiting) <= n_graph.n - 1
                 /\ Cardinality(Waiting) = n_graph.n - 1 => Waiting = Members \ {t}
<1> USE DEF IInv
<1>1. \A u \in Waiting : u \in Threads /\ Loc(u) # "out"
  BY LocFacts DEF Waiting
<1>2. Waiting \subseteq Members
  BY <1>1, InGraph
<1>3. IsFiniteSet(Waiting) /\ Cardinality(Waiting) \in Nat
  BY <1>2, MemberFacts, FS_Subset, FS_CardinalityType
<1>4. ASSUME NEW t \in Members, t \notin Waiting
      PROVE  /\ Cardinality(Waiting) <= n_graph.n - 1
             /\ Cardinality(Waiting) = n_graph.n - 1 => Waiting = Members \ {t}
  <2>1. /\ IsFiniteSet(Members \ {t})
        /\ Cardinality(Members \ {t}) = n_graph.n - 1
    BY MemberFacts, FS_RemoveElement
  <2>2. Waiting \in SUBSET (Members \ {t})
    BY <1>2, <1>4
  <2>3. /\ Cardinality(Waiting) <= Cardinality(Members \ {t})
        /\ Cardinality(Members \ {t}) = Cardinality(Waiting) =>
              Members \ {t} = Waiting
    BY <2>1, <2>2, FS_Subset
  <2> QED BY <2>1, <2>3
<1> QED BY <1>2, <1>3, <1>4

-----------------------------------------------------------------------------
(* The steps, one by one.                                                  *)

LEMMA InitHolds == Init => IInv
<1> SUFFICES ASSUME Init PROVE IInv
  OBVIOUS
<1>1. TypeOK
  <2>1. /\ 0 \in 0 .. GraphWrap - 1 /\ 0 \in 0 .. N /\ 0 \in 0 .. NNodes
        /\ 0 \in 0 .. MaxGraphs /\ -1 \in -1 .. NNodes - 1 /\ -1 \in -1 .. NNodes
    BY PoolAssumption
  <2>2. n_graph \in [count : 0 .. GraphWrap - 1, n : 0 .. N]
    BY <2>1 DEF Init
  <2>3. last_graph \in [Threads -> [count : 0 .. GraphWrap - 1, n : 0 .. N]]
    BY <2>1 DEF Init
  <2>4. pc \in [Threads -> PCs] /\ ret \in [Threads -> {"loop", "chunks", "leave"}]
    BY DEF Init, PCs
  <2>5. done \in [Ops -> [Cells -> Nat]]
    BY DEF Init
  <2> QED BY <2>1, <2>2, <2>3, <2>4, <2>5 DEF Init, TypeOK
<1>2. \A t \in Threads : pc[t] \in {"idle", "top"} /\ Loc(t) = "out"
  BY DEF Init, Loc, Released, GraphPCs, BarrierPCs
<1>3. ~Running
  BY <1>2, PoolFacts DEF Running, Init
<1>4. Waiting = {} /\ Cardinality(Waiting) = 0
  <2>1. Waiting = {}
    BY <1>2 DEF Waiting
  <2> QED BY <2>1, FS_EmptySet
<1>5. PlaceInv
  BY PoolFacts DEF Init, PlaceInv, CallerPCs, RestPCs
<1>6. CountInv
  BY <1>2, <1>4 DEF Init, CountInv
<1>7. MemberInv
  BY <1>2, <1>3, PoolFacts DEF Init, MemberInv
<1>8. StopInv /\ StretchInv
  BY <1>2, <1>3 DEF StopInv, StretchInv
<1> QED BY <1>1, <1>5, <1>6, <1>7, <1>8 DEF IInv

(* A thread between the nodes, at a node or after it has a node to be at.  *)
LEMMA NodeFacts ==
    ASSUME IInv, NEW t \in Threads
    PROVE  /\ pc[t] = "convert" => node[t] \in Ops /\ abort # node[t]
           /\ pc[t] \in {"chunks", "fetch", "after"} =>
                 /\ node[t] \in Ops /\ Computing(node[t])
                 /\ nth[t] = n_graph.n
<1> USE DEF IInv
<1>1. pc[t] = "convert" => node[t] \in Ops /\ abort # node[t]
  BY LocFacts DEF StopInv, GraphPCs
<1>2. ASSUME pc[t] \in {"chunks", "fetch", "after"}
      PROVE  node[t] \in Ops /\ Computing(node[t]) /\ nth[t] = n_graph.n
  <2>1. Loc(t) = pc[t]
    BY <1>2, LocFacts DEF GraphPCs
  <2>2. Running /\ t \in Members
    BY <1>2, <2>1, InGraph
  <2>3. ~Seeking
    BY <1>2, <2>1, <2>2 DEF Seeking
  <2>4. PICK n \in Ops : Computing(n)
    BY <2>2, <2>3 DEF StretchInv
  <2>5. node[t] = n
    BY <1>2, <2>1, <2>2, <2>4 DEF Computing, AtNode
  <2> QED BY <1>2, <2>1, <2>4, <2>5 DEF MemberInv
<1> QED BY <1>1, <1>2

(* The barrier has room for a thread that comes to it.                     *)
LEMMA AddFacts ==
    ASSUME IInv, NEW t \in Threads, pc[t] = "add"
    PROVE  /\ t \in Members /\ t \notin Waiting
           /\ \A u \in Threads : pc[u] \notin {"clear", "open"}
           /\ n_barrier = Cardinality(Waiting)
           /\ n_barrier <= n_graph.n - 1 /\ n_graph.n <= N
           /\ n_barrier = n_graph.n - 1 => Waiting = Members \ {t}
<1> USE DEF IInv
<1>1. Loc(t) = "wait"
  BY LocFacts DEF BarrierPCs
<1>2. t \in Members /\ n_graph.n \in 1 .. N
  BY <1>1, InGraph
<1>3. t \notin Waiting
  BY DEF Waiting
<1>4. \A u \in Threads : pc[u] \notin {"clear", "open"}
  BY <1>2, <1>3, LastOne
<1>5. n_barrier = Cardinality(Waiting)
  BY <1>4 DEF CountInv
<1> QED BY <1>2, <1>3, <1>4, <1>5, WaitingFacts

LEMMA TypeStep == IInv /\ [Next]_vars => TypeOK'
<1> SUFFICES ASSUME IInv, [Next]_vars PROVE TypeOK'
  OBVIOUS
<1>0. TypeOK /\ PlaceInv /\ MemberInv
  BY DEF IInv
<1> USE DEF TypeOK, PCs, sync, bar, work, local
<1>1. ASSUME NEW n \in 1 .. N + 1, Compute(n) PROVE TypeOK'
  <2>1. Granted(n) \in 0 .. N
    BY PoolFacts DEF Granted
  <2>2. nth' \in [Threads -> 0 .. N]
    BY <1>0, <1>1, <2>1 DEF Compute
  <2>3. converted' \in [Threads -> -1 .. NNodes - 1] /\ abort' \in -1 .. NNodes
    BY <1>1, PoolFacts DEF Compute
  <2>4. done' \in [Ops -> [Cells -> Nat]]
    BY <1>1 DEF Compute
  <2> QED BY <1>0, <1>1, <2>2, <2>3, <2>4 DEF Compute, Goto
<1>2. ASSUME NEW b \in BOOLEAN, SetPause(b) PROVE TypeOK'
  BY <1>0, <1>2 DEF SetPause
<1>3. CASE Free
  BY <1>0, <1>3 DEF Free, Goto
<1>4. CASE Kickoff
  <2>1. (n_graph.count + 1) % GraphWrap \in 0 .. GraphWrap - 1
    BY <1>0, PoolAssumption
  <2>2. n_graph' \in [count : 0 .. GraphWrap - 1, n : 0 .. N]
    BY <1>0, <1>4, <2>1, PoolFacts DEF Kickoff
  <2> QED BY <1>0, <1>4, <2>2 DEF Kickoff, Goto
<1>5. CASE KickoffWake
  BY <1>0, <1>5 DEF KickoffWake, Goto
<1>6. CASE Finish
  BY <1>0, <1>6, PoolFacts, PoolAssumption DEF Finish, Goto, PlaceInv
<1>7. CASE Join
  BY <1>0, <1>7 DEF Join, Goto
<1>8. ASSUME NEW t \in Threads, Run(t) PROVE TypeOK'
  <2>1. CASE Enter(t)
    BY <1>0, <2>1, PoolFacts DEF Enter, Goto
  <2>2. CASE Loop(t)
    BY <1>0, <2>2, PoolFacts DEF Loop, Goto, CallBarrier
  <2>3. CASE Convert(t)
    <3>1. node[t] \in Ops /\ node[t] \in -1 .. NNodes - 1
      BY <2>3, NodeFacts, PoolFacts DEF Convert
    <3>2. current_chunk' \in Nat
      BY <1>0, <2>3, PoolFacts DEF Convert, FirstShared
    <3>3. chunk' \in [Threads -> Nat]
      <4>1. t \in Nat
        BY PoolFacts DEF Threads
      <4> QED BY <1>0, <2>3, <4>1 DEF Convert
    <3> QED BY <1>0, <2>3, <3>1, <3>2, <3>3 DEF Convert, Goto, CallBarrier
  <2>4. CASE ComputeChunk(t)
    <3>1. done' \in [Ops -> [Cells -> Nat]]
      <4> DEFINE S == Chunk(chunk[t], nth[t])
      <4> DEFINE row == [c \in Cells |->
                            done[node[t]][c] + IF c \in S THEN 1 ELSE 0]
      <4>1. done' = done \/ done' = [done EXCEPT ![node[t]] = row]
        BY <2>4 DEF ComputeChunk
      <4>2. node[t] \in Ops
        BY <2>4, NodeFacts DEF ComputeChunk
      <4>3. done[node[t]] \in [Cells -> Nat]
        BY <1>0, <4>2
      <4> HIDE DEF S
      <4>4. row \in [Cells -> Nat]
        BY <4>3
      <4> HIDE DEF row
      <4> QED BY <1>0, <4>1, <4>4
    <3>2. pc' \in [Threads -> PCs]
      BY <1>0, <2>4 DEF ComputeChunk, Goto
    <3> QED BY <1>0, <2>4, <3>1, <3>2 DEF ComputeChunk
  <2>5. CASE FetchChunk(t)
    BY <1>0, <2>5 DEF FetchChunk, Goto
  <2>6. CASE EndNode(t)
    <3>1. node[t] \in Int /\ node[t] >= 0 /\ node[t] < NNodes
      BY <2>6, NodeFacts, PoolFacts DEF EndNode
    <3> QED BY <1>0, <2>6, <3>1, PoolFacts DEF EndNode, Goto, CallBarrier
  <2>7. CASE Arrive(t)
    BY <1>0, <2>7 DEF Arrive, Return, Goto
  <2>8. CASE Add(t)
    <3>1. n_barrier + 1 \in 0 .. N
      BY <1>0, <2>8, AddFacts, MemberFacts, PoolFacts DEF Add
    <3> QED BY <1>0, <2>8, <3>1 DEF Add, Goto
  <2>9. CASE Clear(t)
    BY <1>0, <2>9, PoolFacts DEF Clear, Goto
  <2>10. CASE Open(t)
    BY <1>0, <2>10 DEF Open, Return, Goto
  <2>11. CASE Spin(t)
    BY <1>0, <2>11 DEF Spin, Return, Goto
  <2> QED BY <1>8, <2>1, <2>2, <2>3, <2>4, <2>5, <2>6, <2>7, <2>8, <2>9, <2>10,
             <2>11 DEF Run
<1>9. ASSUME NEW w \in Workers, Work(w) \/ SpuriousWake(w) PROVE TypeOK'
  <2>0. w \in Threads
    BY PoolFacts
  <2>1. CASE CheckPause(w) \/ PauseWoken(w) \/ CheckStop(w) \/ PollFlags(w)
    <3>1. /\ pc' \in [Threads -> PCs]
          /\ UNCHANGED <<sync, bar, work, local, ret, last_graph, graphs, result>>
      BY <1>0, <2>0, <2>1 DEF CheckPause, PauseWoken, CheckStop, PollFlags, Goto
    <3> QED BY <1>0, <3>1
  <2>2. CASE PauseWait(w)
    BY <1>0, <2>0, <2>2 DEF PauseWait, Goto
  <2>3. CASE PollGraph(w)
    BY <1>0, <2>0, <2>3 DEF PollGraph, Goto
  <2>4. CASE WaitForWork(w)
    <3>1. pc' \in [Threads -> PCs] /\ sleeping' \subseteq Workers
      BY <1>0, <2>0, <2>4 DEF WaitForWork, Goto
    <3>2. last_graph' \in [Threads -> [count : 0 .. GraphWrap - 1, n : 0 .. N]]
      BY <1>0, <2>0, <2>4 DEF WaitForWork
    <3> QED BY <1>0, <2>4, <3>1, <3>2 DEF WaitForWork
  <2>5. CASE SpuriousWake(w)
    BY <1>0, <2>0, <2>5 DEF SpuriousWake
  <2> QED BY <1>8, <1>9, <2>0, <2>1, <2>2, <2>3, <2>4, <2>5 DEF Work
<1>10. CASE UNCHANGED vars
  BY <1>0, <1>10 DEF vars
<1> QED BY <1>1, <1>2, <1>3, <1>4, <1>5, <1>6, <1>7, <1>8, <1>9, <1>10, PoolFacts
        DEF Next, Caller, Call, Freed

(* Steps that do not touch the barrier leave its count right.              *)
LEMMA CountFrame ==
    ASSUME IInv, UNCHANGED <<n_barrier, n_barrier_passed, seen, n_graph>>,
           \A u \in Threads : pc'[u] = pc[u] \/
              /\ pc[u] \notin {"add", "clear", "open", "spin"}
              /\ pc'[u] \notin {"add", "clear", "open", "spin"}
    PROVE  CountInv'
<1>1. Waiting' = Waiting /\ Members' = Members
  BY DEF Waiting, Members
<1>2. \A u \in Threads : /\ pc'[u] = "add" <=> pc[u] = "add"
                         /\ pc'[u] = "clear" <=> pc[u] = "clear"
                         /\ pc'[u] = "open" <=> pc[u] = "open"
  OBVIOUS
<1> QED BY <1>1, <1>2 DEF IInv, CountInv

(* A worker that moves between two graphs, or sleeps.                      *)
LEMMA RestStep ==
    ASSUME IInv, TypeOK', NEW w \in Workers, NEW q \in RestPCs,
           pc[w] \in RestPCs, pc' = [pc EXCEPT ![w] = q],
           UNCHANGED <<n_graph, bar, work, local, ret, graphs>>,
           last_graph' \in {last_graph, [last_graph EXCEPT ![w] = n_graph]}
    PROVE  IInv' /\ Stays
<1>0. w \in Threads /\ w # 0 /\ TypeOK
  BY PoolFacts DEF IInv
<1>1. pc'[w] = q /\ \A u \in Threads : u # w => pc'[u] = pc[u]
  BY <1>0 DEF TypeOK
<1>2. \A u \in Threads : Loc(u)' = Loc(u)
  BY <1>1 DEF Loc, Released, bar, RestPCs, GraphPCs, BarrierPCs
<1>3. PlaceInv'
  BY <1>0, <1>1, PoolFacts DEF IInv, PlaceInv
<1>4. CountInv'
  BY <1>1, CountFrame DEF bar, RestPCs
<1>5. \A v \in Workers : last_graph'[v] \in {last_graph[v], n_graph}
  BY <1>0, PoolFacts DEF TypeOK
<1>6. pc'[0] = pc[0]
  BY <1>0, <1>1, PoolFacts
<1>7. UNCHANGED <<n_graph, nth, node, ret, converted, abort>>
  BY DEF work, local
<1>8. Stays
  BY <1>2, <1>6, <1>7 DEF Stays
<1>9. MemberInv' /\ StopInv' /\ StretchInv'
  BY <1>5, <1>8, SameLoc
<1> QED BY <1>3, <1>4, <1>8, <1>9 DEF IInv

(* A worker that takes up the graph: it is not too late, for a graph that  *)
(* has ended is one that every member has seen.                            *)
LEMMA JoinGraph ==
    ASSUME IInv, TypeOK', NEW w \in Workers, pc[w] \in RestPCs,
           pc' = [pc EXCEPT ![w] = "enter"],
           n_graph # last_graph[w], w < n_graph.n,
           last_graph' = [last_graph EXCEPT ![w] = n_graph],
           UNCHANGED <<n_graph, bar, work, local, ret, graphs>>
    PROVE  /\ IInv' /\ KeepsStretch /\ Seeking
           /\ \A u \in Threads : u # w => Loc(u)' = Loc(u)
           /\ Loc(w) = "out" /\ Loc(w)' = "enter"
<1> USE DEF IInv
<1>0. w \in Threads /\ w # 0 /\ TypeOK
  BY PoolFacts
<1>1. pc'[w] = "enter" /\ \A u \in Threads : u # w => pc'[u] = pc[u]
  BY <1>0 DEF TypeOK
<1>2. \A u \in Threads : u # w => Loc(u)' = Loc(u)
  BY <1>1, LocFrame DEF bar
<1>3. Loc(w) = "out" /\ Loc(w)' = "enter"
  BY <1>0, <1>1, LocFacts DEF Loc, Released, GraphPCs, BarrierPCs
<1>4. PlaceInv'
  BY <1>0, <1>1, PoolFacts DEF PlaceInv, GraphPCs
<1>5. CountInv'
  BY <1>1, CountFrame DEF bar, RestPCs
<1>6. Running
  BY DEF MemberInv
<1>7. Running' /\ pc'[0] = pc[0]
  BY <1>0, <1>1, <1>2, <1>6, PoolFacts DEF Running
<1>8. \A u \in Threads :
         /\ nth'[u] = nth[u] /\ node'[u] = node[u] /\ ret'[u] = ret[u]
         /\ converted'[u] = converted[u] /\ Pos(u)' = Pos(u)
  BY <1>2, <1>3 DEF work, local, Pos
<1>9. MemberInv'
  <2>1. \A v \in Workers : Loc(v)' # "out" =>
           v < n_graph.n /\ last_graph'[v] = n_graph
    BY <1>0, <1>2, PoolFacts DEF MemberInv, TypeOK
  <2>2. \A u \in Threads : Loc(u)' \notin {"out", "enter"} => nth'[u] = n_graph.n
    BY <1>2, <1>3, <1>8 DEF MemberInv
  <2> QED BY <1>6, <1>7, <1>8, <2>1, <2>2, PoolFacts DEF MemberInv
<1>10. abort' = abort /\ n_graph' = n_graph /\ Members' = Members
       /\ Members \subseteq Threads
  BY MemberFacts DEF work, Members
<1>11. StopInv'
  BY <1>2, <1>3, <1>8, <1>10 DEF StopInv
<1>12. w \in Members
  BY <1>0, PoolFacts, MemberFacts DEF Members, Workers
<1>13. Seeking /\ \A n \in Ops : ~Computing(n)
  BY <1>3, <1>6, <1>12 DEF StretchInv, Computing, AtNode
<1>14. Seeking'
  <2>1. \A t \in Members :
          \/ Loc(t)' \in {"out", "enter", "loop", "convert"}
          \/ Loc(t)' = "wait" /\ ret'[t] # "loop"
    BY <1>2, <1>3, <1>8, <1>10, <1>13 DEF Seeking
  <2>2. \A t, u \in Members : \A x \in Int :
          Pos(t)' <= x /\ x < Pos(u)' => PassedOver(x)'
    BY <1>8, <1>10, <1>13 DEF Seeking, PassedOver
  <2> QED BY <1>10, <2>1, <2>2 DEF Seeking
<1> QED BY <1>2, <1>3, <1>4, <1>5, <1>6, <1>7, <1>9, <1>11, <1>13, <1>14
        DEF StretchInv, KeepsStretch

(* Between two graphs no thread is inside.                                 *)
LEMMA AllOut ==
    ASSUME IInv, ~Running
    PROVE  /\ \A t \in Threads : Loc(t) = "out" /\
                 pc[t] \notin {"add", "clear", "open"}
           /\ Waiting = {} /\ n_barrier = 0
<1> USE DEF IInv
<1>1. \A t \in Threads : Loc(t) = "out"
  BY PoolFacts DEF Running, MemberInv
<1>2. \A t \in Threads : pc[t] \notin {"add", "clear", "open"} /\ t \notin Waiting
  BY <1>1, LocFacts DEF BarrierPCs
<1>3. Waiting = {}
  BY <1>2 DEF Waiting
<1>4. n_barrier = Cardinality(Waiting)
  BY <1>2 DEF CountInv
<1> QED BY <1>1, <1>2, <1>3, <1>4, FS_EmptySet

(* The caller, while its graph does not run.                               *)
LEMMA CallerStep ==
    ASSUME IInv, TypeOK', NEW q \in CallerPCs \ {"wake"},
           pc[0] \in CallerPCs \ {"wake"}, pc' = [pc EXCEPT ![0] = q],
           UNCHANGED <<bar, node, ret, last_graph>>,
           q = "kick" => nth'[0] \in 1 .. N,
           q \notin {"idle", "join", "freed"} => graphs' < MaxGraphs,
           n_graph' = n_graph
    PROVE  IInv' /\ ~Running /\ ~Running'
<1> USE DEF IInv
<1>0. 0 \in Threads
  BY PoolFacts
<1>1. pc'[0] = q /\ \A u \in Threads : u # 0 => pc'[u] = pc[u]
  BY <1>0 DEF TypeOK
<1>2. Loc(0) = "out" /\ ~Running
  BY <1>0, LocFacts DEF Running, CallerPCs
<1>3. \A u \in Threads : Loc(u)' = "out"
  <2>1. Loc(0)' = "out"
    BY <1>1 DEF Loc, Released, CallerPCs, GraphPCs, BarrierPCs
  <2>2. \A u \in Threads : u # 0 => Loc(u)' = Loc(u)
    BY <1>1, LocFrame DEF bar
  <2> QED BY <1>2, <2>1, <2>2, AllOut
<1>4. ~Running'
  BY <1>0, <1>1, <1>3 DEF Running, CallerPCs
<1>5. PlaceInv'
  BY <1>1, PoolFacts DEF PlaceInv, CallerPCs
<1>6. CountInv'
  BY <1>1, CountFrame DEF bar, CallerPCs
<1>7. MemberInv'
  BY <1>1, <1>2, <1>3, <1>4, PoolFacts DEF MemberInv
<1>8. StopInv' /\ StretchInv'
  BY <1>3, <1>4 DEF StopInv, StretchInv
<1> QED BY <1>2, <1>4, <1>5, <1>6, <1>7, <1>8

(* A graph is announced: its members, late ones among them, are still out. *)
LEMMA KickoffStep ==
    ASSUME IInv, TypeOK', Kickoff
    PROVE  /\ IInv' /\ ~Running /\ Running' /\ Seeking'
           /\ \A u \in Threads : Loc(u)' = "out"
<1> USE DEF IInv
<1>0. 0 \in Threads /\ pc[0] = "kick"
  BY PoolFacts DEF Kickoff
<1>1. pc'[0] = "wake" /\ \A u \in Threads : u # 0 => pc'[u] = pc[u]
  BY <1>0 DEF TypeOK, Kickoff, Goto
<1>2. /\ n_graph'.n = nth[0] /\ nth[0] \in 1 .. N
      /\ UNCHANGED <<n_barrier, n_barrier_passed, seen, node, nth, ret, graphs>>
  BY <1>0 DEF MemberInv, Kickoff, bar, work, local
<1>3. Loc(0) = "out" /\ ~Running
  BY <1>0, LocFacts DEF Running, CallerPCs
<1>4. \A u \in Threads : Loc(u)' = "out"
  <2>1. Loc(0)' = "out"
    BY <1>1 DEF Loc, Released, GraphPCs, BarrierPCs
  <2>2. \A u \in Threads : u # 0 => Loc(u)' = Loc(u)
    BY <1>1, <1>2, LocFrame
  <2> QED BY <1>3, <2>1, <2>2, AllOut
<1>5. Running'
  BY <1>1 DEF Running
<1>6. PlaceInv'
  BY <1>0, <1>1, <1>2, PoolFacts DEF PlaceInv, CallerPCs
<1>7. CountInv'
  <2>1. \A t \in Threads : pc'[t] \notin {"add", "clear", "open"}
    BY <1>1, <1>3, AllOut
  <2>2. Waiting' = {} /\ n_barrier' = Cardinality(Waiting')
    <3>1. Waiting' = Waiting
      BY <1>0, <1>1, <1>2 DEF Waiting
    <3> QED BY <1>2, <1>3, <3>1, AllOut, FS_EmptySet
  <2>3. \A t \in Threads : seen'[t] <= n_barrier_passed'
    BY <1>2 DEF CountInv
  <2> QED BY <2>1, <2>2, <2>3 DEF CountInv
<1>8. MemberInv'
  BY <1>1, <1>2, <1>4, <1>5, PoolFacts DEF MemberInv
<1>9. StopInv'
  BY <1>4 DEF StopInv
<1>10. Seeking'
  <2>1. Members' \subseteq Threads
    BY <1>2, PoolFacts DEF Members, Threads
  <2>2. \A t \in Members' : Loc(t)' = "out" /\ Pos(t)' = 0
    BY <1>4, <2>1 DEF Pos
  <2> QED BY <2>2 DEF Seeking
<1> QED BY <1>3, <1>4, <1>5, <1>6, <1>7, <1>8, <1>9, <1>10 DEF StretchInv

LEMMA KickoffWakeStep ==
    ASSUME IInv, TypeOK', KickoffWake
    PROVE  /\ IInv' /\ KeepsStretch /\ Seeking
           /\ \A u \in Threads : u # 0 => Loc(u)' = Loc(u)
           /\ Loc(0) = "out" /\ Loc(0)' = "enter"
<1> USE DEF IInv
<1>0. 0 \in Threads /\ pc[0] = "wake"
  BY PoolFacts DEF KickoffWake
<1>1. pc'[0] = "enter" /\ \A u \in Threads : u # 0 => pc'[u] = pc[u]
  BY <1>0 DEF TypeOK, KickoffWake, Goto
<1>2. UNCHANGED <<n_graph, n_barrier, n_barrier_passed, seen, node, nth, ret, graphs,
                  last_graph, converted, abort>>
  BY DEF KickoffWake, bar, work, local
<1>3. Loc(0) = "out" /\ Running /\ Loc(0)' = "enter" /\ Running'
  BY <1>0, <1>1, LocFacts DEF Running, Loc, Released, CallerPCs, GraphPCs, BarrierPCs
<1>4. \A u \in Threads : u # 0 => Loc(u)' = Loc(u)
  BY <1>1, <1>2, LocFrame
<1>5. PlaceInv'
  BY <1>0, <1>1, <1>2, PoolFacts DEF PlaceInv, GraphPCs
<1>6. CountInv'
  BY <1>0, <1>1, <1>2, CountFrame
<1>7. MemberInv'
  BY <1>1, <1>2, <1>3, <1>4, PoolFacts DEF MemberInv
<1>8. StopInv'
  BY <1>2, <1>3, <1>4 DEF StopInv
<1>9. 0 \in Members /\ Members \subseteq Threads /\ Members' = Members
  BY <1>2, <1>3, MemberFacts DEF MemberInv, Members
<1>10. Seeking /\ \A n \in Ops : ~Computing(n)
  BY <1>3, <1>9 DEF StretchInv, Computing, AtNode
<1>11. Seeking'
  <2>1. \A t \in Members :
          \/ Loc(t)' \in {"out", "enter", "loop", "convert"}
          \/ Loc(t)' = "wait" /\ ret'[t] # "loop"
    BY <1>2, <1>3, <1>4, <1>9, <1>10 DEF Seeking
  <2>2. \A t \in Members : Pos(t)' = Pos(t)
    BY <1>2, <1>3, <1>4, <1>9 DEF Pos
  <2> QED BY <1>2, <1>9, <1>10, <2>1, <2>2 DEF Seeking, PassedOver
<1> QED BY <1>3, <1>4, <1>5, <1>6, <1>7, <1>8, <1>10, <1>11
        DEF StretchInv, KeepsStretch

(* Steps of a member inside the graph.                                     *)
LEMMA EnterStep ==
    ASSUME IInv, TypeOK', NEW t \in Threads, Enter(t)
    PROVE  IInv' /\ KeepsStretch
<1> USE DEF IInv
<1>1. /\ PlaceInv' /\ CountInv' /\ MemberInv'
      /\ Running /\ Running' /\ t \in Members /\ Members' = Members
      /\ \A u \in Members : u \in Threads
      /\ \A u \in Threads : u # t => Loc(u)' = Loc(u)
      /\ Loc(t) = "enter" /\ Loc(t)' = "loop"
  BY GraphMove DEF Enter, Goto, bar, sync, work, GraphPCs, TypeOK
<1>2. /\ UNCHANGED <<converted, abort, ret, n_graph>>
      /\ node'[t] = 0 /\ \A u \in Threads : u # t => node'[u] = node[u]
  BY DEF Enter, work, TypeOK, sync
<1>3. StopInv'
  BY <1>1, <1>2 DEF StopInv
<1>4. Seeking /\ \A n \in Ops : ~Computing(n)
  BY <1>1 DEF StretchInv, Computing, AtNode
<1>5. \A u \in Members : Pos(u)' = Pos(u)
  BY <1>1, <1>2 DEF Pos
<1>6. \A u \in Members :
          \/ Loc(u)' \in {"out", "enter", "loop", "convert"}
          \/ Loc(u)' = "wait" /\ ret'[u] # "loop"
  BY <1>1, <1>2, <1>4 DEF Seeking
<1>7. Seeking'
  BY <1>1, <1>2, <1>4, <1>5, <1>6 DEF Seeking, PassedOver
<1> QED BY <1>1, <1>3, <1>4, <1>7 DEF StretchInv, KeepsStretch

(* A member that goes on to the next node passes over one that stops no    *)
(* other member either; the one it stops at stops all.                     *)
LEMMA LoopStep ==
    ASSUME IInv, TypeOK', NEW t \in Threads, Loop(t)
    PROVE  IInv' /\ KeepsStretch
<1> USE DEF IInv
<1>0. pc[t] = "loop" /\ Loc(t) = "loop" /\ nth[t] = n_graph.n
  BY LocFacts DEF Loop, GraphPCs, MemberInv
<1>1. UNCHANGED <<converted, abort, n_graph, n_barrier, n_barrier_passed, seen,
                  last_graph, graphs, nth>>
  BY DEF Loop, work, bar, sync
<1>2. \A u \in Threads : u # t => ret'[u] = ret[u] /\ node'[u] = node[u]
  BY DEF Loop, CallBarrier, TypeOK
<1>3. node[t] \in Int /\ node[t] >= 0 /\ node[t] <= NNodes /\ NNodes \in Int
  BY LocFacts, PoolFacts
<1>4. CASE /\ node[t] >= NNodes \/ abort = node[t]
           /\ CallBarrier(t, "leave") /\ node' = node
  <2>1. /\ PlaceInv' /\ CountInv' /\ MemberInv'
        /\ Running /\ Running' /\ t \in Members /\ Members' = Members
        /\ \A u \in Members : u \in Threads
        /\ \A u \in Threads : u # t => Loc(u)' = Loc(u)
        /\ Loc(t)' = "wait"
    BY <1>0, <1>1, <1>2, <1>4, GraphMove DEF CallBarrier, Goto, GraphPCs
  <2>2. ret'[t] = "leave"
    BY <1>4 DEF CallBarrier, TypeOK
  <2>3. StopInv'
    BY <1>1, <1>2, <1>3, <1>4, <2>1, <2>2 DEF StopInv
  <2>4. \A u \in Members : Pos(u)' = Pos(u)
    BY <1>0, <1>4, <2>1 DEF Pos
  <2>5. ASSUME Seeking PROVE Seeking'
    <3>1. \A u \in Members :
            \/ Loc(u)' \in {"out", "enter", "loop", "convert"}
            \/ Loc(u)' = "wait" /\ ret'[u] # "loop"
      BY <1>2, <2>1, <2>2, <2>5 DEF Seeking
    <3> QED BY <1>1, <2>1, <2>4, <2>5, <3>1 DEF Seeking, PassedOver
  <2>6. ASSUME NEW n \in Ops, Computing(n) PROVE Computing(n)'
    BY <1>0, <1>1, <1>2, <1>4, <2>1, <2>2, <2>6 DEF Computing, AtNode
  <2> QED BY <2>1, <2>3, <2>5, <2>6 DEF StretchInv, KeepsStretch
<1>5. CASE /\ node[t] < NNodes /\ abort # node[t] /\ node[t] \notin Ops
           /\ node' = [node EXCEPT ![t] = @ + 1]
           /\ UNCHANGED <<pc, ret>>
  <2>1. pc' = [pc EXCEPT ![t] = "loop"]
    BY <1>0, <1>5 DEF TypeOK
  <2>2. /\ PlaceInv' /\ CountInv' /\ MemberInv'
        /\ Running /\ Running' /\ t \in Members /\ Members' = Members
        /\ \A u \in Members : u \in Threads
        /\ \A u \in Threads : u # t => Loc(u)' = Loc(u)
        /\ Loc(t)' = "loop"
    BY <1>0, <1>1, <1>2, <2>1, GraphMove DEF GraphPCs
  <2>3. StopInv'
    BY <1>1, <1>2, <1>5, <2>2 DEF StopInv
  <2>4. Seeking /\ \A n \in Ops : ~Computing(n)
    BY <1>0, <1>3, <1>5, <2>2, PoolFacts DEF StretchInv, Computing, AtNode
  <2>5. /\ \A u \in Members : u # t => Pos(u)' = Pos(u)
        /\ Pos(t) = node[t] /\ Pos(t)' = node[t] + 1
        /\ PassedOver(node[t])
    BY <1>0, <1>2, <1>5, <2>2 DEF Pos, TypeOK, PassedOver
  <2>6. \A u \in Members : Pos(u) \in Int
    BY <2>2, LocFacts DEF Pos
  <2>7. \A v, u \in Members : \A x \in Int :
          Pos(v) <= x /\ x < Pos(u) => PassedOver(x)
    BY <2>4 DEF Seeking
  <2>8. \A v, u \in Members : \A x \in Int :
          Pos(v)' <= x /\ x < Pos(u)' => PassedOver(x)
    <3> TAKE v, u \in Members
    <3> TAKE x \in Int
    <3>1. CASE v = t /\ u # t
      BY <1>3, <2>5, <2>6, <2>7, <3>1
    <3>2. CASE u = t /\ v # t
      BY <1>3, <2>5, <2>6, <2>7, <3>2
    <3>3. CASE u = t /\ v = t
      BY <1>3, <2>5, <3>3
    <3>4. CASE u # t /\ v # t
      BY <2>5, <2>7, <3>4
    <3> QED BY <3>1, <3>2, <3>3, <3>4
  <2>9. \A u \in Members :
            \/ Loc(u)' \in {"out", "enter", "loop", "convert"}
            \/ Loc(u)' = "wait" /\ ret'[u] # "loop"
    BY <1>2, <2>2, <2>4 DEF Seeking
  <2>10. Seeking'
    BY <1>1, <2>2, <2>8, <2>9 DEF Seeking, PassedOver
  <2> QED BY <2>2, <2>3, <2>4, <2>10 DEF StretchInv, KeepsStretch
<1>6. CASE /\ node[t] \in Ops /\ abort # node[t]
           /\ Goto(t, "convert") /\ UNCHANGED <<node, ret>>
  <2>1. /\ PlaceInv' /\ CountInv' /\ MemberInv'
        /\ Running /\ Running' /\ t \in Members /\ Members' = Members
        /\ \A u \in Members : u \in Threads
        /\ \A u \in Threads : u # t => Loc(u)' = Loc(u)
        /\ Loc(t)' = "convert"
    BY <1>0, <1>1, <1>2, <1>6, GraphMove DEF Goto, GraphPCs
  <2>2. StopInv'
    BY <1>1, <1>6, <2>1 DEF StopInv
  <2>3. Seeking /\ \A n \in Ops : ~Computing(n)
    BY <1>0, <1>6, <2>1, PoolFacts DEF StretchInv, Computing, AtNode
  <2>4. \A u \in Members : Pos(u)' = Pos(u)
    BY <1>0, <1>6, <2>1 DEF Pos
  <2>5. \A u \in Members :
            \/ Loc(u)' \in {"out", "enter", "loop", "convert"}
            \/ Loc(u)' = "wait" /\ ret'[u] # "loop"
    BY <1>2, <2>1, <2>3 DEF Seeking
  <2>6. Seeking'
    BY <1>1, <2>1, <2>3, <2>4, <2>5 DEF Seeking, PassedOver
  <2> QED BY <2>1, <2>2, <2>3, <2>6 DEF StretchInv, KeepsStretch
<1> QED BY <1>4, <1>5, <1>6 DEF Loop

LEMMA ConvertStep ==
    ASSUME IInv, TypeOK', NEW t \in Threads, Convert(t)
    PROVE  IInv' /\ KeepsStretch
<1> USE DEF IInv
<1>0. pc[t] = "convert" /\ Loc(t) = "convert" /\ nth[t] = n_graph.n
  BY LocFacts DEF Convert, GraphPCs, MemberInv
<1>1. /\ UNCHANGED <<abort, n_graph, n_barrier, n_barrier_passed, seen, last_graph,
                     graphs, nth, node>>
      /\ pc' = [pc EXCEPT ![t] = "arrive"]
  BY DEF Convert, work, bar, sync, CallBarrier, Goto
<1>2. /\ \A u \in Threads : u # t =>
            ret'[u] = ret[u] /\ converted'[u] = converted[u]
      /\ ret'[t] = "chunks" /\ converted'[t] = node[t]
  BY DEF Convert, CallBarrier, TypeOK
<1>3. /\ PlaceInv' /\ CountInv' /\ MemberInv'
      /\ Running /\ Running' /\ t \in Members /\ Members' = Members
      /\ \A u \in Members : u \in Threads
      /\ \A u \in Threads : u # t => Loc(u)' = Loc(u)
      /\ Loc(t)' = "wait"
  BY <1>0, <1>1, <1>2, GraphMove DEF GraphPCs
<1>4. StopInv'
  BY <1>0, <1>1, <1>2, <1>3 DEF StopInv
<1>5. Seeking /\ \A n \in Ops : ~Computing(n)
  BY <1>0, <1>3 DEF StretchInv, Computing, AtNode
<1>6. \A u \in Members : Pos(u)' = Pos(u)
  BY <1>0, <1>1, <1>3 DEF Pos
<1>7. \A u \in Members :
          \/ Loc(u)' \in {"out", "enter", "loop", "convert"}
          \/ Loc(u)' = "wait" /\ ret'[u] # "loop"
  BY <1>2, <1>3, <1>5 DEF Seeking
<1>8. Seeking'
  BY <1>1, <1>3, <1>5, <1>6, <1>7 DEF Seeking, PassedOver
<1> QED BY <1>3, <1>4, <1>5, <1>8 DEF StretchInv, KeepsStretch

(* Work inside a node, and the end of it.                                  *)
LEMMA NodeStep ==
    ASSUME IInv, TypeOK', NEW t \in Threads,
           ComputeChunk(t) \/ FetchChunk(t) \/ EndNode(t)
    PROVE  IInv' /\ KeepsStretch
<1> USE DEF IInv
<1>0. /\ pc[t] \in {"chunks", "fetch", "after"} /\ Loc(t) = pc[t]
      /\ nth[t] = n_graph.n /\ node[t] \in Ops /\ Computing(node[t])
      /\ node[t] \in Int /\ node[t] < NNodes
  <2>1. pc[t] \in {"chunks", "fetch", "after"}
    BY DEF ComputeChunk, FetchChunk, EndNode
  <2> QED BY <2>1, LocFacts, NodeFacts, PoolFacts DEF GraphPCs
<1>1. UNCHANGED <<n_graph, n_barrier, n_barrier_passed, seen, last_graph, graphs, nth,
                  converted>>
  BY DEF ComputeChunk, FetchChunk, EndNode, work, bar, sync, local
<1>2. \A u \in Threads : u # t => ret'[u] = ret[u] /\ node'[u] = node[u]
  BY DEF ComputeChunk, FetchChunk, EndNode, local, CallBarrier, TypeOK
<1>3. PICK q \in {"chunks", "fetch", "after", "arrive", "loop"} :
         /\ pc' = [pc EXCEPT ![t] = q]
         /\ \/ q \in {"chunks", "fetch", "after"} /\ node'[t] = node[t]
            \/ /\ q = "arrive" /\ ret'[t] = "loop" /\ node'[t] = node[t] + 1
               /\ node[t] + 1 < NNodes
            \/ q = "loop" /\ node'[t] = node[t] + 1 /\ node[t] + 1 = NNodes
  <2>1. CASE ComputeChunk(t) \/ FetchChunk(t)
    BY <2>1 DEF ComputeChunk, FetchChunk, Goto, local
  <2>2. CASE EndNode(t)
    <3>1. node'[t] = node[t] + 1
      BY <2>2 DEF EndNode, TypeOK
    <3>2. CASE node[t] + 1 < NNodes /\ CallBarrier(t, "loop")
      BY <3>1, <3>2 DEF CallBarrier, Goto, TypeOK
    <3>3. CASE node[t] + 1 >= NNodes /\ Goto(t, "loop") /\ UNCHANGED ret
      BY <1>0, <3>1, <3>3, PoolFacts DEF Goto
    <3> QED BY <2>2, <3>2, <3>3 DEF EndNode
  <2> QED BY <2>1, <2>2
<1>4. /\ PlaceInv' /\ CountInv' /\ MemberInv'
      /\ Running /\ Running' /\ t \in Members /\ Members' = Members
      /\ \A u \in Members : u \in Threads
      /\ \A u \in Threads : u # t => Loc(u)' = Loc(u)
      /\ Loc(t)' = IF q = "arrive" THEN "wait" ELSE q
  <2>1. q \in GraphPCs \cup {"arrive"} /\ pc[t] \in GraphPCs
    BY <1>0 DEF GraphPCs
  <2> QED BY <1>0, <1>1, <1>2, <1>3, <2>1, GraphMove
<1> PICK m \in Ops : m = node[t]
  BY <1>0
<1>5. Computing(m)'
  <2>1. \A u \in Members : AtNode(u, m) /\ converted[u] = m
    BY <1>0 DEF Computing
  <2>2. \A u \in Members : u # t => AtNode(u, m)'
    BY <1>2, <1>4, <2>1 DEF AtNode
  <2>3. AtNode(t, m)'
    BY <1>3, <1>4 DEF AtNode
  <2> QED BY <1>1, <1>4, <2>1, <2>2, <2>3 DEF Computing
<1>6. StopInv'
  <2>1. \A u \in Threads : u \in Members \/ Loc(u)' = "out"
    BY <1>4, InGraph
  <2>2. \A u \in Members : AtNode(u, m)'
    BY <1>4, <1>5 DEF Computing
  <2> QED BY <2>1, <2>2 DEF AtNode, StopInv
<1>7. ~Seeking /\ \A n \in Ops : Computing(n) => n = m
  BY <1>0, <1>4 DEF Seeking, Computing, AtNode
<1> QED BY <1>4, <1>5, <1>6, <1>7 DEF StretchInv, KeepsStretch

(* A thread that returns from ggml_barrier() is where Loc() put it.        *)
LEMMA ReturnFacts ==
    ASSUME IInv, NEW t \in Threads, pc[t] \in BarrierPCs, Return(t),
           ret' = ret, graphs' = graphs
    PROVE  /\ PlaceInv'
           /\ \A u \in Threads : u # t => pc'[u] = pc[u]
           /\ pc'[t] \in {"loop", "chunks", "done", "top"}
           /\ Loc(t)' = IF ret[t] = "leave" THEN "out" ELSE ret[t]
           /\ pc'[0] = "wake" <=> pc[0] = "wake"
           /\ pc'[0] = "kick" <=> pc[0] = "kick"
<1> USE DEF IInv
<1>1. ret[t] \in {"loop", "chunks", "leave"}
  BY LocFacts
<1>2. /\ \A u \in Threads : u # t => pc'[u] = pc[u]
      /\ pc'[t] = IF ret[t] # "leave" THEN ret[t] ELSE IF t = 0 THEN "done" ELSE "top"
  BY DEF Return, Goto, TypeOK
<1>3. pc'[t] \in {"loop", "chunks", "done", "top"}
  BY <1>1, <1>2
<1>4. Loc(t)' = IF ret[t] = "leave" THEN "out" ELSE ret[t]
  BY <1>1, <1>2 DEF Loc, Released, GraphPCs, BarrierPCs
<1>5. PlaceInv'
  BY <1>1, <1>2, PoolFacts DEF PlaceInv, CallerPCs, RestPCs, GraphPCs, BarrierPCs
<1>6. /\ pc'[0] = "wake" <=> pc[0] = "wake"
      /\ pc'[0] = "kick" <=> pc[0] = "kick"
  BY <1>2, <1>3, PoolFacts DEF BarrierPCs
<1> QED BY <1>2, <1>3, <1>4, <1>5, <1>6

LEMMA ArriveStep ==
    ASSUME IInv, TypeOK', NEW t \in Threads, Arrive(t)
    PROVE  IInv' /\ (Stays \/ Passes)
<1> USE DEF IInv
<1>0. /\ pc[t] = "arrive" /\ Loc(t) = "wait" /\ Running /\ t \in Members
      /\ UNCHANGED <<n_graph, n_barrier, n_barrier_passed, nth, node, ret, converted,
                     abort, last_graph, graphs>>
  BY LocFacts, InGraph DEF Arrive, BarrierPCs, sync, work, local
<1>1. CASE n_graph.n = 1 /\ Return(t) /\ UNCHANGED seen
  <2>1. Members = {0} /\ t = 0
    BY <1>0, <1>1, PoolFacts DEF Members
  <2>2. /\ PlaceInv'
        /\ \A u \in Threads : u # t => pc'[u] = pc[u]
        /\ pc'[t] \in {"loop", "chunks", "done", "top"}
        /\ Loc(t)' = IF ret[t] = "leave" THEN "out" ELSE ret[t]
    BY <1>0, <1>1, ReturnFacts DEF BarrierPCs
  <2>3. CountInv'
    BY <1>0, <1>1, <2>2, CountFrame
  <2>4. \A u \in Threads : u \notin Members => Loc(u)' = "out"
    <3>1. \A u \in Threads : u # t => Loc(u)' = Loc(u)
      BY <1>0, <1>1, <2>2, LocFrame
    <3> QED BY <2>1, <3>1, InGraph
  <2>5. Passes
    BY <1>0, <2>1, <2>2, <2>4 DEF Passes
  <2>6. MemberInv' /\ StopInv' /\ StretchInv'
    BY <2>5, Pass
  <2> QED BY <2>2, <2>3, <2>5, <2>6
<1>2. CASE /\ n_graph.n # 1 /\ Goto(t, "add")
           /\ seen' = [seen EXCEPT ![t] = n_barrier_passed]
  <2>1. /\ pc'[t] = "add" /\ seen'[t] = n_barrier_passed
        /\ \A u \in Threads : u # t => pc'[u] = pc[u] /\ seen'[u] = seen[u]
    BY <1>2 DEF Goto, TypeOK
  <2>2. \A u \in Threads : Loc(u)' = Loc(u)
    BY <1>0, <2>1, LocFrame DEF Loc, Released, BarrierPCs
  <2>3. PlaceInv'
    BY <1>0, <2>1, PoolFacts DEF PlaceInv, BarrierPCs
  <2>4. Waiting' = Waiting /\ Members' = Members
    BY <1>0, <2>1 DEF Waiting, Members
  <2>5. n_barrier_passed \in Nat
    BY DEF TypeOK
  <2>6. CountInv'
    BY <1>0, <2>1, <2>4, <2>5 DEF CountInv
  <2>7. Stays
    BY <1>0, <2>1, <2>2, PoolFacts DEF Stays, BarrierPCs
  <2>8. MemberInv' /\ StopInv' /\ StretchInv'
    BY <1>0, <2>7, SameLoc
  <2> QED BY <2>3, <2>6, <2>7, <2>8
<1> QED BY <1>1, <1>2 DEF Arrive

LEMMA AddStep ==
    ASSUME IInv, TypeOK', NEW t \in Threads, Add(t)
    PROVE  IInv' /\ Stays
<1> USE DEF IInv
<1>0. /\ pc[t] = "add" /\ seen[t] = n_barrier_passed /\ n_barrier' = n_barrier + 1
      /\ UNCHANGED <<n_graph, n_barrier_passed, seen, nth, node, ret, converted,
                     abort, last_graph, graphs>>
  BY DEF Add, sync, work, local, CountInv
<1>1. /\ t \in Members /\ t \notin Waiting
      /\ \A u \in Threads : pc[u] \notin {"clear", "open"}
      /\ n_barrier = Cardinality(Waiting)
      /\ n_barrier = n_graph.n - 1 => Waiting = Members \ {t}
  BY <1>0, AddFacts
<1>2. /\ pc'[t] = IF n_barrier = n_graph.n - 1 THEN "clear" ELSE "spin"
      /\ \A u \in Threads : u # t => pc'[u] = pc[u]
  BY DEF Add, Goto, TypeOK
<1>3. \A u \in Threads : Loc(u)' = Loc(u)
  BY <1>0, <1>2, LocFrame DEF Loc, Released, BarrierPCs
<1>4. PlaceInv'
  BY <1>0, <1>2, PoolFacts DEF PlaceInv, BarrierPCs
<1>5. Stays /\ MemberInv' /\ StopInv' /\ StretchInv'
  <2>1. Stays
    BY <1>0, <1>2, <1>3, PoolFacts DEF Stays, BarrierPCs
  <2> QED BY <1>0, <2>1, SameLoc
<1>6. CASE n_barrier = n_graph.n - 1
  <2>1. Waiting' = Waiting /\ Members' = Members
    BY <1>0, <1>2, <1>6 DEF Waiting, Members
  <2>2. n_barrier + 1 = n_graph.n
    BY <1>6, MemberFacts
  <2>3. CountInv'
    BY <1>0, <1>1, <1>2, <1>6, <2>1, <2>2 DEF CountInv
  <2> QED BY <1>4, <1>5, <2>3
<1>7. CASE n_barrier # n_graph.n - 1
  <2>1. Waiting' = Waiting \cup {t}
    BY <1>0, <1>2, <1>7 DEF Waiting
  <2>2. Cardinality(Waiting \cup {t}) = Cardinality(Waiting) + 1
    BY <1>1, WaitingFacts, FS_AddElement
  <2>3. CountInv'
    BY <1>0, <1>1, <1>2, <1>7, <2>1, <2>2 DEF CountInv
  <2> QED BY <1>4, <1>5, <2>3
<1> QED BY <1>6, <1>7

LEMMA ClearStep ==
    ASSUME IInv, TypeOK', NEW t \in Threads, Clear(t)
    PROVE  IInv' /\ Stays
<1> USE DEF IInv
<1>0. /\ pc[t] = "clear" /\ n_barrier' = 0
      /\ UNCHANGED <<n_graph, n_barrier_passed, seen, nth, node, ret, converted,
                     abort, last_graph, graphs>>
  BY DEF Clear, sync, work, local
<1>1. pc'[t] = "open" /\ \A u \in Threads : u # t => pc'[u] = pc[u]
  BY DEF Clear, Goto, TypeOK
<1>2. \A u \in Threads : Loc(u)' = Loc(u)
  BY <1>0, <1>1, LocFrame DEF Loc, Released, BarrierPCs
<1>3. PlaceInv'
  BY <1>0, <1>1, PoolFacts DEF PlaceInv, BarrierPCs
<1>4. Stays /\ MemberInv' /\ StopInv' /\ StretchInv'
  <2>1. Stays
    BY <1>0, <1>1, <1>2, PoolFacts DEF Stays, BarrierPCs
  <2> QED BY <1>0, <2>1, SameLoc
<1>5. Waiting' = Waiting /\ Members' = Members /\ Waiting = Members \ {t}
  BY <1>0, <1>1 DEF Waiting, Members, CountInv
<1>6. \A u \in Threads : u # t => pc[u] \notin {"add", "clear", "open"}
  BY <1>0, LastOne, LocFacts DEF BarrierPCs
<1>7. CountInv'
  BY <1>0, <1>1, <1>5, <1>6 DEF CountInv
<1> QED BY <1>3, <1>4, <1>7

LEMMA OpenStep ==
    ASSUME IInv, TypeOK', NEW t \in Threads, Open(t)
    PROVE  IInv' /\ Passes
<1> USE DEF IInv
<1>0. /\ pc[t] = "open" /\ n_barrier_passed' = n_barrier_passed + 1
      /\ Return(t)
      /\ UNCHANGED <<n_graph, n_barrier, seen, nth, node, ret, converted,
                     abort, last_graph, graphs>>
  BY DEF Open, sync, work, local
<1>1. /\ \A u \in Members : u # t => u \in Waiting
      /\ \A u \in Threads : u # t /\ Loc(u) # "out" =>
            u \in Waiting /\ pc[u] = "spin"
      /\ t \in Members /\ Running
  BY <1>0, LastOne
<1>2. /\ PlaceInv'
      /\ \A u \in Threads : u # t => pc'[u] = pc[u]
      /\ pc'[t] \in {"loop", "chunks", "done", "top"}
      /\ Loc(t)' = IF ret[t] = "leave" THEN "out" ELSE ret[t]
      /\ pc'[0] = "wake" <=> pc[0] = "wake"
      /\ pc'[0] = "kick" <=> pc[0] = "kick"
  BY <1>0, ReturnFacts DEF BarrierPCs
<1>3. Members \subseteq Threads /\ Members' = Members
  BY <1>0, MemberFacts DEF Members
<1>4. n_barrier_passed \in Nat /\ \A u \in Threads : seen[u] \in Nat /\
         seen[u] <= n_barrier_passed
  BY DEF TypeOK, CountInv
<1>5. \A u \in Members : Loc(u) = "wait"
  BY <1>0, <1>1, <1>3, LocFacts DEF BarrierPCs
<1>6. \A u \in Members : Loc(u)' = IF ret[u] = "leave" THEN "out" ELSE ret[u]
  <2> TAKE u \in Members
  <2>1. CASE u = t
    BY <1>2, <2>1
  <2>2. CASE u # t
    <3>1. pc'[u] = "spin" /\ seen'[u] = n_barrier_passed
      BY <1>0, <1>1, <1>2, <1>3, <2>2 DEF Waiting
    <3>2. seen'[u] # n_barrier_passed'
      BY <1>0, <1>4, <3>1
    <3> QED BY <1>0, <3>1, <3>2 DEF Loc, Released
  <2> QED BY <2>1, <2>2
<1>7. \A u \in Threads : u \notin Members => Loc(u)' = "out"
  <2> TAKE u \in Threads
  <2> HAVE u \notin Members
  <2>1. Loc(u) = "out" /\ u # t /\ pc'[u] = pc[u]
    BY <1>1, <1>2, InGraph
  <2>2. CASE Released(u)
    <3>1. seen'[u] # n_barrier_passed'
      BY <1>0, <1>4, <2>2 DEF Released
    <3> QED BY <1>0, <2>1, <2>2, <3>1 DEF Loc, Released
  <2>3. CASE ~Released(u)
    BY <2>1, <2>3, LocFacts DEF Loc, Released, BarrierPCs, GraphPCs
  <2> QED BY <2>2, <2>3
<1>8. pc'[0] \notin {"wake", "kick"}
  <2>1. 0 \in Members
    BY <1>1, MemberFacts DEF MemberInv
  <2> QED BY <1>2, <1>3, <1>5, <2>1, LocFacts DEF BarrierPCs
<1>9. Passes /\ MemberInv' /\ StopInv' /\ StretchInv'
  <2>1. Passes
    BY <1>0, <1>1, <1>5, <1>6, <1>7, <1>8 DEF Passes
  <2> QED BY <2>1, Pass
<1>10. CountInv'
  <2>1. \A u \in Threads : pc'[u] \notin {"add", "clear", "open"}
    BY <1>1, <1>2, LocFacts DEF BarrierPCs
  <2>2. \A u \in Threads : seen'[u] <= n_barrier_passed' /\ seen'[u] # n_barrier_passed'
    BY <1>0, <1>4
  <2>3. Waiting' = {}
    BY <2>2 DEF Waiting
  <2>4. n_barrier' = 0
    BY <1>0 DEF CountInv
  <2> QED BY <2>1, <2>2, <2>3, <2>4, FS_EmptySet DEF CountInv
<1> QED BY <1>2, <1>9, <1>10

(* A thread that notices late that its barrier is open, perhaps in the     *)
(* middle of the next graph, is where it has been all along.               *)
LEMMA SpinStep ==
    ASSUME IInv, TypeOK', NEW t \in Threads, Spin(t)
    PROVE  IInv' /\ Stays
<1> USE DEF IInv
<1>0. /\ pc[t] = "spin" /\ n_barrier_passed # seen[t] /\ Return(t)
      /\ UNCHANGED <<n_graph, n_barrier, n_barrier_passed, seen, nth, node, ret,
                     converted, abort, last_graph, graphs>>
  BY DEF Spin, sync, bar, work, local
<1>1. /\ PlaceInv'
      /\ \A u \in Threads : u # t => pc'[u] = pc[u]
      /\ pc'[t] \in {"loop", "chunks", "done", "top"}
      /\ Loc(t)' = IF ret[t] = "leave" THEN "out" ELSE ret[t]
      /\ pc'[0] = "wake" <=> pc[0] = "wake"
      /\ pc'[0] = "kick" <=> pc[0] = "kick"
  BY <1>0, ReturnFacts DEF BarrierPCs
<1>2. \A u \in Threads : Loc(u)' = Loc(u)
  <2>1. Loc(t)' = Loc(t)
    BY <1>0, <1>1 DEF Loc, Released
  <2> QED BY <1>0, <1>1, <2>1, LocFrame
<1>3. Stays /\ MemberInv' /\ StopInv' /\ StretchInv'
  <2>1. Stays
    BY <1>0, <1>1, <1>2, PoolFacts DEF Stays, BarrierPCs
  <2> QED BY <1>0, <2>1, SameLoc
<1>4. Waiting' = Waiting /\ Members' = Members
  BY <1>0, <1>1 DEF Waiting, Members
<1>5. \A u \in Threads : /\ pc'[u] = "add" <=> pc[u] = "add"
                         /\ pc'[u] = "clear" <=> pc[u] = "clear"
                         /\ pc'[u] = "open" <=> pc[u] = "open"
  BY <1>0, <1>1
<1>6. CountInv'
  BY <1>0, <1>4, <1>5 DEF CountInv
<1> QED BY <1>1, <1>3, <1>6

-----------------------------------------------------------------------------
LEMMA InvStep == IInv /\ [Next]_vars => IInv'
<1> SUFFICES ASSUME IInv, [Next]_vars PROVE IInv'
  OBVIOUS
<1>0. TypeOK' /\ TypeOK /\ 0 \in Threads /\ PlaceInv
  BY TypeStep, PoolFacts DEF IInv
<1>1. ASSUME NEW n \in 1 .. N + 1, Compute(n) PROVE IInv'
  <2>1. nth'[0] = Granted(n) /\ Granted(n) \in 1 .. N
    BY <1>0, <1>1, PoolFacts DEF Compute, Granted, TypeOK
  <2>2. graphs' < MaxGraphs /\ n_graph' = n_graph
    BY <1>1 DEF Compute, sync
  <2> QED BY <1>0, <1>1, <2>1, <2>2, CallerStep DEF Compute, Goto, CallerPCs
<1>2. ASSUME NEW b \in BOOLEAN, SetPause(b) PROVE IInv'
  <2>1. pc' = [pc EXCEPT ![0] = "idle"] /\ pc[0] = "idle" /\ graphs' = graphs
    BY <1>0, <1>2 DEF SetPause, TypeOK
  <2> QED BY <1>0, <1>2, <2>1, CallerStep DEF SetPause, local, CallerPCs
<1>3. CASE Free
  BY <1>0, <1>3, CallerStep DEF Free, Goto, local, CallerPCs
<1>4. CASE Kickoff
  BY <1>0, <1>4, KickoffStep
<1>5. CASE KickoffWake
  BY <1>0, <1>5, KickoffWakeStep
<1>6. CASE Finish
  BY <1>0, <1>6, CallerStep DEF Finish, Goto, local, sync, CallerPCs
<1>7. CASE Join
  BY <1>0, <1>7, CallerStep DEF Join, Goto, local, sync, CallerPCs
<1>8. ASSUME NEW t \in Threads, Run(t) PROVE IInv'
  BY <1>0, <1>8, EnterStep, LoopStep, ConvertStep, NodeStep, ArriveStep, AddStep,
     ClearStep, OpenStep, SpinStep DEF Run
<1>9. ASSUME NEW w \in Workers, Work(w) \/ SpuriousWake(w) PROVE IInv'
  <2>0. w \in Threads
    BY PoolFacts
  <2>1. CASE \/ CheckPause(w) \/ PauseWait(w) \/ PauseWoken(w)
             \/ CheckStop(w) \/ PollFlags(w)
    <3>1. /\ pc[w] \in RestPCs
          /\ \E q \in RestPCs : pc' = [pc EXCEPT ![w] = q]
          /\ UNCHANGED <<n_graph, bar, work, local, ret, graphs, last_graph>>
      BY <2>1 DEF CheckPause, PauseWait, PauseWoken, CheckStop, PollFlags, Goto, sync,
         RestPCs
    <3> QED BY <1>0, <3>1, RestStep
  <2>2. CASE PollGraph(w)
    <3>1. /\ pc[w] \in RestPCs
          /\ UNCHANGED <<n_graph, bar, work, local, ret, graphs>>
          /\ last_graph' = [last_graph EXCEPT ![w] = n_graph]
      BY <2>2 DEF PollGraph, sync, RestPCs
    <3>2. \/ \E q \in RestPCs : pc' = [pc EXCEPT ![w] = q]
          \/ /\ pc' = [pc EXCEPT ![w] = "enter"]
             /\ n_graph # last_graph[w] /\ w < n_graph.n
      BY <2>2 DEF PollGraph, Goto, Pending, RestPCs
    <3> QED BY <1>0, <3>1, <3>2, RestStep, JoinGraph
  <2>3. CASE WaitForWork(w)
    <3>1. /\ pc[w] \in RestPCs /\ pc[w] = "lock"
          /\ UNCHANGED <<n_graph, bar, work, local, ret, graphs>>
      BY <2>3 DEF WaitForWork, RestPCs
    <3>2. \/ /\ \E q \in RestPCs : pc' = [pc EXCEPT ![w] = q]
             /\ last_graph' \in {last_graph, [last_graph EXCEPT ![w] = n_graph]}
          \/ /\ pc' = [pc EXCEPT ![w] = "enter"]
             /\ last_graph' = [last_graph EXCEPT ![w] = n_graph]
             /\ n_graph # last_graph[w] /\ w < n_graph.n
      <4>1. pc = [pc EXCEPT ![w] = "lock"]
        BY <1>0, <2>0, <3>1 DEF TypeOK
      <4> QED BY <2>3, <4>1 DEF WaitForWork, Goto, Pending, RestPCs
    <3> QED BY <1>0, <3>1, <3>2, RestStep, JoinGraph
  <2>4. CASE SpuriousWake(w)
    <3>1. UNCHANGED <<pc, n_graph, bar, work, local, ret, graphs, last_graph>>
      BY <2>4 DEF SpuriousWake
    <3>2. \A u \in Threads : Loc(u)' = Loc(u)
      BY <3>1, LocFrame DEF bar
    <3>3. MemberInv' /\ StopInv' /\ StretchInv'
      <4>1. Stays
        BY <3>1, <3>2 DEF Stays, work, local
      <4> QED BY <1>0, <3>1, <4>1, SameLoc
    <3>4. PlaceInv' /\ CountInv'
      BY <3>1, CountFrame DEF IInv, PlaceInv, bar
    <3> QED BY <1>0, <3>3, <3>4 DEF IInv
  <2> QED BY <1>8, <1>9, <2>0, <2>1, <2>2, <2>3, <2>4 DEF Work
<1>10. CASE UNCHANGED vars
  <2>1. \A u \in Threads : Loc(u)' = Loc(u)
    BY <1>10, LocFrame DEF vars, bar
  <2>2. MemberInv' /\ StopInv' /\ StretchInv'
    <3>1. Stays /\ last_graph' = last_graph
      BY <1>10, <2>1 DEF Stays, vars, sync, work, local
    <3> QED BY <1>0, <3>1, SameLoc
  <2>3. PlaceInv' /\ CountInv'
    BY <1>10, CountFrame DEF IInv, PlaceInv, vars, bar, sync
  <2> QED BY <1>0, <2>2, <2>3 DEF IInv
<1> QED BY <1>0, <1>1, <1>2, <1>3, <1>4, <1>5, <1>6, <1>7, <1>8, <1>9, <1>10
        DEF Next, Caller, Call, Freed

(* The places, the counter and the two stretches hold throughout.          *)
LEMMA IInvHolds == Spec => []IInv
BY InitHolds, InvStep, PTL DEF Spec

(* No graph is given more threads than the pool has, no node lies outside  *)
(* the graph and the barrier never counts past the threads of the pool:    *)
(* the variables of ggml_graph_compute() and ggml_barrier() keep their     *)
(* types, however many threads there are.                                  *)
THEOREM TypeCorrect == Spec => []TypeOK
<1>1. IInv => TypeOK
  BY DEF IInv
<1> QED BY <1>1, IInvHolds, PTL

(* While ggml_graph_compute() resets the graph, the abort mark and the     *)
(* chunk counter no worker is inside a graph: one that has not noticed yet *)
(* that the last barrier is open does nothing but leave it.                *)
THEOREM NobodyIsInside == Spec => []NobodyInside
<1>1. IInv => NobodyInside
  <2> SUFFICES ASSUME IInv, pc[0] \in {"idle", "kick", "join", "freed"},
                      NEW w \in Workers
               PROVE  ~Inside(w)
    BY DEF NobodyInside
  <2>1. ~Running
    BY LocFacts, PoolFacts DEF IInv, Running, CallerPCs
  <2>2. w \in Threads /\ Loc(w) = "out"
    BY <2>1, AllOut, PoolFacts
  <2>3. ret[w] # "out"
    BY <2>2, LocFacts DEF IInv
  <2> QED BY <2>2, <2>3 DEF Inside, AtBarrier, Loc, Released, GraphPCs, BarrierPCs
<1> QED BY <1>1, IInvHolds, PTL

(* Every chunk of a product, by whichever thread, is computed when all the *)
(* threads of the graph have converted their part of the input of this     *)
(* node, and none the input of a later one.                                *)
THEOREM InputsAreReady == Spec => []InputsReady
<1>1. IInv => InputsReady
  <2> SUFFICES ASSUME IInv, NEW t \in Threads, pc[t] \in {"chunks", "fetch"},
                      NEW u \in 0 .. nth[t] - 1
               PROVE  converted[u] = node[t]
    BY DEF InputsReady
  <2>1. Computing(node[t]) /\ nth[t] = n_graph.n
    BY NodeFacts
  <2> QED BY <2>1 DEF Computing, Members
<1> QED BY <1>1, IInvHolds, PTL
=============================================================================
