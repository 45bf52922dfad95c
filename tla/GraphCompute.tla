---------------------------- MODULE GraphCompute ----------------------------
(***************************************************************************)
(* The thread pool of ggml (ggml-cpu.c), as the app builds it: its CMake   *)
(* files turn OpenMP off, so every token is computed by these threads.     *)
(* Thread 0 is the caller of ggml_graph_compute(); the others poll and     *)
(* then sleep until it starts a graph, and all meet at ggml_barrier()      *)
(* between two nodes.                                                      *)
(*                                                                         *)
(* One action is one access to an atomic, or one critical section of the   *)
(* pool's mutex. Every node that is computed is a matrix product: it has a *)
(* barrier of its own between the conversion of its input and its chunks.  *)
(* Atomics are sequentially consistent here; the code relaxes the loads    *)
(* that a fence or the barrier orders.                                     *)
(***************************************************************************)
EXTENDS Integers, FiniteSets

CONSTANTS
    N,          \* threads of the pool
    NNodes,     \* nodes of a graph
    Ops,        \* the nodes that are computed; the others are NOPs
    NR0, NR1,   \* rows and columns of a matrix product
    ChunkSize,  \* chunk_size: rows and columns of a chunk
    GraphWrap,  \* the graph counter has 16 bits of n_graph
    MaxGraphs   \* bound: graphs computed

ASSUME PoolAssumption ==
    /\ N \in Nat \ {0} /\ NNodes \in Nat /\ ChunkSize \in Nat \ {0}
    /\ NR0 \in Nat \ {0} /\ NR1 \in Nat \ {0}
    /\ Ops \subseteq 0 .. NNodes - 1
    /\ GraphWrap \in Nat \ {0} /\ MaxGraphs \in Nat

Threads == 0 .. N - 1
Workers == 1 .. N - 1
NoOne == -1
Cells == (0 .. NR0 - 1) \X (0 .. NR1 - 1)

VARIABLES
    mutex,              \* who holds the mutex, or NoOne
    sleeping,           \* the threads in ggml_cond_wait()
    n_graph,            \* number of the graph and of the threads it wants
    pause, stop,
    n_barrier, n_barrier_passed,
    current_chunk,
    abort,              \* the node before which the graph is cut off, or -1
    ec,                 \* status of the graph
    pc,                 \* where a thread is
    ret,                \* where it goes after the barrier
    seen,               \* n_passed of ggml_barrier()
    last_graph,         \* n_graph as the worker last saw it
    nth, node, chunk,   \* locals of ggml_graph_compute_thread()
    graphs,             \* graphs computed so far
    converted,          \* the node whose input a thread converted last
    done,               \* how often each element was computed
    result              \* what ggml_graph_compute() returned

sync  == <<mutex, sleeping, n_graph, pause, stop>>
bar   == <<n_barrier, n_barrier_passed, seen>>
work  == <<current_chunk, abort, ec, converted, done>>
local == <<nth, node, chunk>>
vars  == <<sync, bar, work, local, pc, ret, last_graph, graphs, result>>

PCs == {"idle", "kick", "wake", "join", "freed",
        "top", "pauseLock", "paused", "stopCheck", "flags", "poll", "lock",
        "exited", "enter", "loop", "convert", "chunks", "fetch", "after",
        "arrive", "add", "clear", "open", "spin", "done"}

Init ==
    /\ mutex = NoOne /\ sleeping = {}
    /\ n_graph = [count |-> 0, n |-> 0]
    /\ pause \in BOOLEAN /\ stop = FALSE
    /\ n_barrier = 0 /\ n_barrier_passed = 0
    /\ current_chunk = 0 /\ abort = -1 /\ ec = "success"
    /\ pc = [t \in Threads |-> IF t = 0 THEN "idle" ELSE "top"]
    /\ ret = [t \in Threads |-> "loop"]
    /\ seen = [t \in Threads |-> 0]
    /\ last_graph = [t \in Threads |-> [count |-> 0, n |-> 0]]
    /\ nth = [t \in Threads |-> 0]
    /\ node = [t \in Threads |-> 0]
    /\ chunk = [t \in Threads |-> 0]
    /\ graphs = 0
    /\ converted = [t \in Threads |-> -1]
    /\ done = [n \in Ops |-> [c \in Cells |-> 0]]
    /\ result = "none"

Goto(t, p) == pc' = [pc EXCEPT ![t] = p]

-----------------------------------------------------------------------------
(* The caller, between two graphs.                                         *)

\* Mutant: a plan may ask for more threads than there are.
MutantAnyNumber(n) == n

\* A plan that asks for more threads than the pool has gets the pool.
Granted(n) == IF n > N THEN N ELSE n

(* A new graph: what the last one left is reset.                           *)
Compute(n) ==
    /\ pc[0] = "idle" /\ graphs < MaxGraphs
    /\ current_chunk' = 0 /\ abort' = -1 /\ ec' = "success"
    /\ nth' = [nth EXCEPT ![0] = Granted(n)]
    /\ converted' = [t \in Threads |-> -1]
    /\ done' = [m \in Ops |-> [c \in Cells |-> 0]]
    /\ Goto(0, "kick")
    /\ UNCHANGED <<sync, bar, node, chunk, ret, last_graph, graphs, result>>

(* The graph is announced under the mutex: pollers see it at once ...      *)
Kickoff ==
    /\ pc[0] = "kick" /\ mutex = NoOne
    /\ mutex' = 0
    /\ n_graph' = [count |-> (n_graph.count + 1) % GraphWrap, n |-> nth[0]]
    /\ Goto(0, "wake")
    /\ UNCHANGED <<sleeping, pause, stop, bar, work, local, ret, last_graph,
                   graphs, result>>

\* Mutant: sleepers are left asleep.
MutantNoBroadcast ==
    /\ pc[0] = "wake"
    /\ pause' = FALSE /\ mutex' = NoOne
    /\ Goto(0, "enter")
    /\ UNCHANGED <<sleeping, n_graph, stop, bar, work, local, ret, last_graph,
                   graphs, result>>

(* ... sleepers are woken, a paused pool is resumed.                       *)
KickoffWake ==
    /\ pc[0] = "wake"
    /\ pause' = FALSE /\ sleeping' = {} /\ mutex' = NoOne
    /\ Goto(0, "enter")
    /\ UNCHANGED <<n_graph, stop, bar, work, local, ret, last_graph, graphs,
                   result>>

Finish ==
    /\ pc[0] = "done"
    /\ result' = ec
    /\ graphs' = graphs + 1
    /\ Goto(0, "idle")
    /\ UNCHANGED <<sync, bar, work, local, ret, last_graph>>

(* ggml_threadpool_pause() and ggml_threadpool_resume().                   *)
SetPause(b) ==
    /\ pc[0] = "idle" /\ mutex = NoOne /\ pause # b
    /\ pause' = b /\ sleeping' = {}
    /\ UNCHANGED <<mutex, n_graph, stop, bar, work, local, pc, ret,
                   last_graph, graphs, result>>

\* Mutant: a paused pool stays paused.
MutantFreePaused ==
    /\ pc[0] = "idle" /\ mutex = NoOne
    /\ stop' = TRUE /\ sleeping' = {}
    /\ Goto(0, "join")
    /\ UNCHANGED <<mutex, pause, n_graph, bar, work, local, ret, last_graph,
                   graphs, result>>

(* ggml_threadpool_free(): stop the workers, wait for them.                *)
Free ==
    /\ pc[0] = "idle" /\ mutex = NoOne
    /\ stop' = TRUE /\ pause' = FALSE /\ sleeping' = {}
    /\ Goto(0, "join")
    /\ UNCHANGED <<mutex, n_graph, bar, work, local, ret, last_graph, graphs,
                   result>>

Join ==
    /\ pc[0] = "join" /\ \A w \in Workers : pc[w] = "exited"
    /\ Goto(0, "freed")
    /\ UNCHANGED <<sync, bar, work, local, ret, last_graph, graphs, result>>

-----------------------------------------------------------------------------
(* A worker, between two graphs.                                           *)

CheckPause(w) ==
    /\ pc[w] = "top"
    /\ Goto(w, IF pause THEN "pauseLock" ELSE "stopCheck")
    /\ UNCHANGED <<sync, bar, work, local, ret, last_graph, graphs, result>>

PauseWait(w) ==
    /\ pc[w] = "pauseLock" /\ mutex = NoOne
    /\ sleeping' = IF pause THEN sleeping \cup {w} ELSE sleeping
    /\ Goto(w, IF pause THEN "paused" ELSE "top")
    /\ UNCHANGED <<mutex, n_graph, pause, stop, bar, work, local, ret,
                   last_graph, graphs, result>>

PauseWoken(w) ==
    /\ pc[w] = "paused" /\ w \notin sleeping /\ mutex = NoOne
    /\ Goto(w, "top")
    /\ UNCHANGED <<sync, bar, work, local, ret, last_graph, graphs, result>>

CheckStop(w) ==
    /\ pc[w] = "stopCheck"
    /\ Goto(w, IF stop THEN "exited" ELSE "flags")
    /\ UNCHANGED <<sync, bar, work, local, ret, last_graph, graphs, result>>

PollFlags(w) ==
    /\ pc[w] = "flags"
    /\ Goto(w, IF stop \/ pause THEN "lock" ELSE "poll")
    /\ UNCHANGED <<sync, bar, work, local, ret, last_graph, graphs, result>>

(* The worker takes part in a graph that wants more threads than its own   *)
(* number.                                                                 *)
Pending(w) == w < n_graph.n

(* A new graph is remembered, wanted or not; without one the worker polls  *)
(* on or gives up polling.                                                 *)
PollGraph(w) ==
    /\ pc[w] = "poll"
    /\ last_graph' = [last_graph EXCEPT ![w] = n_graph]
    /\ \/ /\ n_graph # last_graph[w]
          /\ Goto(w, IF Pending(w) THEN "enter" ELSE "lock")
       \/ /\ n_graph = last_graph[w]
          /\ Goto(w, "flags") \/ Goto(w, "lock")
    /\ UNCHANGED <<sync, bar, work, local, ret, graphs, result>>

(* The same test under the mutex, at first and after every wake-up.        *)
WaitForWork(w) ==
    /\ pc[w] = "lock" /\ w \notin sleeping /\ mutex = NoOne
    /\ \/ /\ stop \/ pause
          /\ Goto(w, "top")
          /\ UNCHANGED <<sleeping, last_graph>>
       \/ /\ ~stop /\ ~pause /\ n_graph # last_graph[w]
          /\ last_graph' = [last_graph EXCEPT ![w] = n_graph]
          /\ Goto(w, IF Pending(w) THEN "enter" ELSE "top")
          /\ UNCHANGED sleeping
       \/ /\ ~stop /\ ~pause /\ n_graph = last_graph[w]
          /\ sleeping' = sleeping \cup {w}
          /\ UNCHANGED <<pc, last_graph>>
    /\ UNCHANGED <<mutex, n_graph, pause, stop, bar, work, local, ret, graphs,
                   result>>

(* A condition variable may wake a thread for no reason.                   *)
SpuriousWake(w) ==
    /\ w \in sleeping
    /\ sleeping' = sleeping \ {w}
    /\ UNCHANGED <<mutex, n_graph, pause, stop, bar, work, local, pc, ret,
                   last_graph, graphs, result>>

-----------------------------------------------------------------------------
(* ggml_graph_compute_thread(): what every thread of a graph runs.         *)

\* Mutant: no barrier between two nodes.
MutantNoNodeBarrier(t, r) ==
    /\ Goto(t, IF r = "loop" THEN "loop" ELSE "arrive")
    /\ ret' = [ret EXCEPT ![t] = r]

\* Mutant: no barrier at the end of the graph.
MutantNoLastBarrier(t, r) ==
    /\ Goto(t, IF r # "leave" THEN "arrive" ELSE IF t = 0 THEN "done" ELSE "top")
    /\ ret' = [ret EXCEPT ![t] = r]

CallBarrier(t, r) ==
    /\ Goto(t, "arrive")
    /\ ret' = [ret EXCEPT ![t] = r]

Enter(t) ==
    /\ pc[t] = "enter"
    /\ nth' = [nth EXCEPT ![t] = n_graph.n]
    /\ node' = [node EXCEPT ![t] = 0]
    /\ Goto(t, "loop")
    /\ UNCHANGED <<sync, bar, work, chunk, ret, last_graph, graphs, result>>

(* The next node, unless the graph is at its end or cut off here.          *)
Loop(t) ==
    /\ pc[t] = "loop"
    /\ \/ /\ node[t] >= NNodes \/ abort = node[t]
          /\ CallBarrier(t, "leave")
          /\ UNCHANGED node
       \/ /\ node[t] < NNodes /\ abort # node[t] /\ node[t] \notin Ops
          /\ node' = [node EXCEPT ![t] = @ + 1]
          /\ UNCHANGED <<pc, ret>>
       \/ /\ node[t] \in Ops /\ abort # node[t]
          /\ Goto(t, "convert")
          /\ UNCHANGED <<node, ret>>
    /\ UNCHANGED <<sync, bar, work, nth, chunk, last_graph, graphs, result>>

\* Mutant: the last thread's first chunk is given out again.
MutantFirstShared(n) == n - 1

\* Every thread begins with the chunk of its own number.
FirstShared(n) == n

(* Every thread converts its part of the input into the work buffer;       *)
(* thread 0 sets the first chunk that is nobody's.                         *)
Convert(t) ==
    /\ pc[t] = "convert"
    /\ converted' = [converted EXCEPT ![t] = node[t]]
    /\ current_chunk' = IF t = 0 THEN FirstShared(nth[0]) ELSE current_chunk
    /\ chunk' = [chunk EXCEPT ![t] = t]
    /\ CallBarrier(t, "chunks")
    /\ UNCHANGED <<sync, bar, abort, ec, done, nth, node, last_graph, graphs,
                   result>>

(* The product is cut along both dimensions, or, when that makes too few   *)
(* chunks, into one for each thread along the larger dimension.            *)
CeilDiv(a, b) == (a + b - 1) \div b

NChunk(n) ==
    LET n0 == CeilDiv(NR0, ChunkSize)
        n1 == CeilDiv(NR1, ChunkSize)
    IN  IF n0 * n1 >= n * 4 THEN <<n0, n1>>
        ELSE IF NR0 > NR1 THEN <<n, 1>> ELSE <<1, n>>

Chunk(i, n) ==
    LET k == NChunk(n)
        d0 == CeilDiv(NR0, k[1])
        d1 == CeilDiv(NR1, k[2])
    IN  {c \in Cells : /\ c[1] \div d0 = i % k[1]
                       /\ c[2] \div d1 = i \div k[1]}

(* One chunk; with a thread for each of them nobody takes a second one.    *)
ComputeChunk(t) ==
    LET n == NChunk(nth[t])[1] * NChunk(nth[t])[2]
    IN  /\ pc[t] = "chunks"
        /\ \/ /\ chunk[t] < n
              /\ done' = [done EXCEPT ![node[t]] = [c \in Cells |->
                    @[c] + IF c \in Chunk(chunk[t], nth[t]) THEN 1 ELSE 0]]
              /\ Goto(t, IF nth[t] >= n THEN "after" ELSE "fetch")
           \/ /\ chunk[t] >= n
              /\ Goto(t, "after")
              /\ UNCHANGED done
        /\ UNCHANGED <<sync, bar, current_chunk, abort, ec, converted, local,
                       ret, last_graph, graphs, result>>

FetchChunk(t) ==
    /\ pc[t] = "fetch"
    /\ chunk' = [chunk EXCEPT ![t] = current_chunk]
    /\ current_chunk' = current_chunk + 1
    /\ Goto(t, "chunks")
    /\ UNCHANGED <<sync, bar, abort, ec, converted, done, nth, node, ret,
                   last_graph, graphs, result>>

(* Thread 0 asks the abort callback; all meet before the next node.        *)
EndNode(t) ==
    /\ pc[t] = "after"
    /\ \/ UNCHANGED <<abort, ec>>
       \/ t = 0 /\ abort' = node[t] + 1 /\ ec' = "aborted"
    /\ node' = [node EXCEPT ![t] = @ + 1]
    /\ \/ node[t] + 1 < NNodes /\ CallBarrier(t, "loop")
       \/ node[t] + 1 >= NNodes /\ Goto(t, "loop") /\ UNCHANGED ret
    /\ UNCHANGED <<sync, bar, current_chunk, converted, done, nth, chunk,
                   last_graph, graphs, result>>

-----------------------------------------------------------------------------
(* ggml_barrier().                                                         *)

Return(t) ==
    Goto(t, IF ret[t] # "leave" THEN ret[t]
            ELSE IF t = 0 THEN "done" ELSE "top")

Arrive(t) ==
    /\ pc[t] = "arrive"
    /\ \/ /\ n_graph.n = 1
          /\ Return(t)
          /\ UNCHANGED seen
       \/ /\ n_graph.n # 1
          /\ seen' = [seen EXCEPT ![t] = n_barrier_passed]
          /\ Goto(t, "add")
    /\ UNCHANGED <<sync, n_barrier, n_barrier_passed, work, local, ret,
                   last_graph, graphs, result>>

Add(t) ==
    /\ pc[t] = "add"
    /\ n_barrier' = n_barrier + 1
    /\ Goto(t, IF n_barrier = n_graph.n - 1 THEN "clear" ELSE "spin")
    /\ UNCHANGED <<sync, n_barrier_passed, seen, work, local, ret, last_graph,
                   graphs, result>>

Clear(t) ==
    /\ pc[t] = "clear"
    /\ n_barrier' = 0
    /\ Goto(t, "open")
    /\ UNCHANGED <<sync, n_barrier_passed, seen, work, local, ret, last_graph,
                   graphs, result>>

Open(t) ==
    /\ pc[t] = "open"
    /\ n_barrier_passed' = n_barrier_passed + 1
    /\ Return(t)
    /\ UNCHANGED <<sync, n_barrier, seen, work, local, ret, last_graph,
                   graphs, result>>

Spin(t) ==
    /\ pc[t] = "spin" /\ n_barrier_passed # seen[t]
    /\ Return(t)
    /\ UNCHANGED <<sync, bar, work, local, ret, last_graph, graphs, result>>

-----------------------------------------------------------------------------
Run(t) ==
    \/ Enter(t) \/ Loop(t) \/ Convert(t) \/ ComputeChunk(t) \/ FetchChunk(t)
    \/ EndNode(t) \/ Arrive(t) \/ Add(t) \/ Clear(t) \/ Open(t) \/ Spin(t)

Call == Kickoff \/ KickoffWake \/ Finish \/ Join \/ Run(0)

Work(w) ==
    \/ CheckPause(w) \/ PauseWait(w) \/ PauseWoken(w) \/ CheckStop(w)
    \/ PollFlags(w) \/ PollGraph(w) \/ WaitForWork(w) \/ Run(w)

Caller ==
    \/ \E n \in 1 .. N + 1 : Compute(n)
    \/ \E b \in BOOLEAN : SetPause(b)
    \/ Free

(* Once the pool is freed nothing is left to do.                           *)
Freed == pc[0] = "freed" /\ UNCHANGED vars

Next ==
    \/ Caller
    \/ Call
    \/ \E w \in Workers : Work(w) \/ SpuriousWake(w)
    \/ Freed

Spec == Init /\ [][Next]_vars

(* Every thread that can take a step takes one. The mutex is held for one  *)
(* step of the caller only, so a worker that wants it gets it.             *)
FairSpec ==
    /\ Spec
    /\ WF_vars(Call)
    /\ \A w \in Workers : WF_vars(Work(w))

-----------------------------------------------------------------------------
(* The variables keep their types: no graph is given more threads than the *)
(* pool has, and the barrier never counts past them.                       *)
TypeOK ==
    /\ mutex \in {NoOne, 0} /\ sleeping \subseteq Workers
    /\ n_graph \in [count : 0 .. GraphWrap - 1, n : 0 .. N]
    /\ pause \in BOOLEAN /\ stop \in BOOLEAN
    /\ n_barrier \in 0 .. N /\ n_barrier_passed \in Nat
    /\ current_chunk \in Nat /\ abort \in -1 .. NNodes
    /\ ec \in {"success", "aborted"} /\ result \in {"none", "success", "aborted"}
    /\ pc \in [Threads -> PCs] /\ ret \in [Threads -> {"loop", "chunks", "leave"}]
    /\ seen \in [Threads -> Nat]
    /\ last_graph \in [Threads -> [count : 0 .. GraphWrap - 1, n : 0 .. N]]
    /\ nth \in [Threads -> 0 .. N] /\ node \in [Threads -> 0 .. NNodes]
    /\ chunk \in [Threads -> Nat] /\ graphs \in 0 .. MaxGraphs
    /\ converted \in [Threads -> -1 .. NNodes - 1]
    /\ done \in [Ops -> [Cells -> Nat]]

AtBarrier(t) == pc[t] \in {"arrive", "add", "clear", "open", "spin"}

(* A thread is inside a graph until it has come to the last barrier.       *)
Inside(t) ==
    \/ pc[t] \in {"enter", "loop", "convert", "chunks", "fetch", "after"}
    \/ AtBarrier(t) /\ ret[t] # "leave"

(* ggml_graph_compute() resets the graph, the abort mark and the chunk     *)
(* counter while no worker uses them, as its comment claims: a worker that *)
(* is late to leave the last barrier of a graph, or early to see the next  *)
(* one, is not inside.                                                     *)
NobodyInside ==
    pc[0] \in {"idle", "kick", "join", "freed"} =>
        \A w \in Workers : ~Inside(w)

(* A chunk is computed from the input of its own node: every thread of the *)
(* graph has converted its part, and none has begun to overwrite the       *)
(* shared work buffer with the input of the next node.                     *)
InputsReady ==
    \A t \in Threads : pc[t] \in {"chunks", "fetch"} =>
        \A u \in 0 .. nth[t] - 1 : converted[u] = node[t]

(* The pool computes a graph as one thread would: node after node, every   *)
(* element of a product once, however it is cut into chunks, and "success" *)
(* only for a whole graph.                                                 *)
Order == INSTANCE NodeOrder WITH
            running <- pc[0] \notin {"idle", "join", "freed"}
ComputesInOrder == Order!Spec

(* A graph that is started comes to its end: no thread is lost on the way  *)
(* from sleep to work, none is left behind at a barrier.                   *)
EveryGraphEnds == pc[0] = "kick" ~> pc[0] = "idle"

(* A pool that is freed gets rid of its threads, asleep, paused or polling.*)
EveryPoolStops == stop ~> pc[0] = "freed"
=============================================================================
