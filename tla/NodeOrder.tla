----------------------------- MODULE NodeOrder -----------------------------
(***************************************************************************)
(* What ggml_graph_compute() promises its caller, whatever the number of   *)
(* threads: the nodes of a graph are computed in the order of the graph,   *)
(* every element of a node once; the call returns when the computation has *)
(* come to the end of a node, and says "success" only at the end of the    *)
(* graph.                                                                  *)
(***************************************************************************)
EXTENDS Naturals

CONSTANTS
    NNodes,     \* number of nodes of the graph
    Ops,        \* the nodes that are computed; the others are skipped
    Cells       \* the elements of a node

VARIABLES
    running,    \* a call is in progress
    done,       \* how often each element of each node was computed
    result      \* what the last call returned

Untouched == [n \in Ops |-> [c \in Cells |-> 0]]

(* All elements of the nodes before n are there.                             *)
Complete(d, n) == \A m \in Ops : m < n => \A c \in Cells : d[m][c] = 1

(* ... and nothing of the nodes from n on.                                 *)
NothingFrom(d, n) == \A m \in Ops : m >= n => \A c \in Cells : d[m][c] = 0

Init ==
    /\ running = FALSE
    /\ done = Untouched
    /\ result = "none"

Begin ==
    /\ ~running
    /\ running' = TRUE
    /\ done' = Untouched
    /\ UNCHANGED result

(* Some elements of a node that nobody has computed.                       *)
ComputeChunk(n) ==
    /\ running
    /\ Complete(done, n)
    /\ done' \in [Ops -> [Cells -> {0, 1}]]
    /\ \A c \in Cells : done[n][c] = 1 => done'[n][c] = 1
    /\ \A m \in Ops \ {n} : done'[m] = done[m]
    /\ UNCHANGED <<running, result>>

Return ==
    /\ running
    /\ \E cut \in 0 .. NNodes : Complete(done, cut) /\ NothingFrom(done, cut)
    /\ running' = FALSE
    /\ result' \in {"success", "aborted"}
    /\ result' = "success" => Complete(done, NNodes)
    /\ UNCHANGED done

Next ==
    \/ Begin
    \/ \E n \in Ops : ComputeChunk(n)
    \/ Return

vars == <<running, done, result>>

Spec == Init /\ [][Next]_vars
=============================================================================
