-------------------------- MODULE MCQueryPipeline --------------------------
(***************************************************************************)
(* Instances of QueryPipeline for TLC: two or three queries that overlap.  *)
(***************************************************************************)
EXTENDS QueryPipeline

CONSTANTS q1, q2, q3

TwoQueries == {q1, q2}
ThreeQueries == {q1, q2, q3}

WebTwice == [q \in TwoQueries |-> "web"]
WebBriefingAction ==
    [q \in ThreeQueries |-> CASE q = q1 -> "web" [] q = q2 -> "briefing"
                               [] q = q3 -> "action"]
=============================================================================
