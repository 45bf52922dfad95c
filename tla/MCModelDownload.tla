-------------------------- MODULE MCModelDownload --------------------------
(***************************************************************************)
(* Small instances of ModelDownload.                                       *)
(***************************************************************************)
EXTENDS ModelDownload

CONSTANTS c1, c2

(* One screen or two, plain calls or the loop of a tier download, cut from *)
(* five attempts to two.                                                   *)
OneCaller   == {c1}
TwoCallers  == {c1, c2}
PlainCalls  == [c \in Callers |-> 1]
RetryLoops  == [c \in Callers |-> 2]
=============================================================================
