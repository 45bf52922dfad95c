--------------------------- MODULE MCEngineSwitch ---------------------------
(***************************************************************************)
(* Instances of EngineSwitch for TLC: the registry of the app, which holds *)
(* the free model only, one with a second tier, and the model files the    *)
(* runs start from.                                                        *)
(***************************************************************************)
EXTENDS EngineSwitch, TLC

CONSTANTS a1, a2, a3

TwoActors == {a1, a2}
ThreeActors == {a1, a2, a3}
ActorSymmetry == Permutations(ThreeActors)

OnlyFree == {"free"}
FreeAndPlus == {"free", "plus"}
AllThree == {"free", "plus", "enterprise"}
WithEnterprise == {"free", "enterprise"}

FreeInstalled ==
    [t \in Tiers |-> IF t = "free" THEN "good" ELSE "absent"]
PlusBad ==
    [t \in Tiers |-> CASE t \in {"free", "enterprise"} -> "good"
                       [] t = "plus" -> "bad" [] OTHER -> "absent"]
BadEnterprise ==
    [t \in Tiers |-> CASE t = "free" -> "good" [] t = "enterprise" -> "bad"
                       [] OTHER -> "absent"]
=============================================================================
