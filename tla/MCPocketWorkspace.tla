------------------------- MODULE MCPocketWorkspace -------------------------
(* Instances of PocketWorkspace for TLC: the three apps whose manifests    *)
(* grant works, with their levels, and the two of them that may pick.      *)
EXTENDS PocketWorkspace

Registered == {"playground", "tutorial", "work"}
Manifests == [a \in Registered |-> IF a = "tutorial" THEN "self" ELSE "pick"]

Pickers == {"playground", "work"}
PickersManifests == [a \in Pickers |-> "pick"]
=============================================================================
