-------------------------- MODULE MCPocketPromises --------------------------
(***************************************************************************)
(* Instances of PocketPromises for TLC.  Two slots and two requests are    *)
(* enough for a slot to be freed and claimed again under a driver that is  *)
(* still posting (the first free slot is taken), for the pump to be at one *)
(* slot while a driver posts to the other, and for a request that outlives *)
(* its session to meet one of the next.                                    *)
(***************************************************************************)
EXTENDS PocketPromises

OneOutcome  == {"ok"}
TwoOutcomes == {"ok", "fail"}
=============================================================================
