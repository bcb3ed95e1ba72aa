-------------------------- MODULE MCPastTendersRun --------------------------
(* Instances of PastTendersRun for TLC.                                    *)
EXTENDS PastTendersRun

(* Three portals, the second without records; those of the first do not    *)
(* fit in the channel.                                                     *)
ThreePortals == <<4, 0, 3>>
=============================================================================
