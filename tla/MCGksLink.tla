----------------------------- MODULE MCGksLink -----------------------------
(* Two stations 3 km apart and the positions that tell the gate's cases     *)
(* apart: near g1 only, between both, within both but clearly closer to g2, *)
(* and out of all coverage.                                                 *)
EXTENDS GksLink, TLC

CONSTANTS g1, g2

MCPositions == {"at1", "mid", "near2", "away"}
MCDist ==
  [p \in MCPositions |->
     CASE p = "at1"   -> (g1 :> 0 @@ g2 :> 9)
       [] p = "mid"   -> (g1 :> 4 @@ g2 :> 5)
       [] p = "near2" -> (g1 :> 5 @@ g2 :> 1)
       [] p = "away"  -> (g1 :> 9 @@ g2 :> 9)]
MCRadius == g1 :> 5 @@ g2 :> 5
=============================================================================
