---------------------------- MODULE MCDetection ----------------------------
(***************************************************************************)
(* Readings for model checking Detection: one far and one adjacent level   *)
(* and the excesses on either side of the CUSUM's allowance and threshold. *)
(***************************************************************************)
EXTENDS Detection

FarAndAdjacent == {-90, -50}
CalmAndBusy == {-1, 0, 2, 3}

=============================================================================
