----------------------------- MODULE MCPresence -----------------------------
(***************************************************************************)
(* TLC instances of Presence and of its refinement of Visits.              *)
(***************************************************************************)
EXTENDS PresenceRefinement

CONSTANTS d1, d2

TwoDevices == {d1, d2}

=============================================================================
