------------------------------- MODULE Window -------------------------------
(***************************************************************************)
(* What one scan window hands to a detector: the best RSSI of each address *)
(* or device that was heard, 0 for a silent one (features.py               *)
(* max_rssi_by_identity).                                                  *)
(***************************************************************************)
EXTENDS Integers, FiniteSets

CONSTANTS
    Ids,        \* addresses or device ids, numbers
    Levels      \* the RSSI values that occur

ASSUME WindowAssumption ==
    /\ Ids \subseteq Nat \ {0} /\ IsFiniteSet(Ids)
    /\ Levels \subseteq {n \in Int : n < 0} /\ IsFiniteSet(Levels)

Windows == [Ids -> Levels \cup {0}]
Heard(window) == {i \in Ids : window[i] # 0}

=============================================================================
