------------------------------- MODULE Inside -------------------------------
(***************************************************************************)
(* The inside detector: devices adjacent to the sensor over consecutive    *)
(* windows, without the familiar ones and the operator's own rotating gear *)
(* (detection/inside.py, inside_detector.py, familiar.py).                 *)
(*                                                                         *)
(* Which devices are excluded depends on labels and on months of           *)
(* observations; here any set may come out of a rebuild.                   *)
(***************************************************************************)
EXTENDS Window

CONSTANTS
    InsideMinDevices,   \* INSIDE_MIN_DEVICES
    SustainWindows      \* INSIDE_SUSTAIN_WINDOWS

ASSUME InsideAssumption == {InsideMinDevices, SustainWindows} \subseteq Nat \ {0}

VARIABLES
    streak,         \* _streak, which is compared with SustainWindows only
    dwellAlerted,   \* _alerted
    excluded        \* the familiar set and the own rotating gear

inside == <<streak, dwellAlerted, excluded>>

Adjacent == -55     \* BandEdges.adjacent

\* inside_count
InsideCount(window) ==
    Cardinality({i \in Heard(window) \ excluded : window[i] >= Adjacent})

\* inside_sustain_step
Streak(window) ==
    IF InsideCount(window) < InsideMinDevices THEN 0
    ELSE IF streak = SustainWindows THEN streak ELSE streak + 1

StillAlerted(window) == dwellAlerted /\ InsideCount(window) >= InsideMinDevices

\* InsideDetector.observe
Dwelling(window) == Streak(window) = SustainWindows /\ ~StillAlerted(window)

ObserveInside(window) ==
    /\ streak' = Streak(window)
    /\ dwellAlerted' = (StillAlerted(window) \/ Dwelling(window))
    /\ UNCHANGED excluded

\* What the queries for labeled, often seen and co-observed devices may answer.
Excludable == SUBSET Ids

\* FamiliarSetRefresher.build and replace_own_rotating_gear
Rebuild == excluded' \in Excludable /\ UNCHANGED <<streak, dwellAlerted>>

\* The sets are built before the first window.
InitInside == streak = 0 /\ dwellAlerted = FALSE /\ excluded \in Excludable

=============================================================================
