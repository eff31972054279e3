------------------------------- MODULE Visits -------------------------------
(***************************************************************************)
(* What the presence layer promises, without its data structures.          *)
(*                                                                         *)
(* A device is here or not. It changes sides only after a full run of      *)
(* windows against the side it is on, and a visit is announced when it     *)
(* begins at least Cooldown windows after the device last left; the end of *)
(* a visit is announced exactly when its beginning was. Nothing is ever    *)
(* forgotten: Presence, which prunes idle devices and counts hits and      *)
(* misses apart, is shown to implement this module.                        *)
(***************************************************************************)
EXTENDS Integers

CONSTANTS Devices, Appear, Disappear, Cooldown

VARIABLES
    here,       \* the devices that are here
    run,        \* consecutive windows against the side each device is on
    away,       \* windows since a device last left (stops at Cooldown)
    announced,  \* the devices whose current visit was announced
    news        \* what the latest window announced of each device

visitVars == <<here, run, away, announced, news>>

Init ==
    /\ here = {}
    /\ run = [d \in Devices |-> 0]
    /\ away = [d \in Devices |-> Cooldown]
    /\ announced = {}
    /\ news = [d \in Devices |-> "none"]

Older(n) == IF n < Cooldown THEN n + 1 ELSE n

\* One window, in which the devices of seen were heard well enough.
Window(seen) ==
    LET against == (here \ seen) \cup (seen \ here)
        arrive  == {d \in seen \ here : run[d] + 1 >= Appear}
        leave   == {d \in here \ seen : run[d] + 1 >= Disappear}
        aged    == [d \in Devices |-> Older(away[d])]
        greeted == {d \in arrive : aged[d] = Cooldown}
    IN  /\ here' = (here \cup arrive) \ leave
        /\ run' = [d \in Devices |-> IF d \in against \ (arrive \cup leave)
                                     THEN run[d] + 1 ELSE 0]
        /\ away' = [d \in Devices |-> IF d \in leave THEN 0 ELSE aged[d]]
        /\ announced' = (announced \cup greeted) \ leave
        /\ news' = [d \in Devices |->
                        IF d \in greeted THEN "PRESENT"
                        ELSE IF d \in leave \cap announced THEN "ABSENT"
                        ELSE "none"]

Next == \E seen \in SUBSET Devices : Window(seen)

Spec == Init /\ [][Next]_visitVars

=============================================================================
