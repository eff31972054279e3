------------------------- MODULE PresenceRefinement -------------------------
(***************************************************************************)
(* The tracker of Presence implements the promise of Visits. A device is   *)
(* here when its record says PRESENT; the run against the side it is on is *)
(* hits while it is away and misses while it is here; a device that is not *)
(* tracked left long ago, if it ever came, and has no run.                 *)
(***************************************************************************)
EXTENDS Presence

Record(d) == IF d \in DOMAIN devices THEN devices[d] ELSE NewDevice

hereBar == {d \in Devices : Record(d).state = PRESENT}

runBar ==
    [d \in Devices |-> IF Record(d).state = PRESENT THEN Record(d).misses
                                                    ELSE Record(d).hits]

awayBar == [d \in Devices |-> Cooldown - Record(d).cooldown_remaining]

announcedBar == {d \in Devices : Record(d).present_emitted}

V == INSTANCE Visits WITH
        here <- hereBar, run <- runBar, away <- awayBar,
        announced <- announcedBar, news <- transitions

\* Whatever the tracker forgets and however it counts, what it announces is
\* what Visits announces: full runs on both edges, quick returns muted,
\* departures announced exactly when the arrival was (update, _maybe_present,
\* _maybe_absent, _should_prune).
ImplementsVisits == V!Spec

=============================================================================
