-------------------------------- MODULE Crowd --------------------------------
(***************************************************************************)
(* The crowd detector: CUSUM over the excess of the near count             *)
(* (detection/crowd.py, crowd_detector.py) and the control of its online   *)
(* baseline (crowd_baseline.py): the freeze during an episode, the cold    *)
(* start, clock steps, hold-and-backfill.                                  *)
(*                                                                         *)
(* The arithmetic of EWMA and MAD is not here: the standardized excess z   *)
(* of a window is any value of Excess, in half-sigma units, so that the    *)
(* allowance k is 1. Of time only matters whether a step is one that       *)
(* re-anchors, of a sample what corrections of the clock came after it.    *)
(* Both values of wall_clock_trusted occur, as prepare_window allows; the  *)
(* scan loop leaves it at its default, TRUE.                               *)
(***************************************************************************)
EXTENDS Integers, Sequences, Functions

CONSTANTS
    Excess,         \* the values of z, in units of CROWD_CUSUM_K
    CusumH,         \* CROWD_CUSUM_H, in the same units
    MaxCusum,       \* bound: the accumulator stops there
    ColdStart,      \* trusted steps until the seasonal tier
    MaxBackfill     \* bound: samples held (the code has none)

ASSUME CrowdAssumption ==
    /\ Excess \subseteq Int /\ CusumH \in Nat \ {0} /\ MaxCusum \in Nat
    /\ MaxCusum >= CusumH /\ {ColdStart, MaxBackfill} \subseteq Nat

VARIABLES
    cusum,          \* _cusum
    crowdAlerted,   \* _alerted
    installed,      \* _install_at and _last_trusted_at are set
    hours,          \* _trusted_operating_hours, in steps up to ColdStart
    episodeTier,    \* _episode_tier ("none": None)
    backfill,       \* _backfill, of Samples
    absorbed,       \* what entered the rolling or the seasonal tier, alike
    tier            \* history: the tier of the latest window

crowd == <<cusum, crowdAlerted, installed, hours, episodeTier, backfill, absorbed, tier>>

\* A window as this detector sees it. trusted: wall_clock_trusted; jump: the
\* clock was corrected, so far that it is behind the last trusted window or
\* further ahead than any two windows are apart. Before the first trusted
\* window it is any correction.
CrowdWindows == [z: Excess, trusted: BOOLEAN, jump: BOOLEAN]

\* History: what happened to the clock since a held sample was taken. "boot": it
\* was corrected by the first trusted window, "stale": by a later one.
Samples == {"current", "boot", "stale"}

\* cusum_positive
Accumulated(w) ==
    LET next == cusum + w.z - 1
    IN  IF w.z <= -1 \/ next < 0 THEN 0 ELSE IF next > MaxCusum THEN MaxCusum ELSE next

InEpisode == cusum > 0

\* _trusted_step_would_reanchor
Reanchors(w) == w.trusted /\ installed /\ w.jump

\* begin_window re-anchors only outside an episode, finish_window always: by
\* the end of the window a jump has cleared hours and backfill either way.
HoursSoFar(w) == IF ~InEpisode /\ Reanchors(w) THEN 0 ELSE hours

\* _tier_for
TierFor(w) ==
    IF w.trusted /\ installed /\ HoursSoFar(w) >= ColdStart THEN "seasonal" ELSE "rolling"

TierUnheld(w) == TierFor(w)     \* mutant: the tier of an episode is not held

\* _tier_for_preview
Tier(w) == IF InEpisode /\ episodeTier # "none" THEN episodeTier ELSE TierFor(w)

\* What is held when the window arrives, aged by the clock it arrives with.
Aged(w) == [n \in DOMAIN backfill |->
              IF ~(w.trusted /\ w.jump) THEN backfill[n]
              ELSE IF installed THEN "stale" ELSE "boot"]

\* What begin_window drains: the held samples, once time is anchored.
Drains(w) == w.trusted /\ ~InEpisode /\ installed /\ ~w.jump
Drained(w) == IF Drains(w) THEN Range(Aged(w)) ELSE {}

\* Mutant: only begin_window clears, which an episode keeps from it.
HeldThroughEpisode(w) == IF Drains(w) \/ (Reanchors(w) /\ ~InEpisode) THEN << >> ELSE Aged(w)

Held(w) == IF Drains(w) \/ Reanchors(w) THEN << >> ELSE Aged(w)

\* The trigger window is frozen already: S > 0 after CUSUM decides.
Frozen(w) == Accumulated(w) > 0

\* What enters the tiers: drained samples the seasonal one, this window's both.
Trained(w) == Drained(w) \cup (IF Frozen(w) \/ ~w.trusted THEN {} ELSE {"current"})

\* CrowdDetector.observe
Busy(w) == Accumulated(w) >= CusumH /\ ~crowdAlerted

ObserveCrowd(w) ==
    /\ cusum' = Accumulated(w)
    /\ crowdAlerted' = (cusum' > 0 /\ (crowdAlerted \/ Busy(w)))
    /\ tier' = Tier(w)
    /\ episodeTier' = IF ~Frozen(w) THEN IF InEpisode THEN episodeTier ELSE "none"
                      ELSE IF InEpisode /\ episodeTier # "none" THEN episodeTier ELSE Tier(w)
    /\ installed' = (installed \/ w.trusted)
    /\ hours' = IF Reanchors(w) THEN 0
                ELSE IF w.trusted /\ installed /\ hours < ColdStart THEN hours + 1 ELSE hours
    /\ backfill' = IF Frozen(w) \/ w.trusted \/ Len(Held(w)) = MaxBackfill THEN Held(w)
                   ELSE Append(Held(w), "current")
    /\ absorbed' = absorbed \cup Trained(w)

InitCrowd ==
    /\ cusum = 0 /\ crowdAlerted = FALSE /\ installed = FALSE /\ hours = 0
    /\ episodeTier = "none" /\ backfill = << >> /\ absorbed = {} /\ tier = "rolling"

\* "A clock re-anchor discards any queued samples" (crowd-baseline.md): once a
\* trusted window has anchored time, no sample held from before a correction
\* that re-anchors ever trains the baseline, though the correction comes within
\* an episode, when begin_window neither re-anchors nor drains. The first trusted
\* window is no re-anchor: what was queued since boot "until wall clock is
\* NTP-confirmed" (ADR 0008) is backfilled, however wrong its stamps ("boot").
NothingStaleTrains == "stale" \notin absorbed

\* An episode is measured against the tier it began with, though the clock
\* steps, trust comes and goes, and the cold start ends meanwhile
\* (_episode_tier).
EpisodeKeepsItsTier == [][cusum > 0 /\ cusum' > 0 => tier' = tier]_crowd

=============================================================================
