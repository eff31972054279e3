------------------------------ MODULE Approach ------------------------------
(***************************************************************************)
(* The approach detector: the bounded table of tracks, one per advertised  *)
(* address, with fading and eviction (detection/trajectory.py), the rising *)
(* predicate (approach.py, features.py) and one alert per visit            *)
(* (approach_detector.py).                                                 *)
(*                                                                         *)
(* Window indexes are kept relative, as ages. Of a track only what alerts  *)
(* depend on is kept: dwell, visit_min and the ages of a snapshot are not. *)
(***************************************************************************)
EXTENDS Window, Sequences, FiniteSetsExt

CONSTANTS
    ApproachWindows,    \* APPROACH_WINDOWS
    FadeAfter,          \* fade_after_windows
    MaxTracks           \* max_addresses

ASSUME ApproachAssumption ==
    /\ ApproachWindows \in Nat \ {0, 1}
    /\ FadeAfter \in Nat \ {0} /\ MaxTracks \in Nat \ {0}

VARIABLES
    tracks,     \* per address, samples (age, RSSI), oldest first; empty: no track
    alerted     \* _alerted

approach == <<tracks, alerted>>

-----------------------------------------------------------------------------
\* is_rising_approach, over the samples of a track.

PeakFloor == -75
FarStart == -85
Delta == 18

\* The numerator of rssi_slope, times the number of samples: its sign is the
\* slope's, and an age counts backwards.
SlopeSign(samples) ==
    LET n == Len(samples)
        Over(f(_)) == MapThenSumSet(f, 1..n)
    IN  Over(LAMBDA s : samples[s].ago) * Over(LAMBDA s : samples[s].rssi)
        - n * Over(LAMBDA s : samples[s].ago * samples[s].rssi)

Rising(samples) ==
    LET n == Len(samples)
        rssis == {samples[s].rssi : s \in 1..n}
        span == Max(rssis) - Min(rssis)
    IN  /\ n = ApproachWindows
        /\ span >= Delta
        /\ SlopeSign(samples) > 0
        /\ samples[n].rssi >= PeakFloor
        /\ Min(rssis) <= FarStart
        /\ 2 * (samples[n].rssi - samples[1].rssi) >= span

-----------------------------------------------------------------------------
\* TrajectoryTracker.observe

Tracked(table) == {i \in Ids : table[i] # << >>}
LastAgo(samples) == samples[Len(samples)].ago

Older(samples) == [s \in DOMAIN samples |-> [samples[s] EXCEPT !.ago = @ + 1]]

\* Fading: a silent track goes once it is FadeAfter windows old.
Faded(table, window) ==
    [i \in Ids |-> IF table[i] # << >> /\ window[i] = 0 /\ LastAgo(table[i]) >= FadeAfter
                   THEN << >> ELSE table[i]]

\* The first n of S in the order before, a set of pairs.
FirstOf(S, n, before) ==
    {x \in S : Cardinality({y \in S : <<y, x>> \in before}) < n}

\* Longest silent first, loudest first; ties by identity.
Staler(table) ==
    {p \in Tracked(table) \X Tracked(table) :
        \/ LastAgo(table[p[1]]) > LastAgo(table[p[2]])
        \/ LastAgo(table[p[1]]) = LastAgo(table[p[2]]) /\ p[1] < p[2]}
Louder(window) ==
    {p \in Ids \X Ids : \/ window[p[1]] > window[p[2]]
                        \/ window[p[1]] = window[p[2]] /\ p[1] < p[2]}

Overflow(table, window) ==
    Cardinality(Tracked(table) \cup Heard(window)) - MaxTracks

\* Mutant: a track that is heard in this window may be evicted, too.
VictimsAmongAll(table, window) ==
    FirstOf(Tracked(table), Overflow(table, window), Staler(table))

\* Too many: the longest silent tracks make room for what is heard now.
Victims(table, window) ==
    FirstOf(Tracked(table) \ Heard(window), Overflow(table, window), Staler(table))

\* Of the new addresses the loudest that fit beside the known ones.
Admitted(known, window) ==
    (Heard(window) \cap known) \cup
    FirstOf(Heard(window) \ known, MaxTracks - Cardinality(known), Louder(window))

\* The deque keeps the newest ApproachWindows samples.
Pushed(samples, rssi) ==
    LET all == Append(samples, [ago |-> 0, rssi |-> rssi])
    IN  IF Len(all) > ApproachWindows THEN Tail(all) ELSE all

TracksAfter(window) ==
    LET faded == Faded([i \in Ids |-> Older(tracks[i])], window)
        known == Tracked(faded) \ Victims(faded, window)
        admitted == Admitted(known, window)
    IN  [i \in Ids |-> IF i \in admitted
                       THEN Pushed(IF i \in known THEN faded[i] ELSE << >>, window[i])
                       ELSE IF i \in known THEN faded[i] ELSE << >>]

-----------------------------------------------------------------------------
\* ApproachDetector.observe, after the tracker: what it alerts about and keeps.

Risen(window) == {i \in Heard(window) \cap Tracked(tracks') : Rising(tracks'[i])}

Remaining == alerted \cap Tracked(tracks')

Approaching(window) == Risen(window) \ Remaining

ObserveApproach(window) ==
    /\ tracks' = TracksAfter(window)
    /\ alerted' = Remaining \cup Risen(window)

InitApproach == tracks = [i \in Ids |-> << >>] /\ alerted = {}

=============================================================================
