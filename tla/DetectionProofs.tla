--------------------------- MODULE DetectionProofs ---------------------------
(***************************************************************************)
(* Proofs about Detection, for any addresses, readings, thresholds and     *)
(* bounds: no detector is silent about what was never put on record, the   *)
(* crowd baseline never learns from stale samples, an episode keeps its    *)
(* tier, and the approach detector's memory is bounded.                    *)
(***************************************************************************)
EXTENDS Detection, FiniteSetTheorems, TLAPS

-----------------------------------------------------------------------------
\* The inductive invariant.

\* Before the COMMIT the alerts of this very cycle count as told.
Accounted ==
    /\ pc # "open" => Silenced \subseteq told
    /\ pc = "open" => Silenced \subseteq told \cup staged

\* What is held between two windows, and what trained the baseline.
HoldsNothingStale ==
    /\ backfill \in Seq(Samples)
    /\ \A n \in DOMAIN backfill : backfill[n] # "stale"
    /\ NothingStaleTrains

TierIsHeld ==
    /\ cusum > 0 => episodeTier = tier
    /\ tier \in {"rolling", "seasonal"}

CrowdInv == HoldsNothingStale /\ TierIsHeld

Sample == [ago: Nat, rssi: Levels]

\* A track is as old as its address has been silent, so that fading and the
\* history of visits agree.
TracksAreQuiet ==
    /\ tracks \in [Ids -> Seq(Sample)] /\ quiet \in [Ids -> Nat]
    /\ \A i \in Tracked(tracks) : LastAgo(tracks[i]) = quiet[i] /\ quiet[i] < FadeAfter

\* While a visit lasts its address is in the fire-once set, and what is in there
\* has a track.
VisitsAreAlerted ==
    /\ visit \subseteq Ids /\ alerted \subseteq Tracked(tracks)
    /\ \A i \in visit : quiet[i] < FadeAfter /\ i \in alerted

ApproachInv == TracksAreQuiet /\ VisitsAreAlerted

IInv == Accounted /\ CrowdInv /\ ApproachInv

-----------------------------------------------------------------------------
\* The crowd detector, window by window.

\* Only a window that re-anchors makes held samples stale.
LEMMA AgedIsCurrent ==
  ASSUME HoldsNothingStale, NEW w \in CrowdWindows
  PROVE  /\ Aged(w) \in Seq(Samples)
         /\ ~Reanchors(w) => \A n \in DOMAIN Aged(w) : Aged(w)[n] # "stale"
<1>1. /\ DOMAIN backfill = 1..Len(backfill) /\ Len(backfill) \in Nat
      /\ \A n \in 1..Len(backfill) : backfill[n] \in Samples /\ backfill[n] # "stale"
  BY DEF HoldsNothingStale
<1>2. /\ DOMAIN Aged(w) = 1..Len(backfill)
      /\ \A n \in 1..Len(backfill) :
            Aged(w)[n] = IF ~(w.trusted /\ w.jump) THEN backfill[n]
                         ELSE IF installed THEN "stale" ELSE "boot"
  BY <1>1 DEF Aged
<1>3. \A n \in 1..Len(backfill) : Aged(w)[n] \in Samples
  BY <1>1, <1>2 DEF Samples
<1>4. Aged(w) \in Seq(Samples)
  BY <1>1, <1>3 DEF Aged
<1>5. ~Reanchors(w) => \A n \in 1..Len(backfill) : Aged(w)[n] # "stale"
  BY <1>1, <1>2 DEF Reanchors
<1>6. QED  BY <1>2, <1>4, <1>5

\* What a window leaves in the queue is not stale, because re-anchoring empties
\* it, and what it drains is not, because it does one or the other.
LEMMA HeldIsCurrent ==
  ASSUME HoldsNothingStale, NEW w \in CrowdWindows
  PROVE  /\ Held(w) \in Seq(Samples)
         /\ \A n \in DOMAIN Held(w) : Held(w)[n] # "stale"
         /\ "stale" \notin Drained(w)
<1>1. /\ Aged(w) \in Seq(Samples)
      /\ ~Reanchors(w) => \A n \in DOMAIN Aged(w) : Aged(w)[n] # "stale"
  BY AgedIsCurrent
<1>2. Held(w) \in Seq(Samples) /\ \A n \in DOMAIN Held(w) : Held(w)[n] # "stale"
  BY <1>1 DEF Held
<1>3. Drains(w) => ~Reanchors(w)
  BY DEF Drains, Reanchors
<1>4. "stale" \notin Drained(w)
  BY <1>1, <1>3 DEF Drained, Range
<1>5. QED  BY <1>2, <1>4

LEMMA CrowdStep ==
  ASSUME CrowdInv, NEW w \in CrowdWindows, ObserveCrowd(w)
  PROVE  CrowdInv'
<1>1. cusum' = Accumulated(w) /\ tier' = Tier(w)
  BY DEF ObserveCrowd
<1>2. /\ Held(w) \in Seq(Samples)
      /\ \A n \in DOMAIN Held(w) : Held(w)[n] # "stale"
      /\ "stale" \notin Drained(w)
  BY HeldIsCurrent DEF CrowdInv
<1>3. backfill' \in Seq(Samples) /\ \A n \in DOMAIN backfill' : backfill'[n] # "stale"
  <2>1. CASE backfill' = Held(w)
    BY <1>2, <2>1
  <2>2. CASE backfill' = Append(Held(w), "current")
    <3>1. "current" \in Samples
      BY DEF Samples
    <3>2. backfill' \in Seq(Samples) /\ Len(backfill') = Len(Held(w)) + 1
      BY <1>2, <2>2, <3>1
    <3>3. ASSUME NEW n \in DOMAIN backfill' PROVE backfill'[n] # "stale"
      <4>1. n \in 1..(Len(Held(w)) + 1)
        BY <3>2
      <4>2. backfill'[n] = IF n = Len(Held(w)) + 1 THEN "current" ELSE Held(w)[n]
        BY <1>2, <2>2, <4>1
      <4>3. n # Len(Held(w)) + 1 => n \in DOMAIN Held(w)
        BY <1>2, <4>1
      <4>4. QED  BY <1>2, <4>2, <4>3
    <3>4. QED  BY <3>2, <3>3
  <2>3. QED  BY <2>1, <2>2 DEF ObserveCrowd
<1>4. NothingStaleTrains'
  <2>1. "stale" \notin absorbed /\ absorbed' = absorbed \cup Trained(w)
    BY DEF ObserveCrowd, CrowdInv, HoldsNothingStale, NothingStaleTrains
  <2>2. "stale" \notin Trained(w)
    BY <1>2 DEF Trained
  <2>3. QED  BY <2>1, <2>2 DEF NothingStaleTrains
<1>5. HoldsNothingStale'
  BY <1>3, <1>4 DEF HoldsNothingStale, Samples
<1>6. TierIsHeld'
  <2>1. tier' \in {"rolling", "seasonal"}
    BY <1>1 DEF Tier, TierFor, InEpisode, CrowdInv, TierIsHeld
  <2>2. cusum' > 0 => episodeTier' = tier'
    BY <1>1 DEF ObserveCrowd, Frozen, Tier, InEpisode, CrowdInv, TierIsHeld
  <2>3. QED  BY <2>1, <2>2 DEF TierIsHeld
<1>7. QED  BY <1>5, <1>6 DEF CrowdInv

-----------------------------------------------------------------------------
\* The approach detector, window by window.

LEMMA OlderFacts ==
  ASSUME NEW samples \in Seq(Sample)
  PROVE  /\ Older(samples) \in Seq(Sample)
         /\ Older(samples) = << >> <=> samples = << >>
         /\ samples # << >> => LastAgo(Older(samples)) = LastAgo(samples) + 1
<1>1. /\ DOMAIN Older(samples) = 1..Len(samples) /\ Len(samples) \in Nat
      /\ \A s \in 1..Len(samples) : /\ samples[s] \in Sample
                                    /\ Older(samples)[s] = [samples[s] EXCEPT !.ago = @ + 1]
  BY DEF Older
<1>2. \A s \in 1..Len(samples) : /\ Older(samples)[s] \in Sample
                                 /\ Older(samples)[s].ago = samples[s].ago + 1
  BY <1>1 DEF Sample
<1>3. Older(samples) \in Seq(Sample) /\ Len(Older(samples)) = Len(samples)
  BY <1>1, <1>2 DEF Older
<1>4. samples # << >> <=> Len(samples) > 0
  OBVIOUS
<1>5. Older(samples) # << >> <=> Len(Older(samples)) > 0
  BY <1>3
<1>6. samples # << >> => LastAgo(Older(samples)) = LastAgo(samples) + 1
  BY <1>1, <1>2, <1>3, <1>4 DEF LastAgo
<1>7. QED  BY <1>3, <1>4, <1>5, <1>6

LEMMA PushedFacts ==
  ASSUME NEW samples \in Seq(Sample), NEW rssi \in Levels
  PROVE  /\ Pushed(samples, rssi) \in Seq(Sample)
         /\ Pushed(samples, rssi) # << >>
         /\ LastAgo(Pushed(samples, rssi)) = 0
<1> DEFINE new == [ago |-> 0, rssi |-> rssi]
           all == Append(samples, new)
<1>1. new \in Sample /\ new.ago = 0
  BY DEF Sample
<1> HIDE DEF new
<1>2. /\ all \in Seq(Sample) /\ Len(all) = Len(samples) + 1
      /\ all[Len(all)] = new /\ Len(samples) \in Nat
  BY <1>1
<1>3. Pushed(samples, rssi) = IF Len(all) > ApproachWindows THEN Tail(all) ELSE all
  BY DEF Pushed, new
<1> HIDE DEF all
<1>4. CASE Len(all) > ApproachWindows
  <2>1. Len(all) >= 2
    BY <1>2, <1>4, ApproachAssumption
  <2>2. /\ Tail(all) \in Seq(Sample) /\ Len(Tail(all)) = Len(all) - 1
        /\ Tail(all)[Len(Tail(all))] = all[Len(all)]
    BY <1>2, <2>1
  <2>3. QED  BY <1>1, <1>2, <1>3, <1>4, <2>1, <2>2 DEF LastAgo
<1>5. CASE ~(Len(all) > ApproachWindows)
  BY <1>1, <1>2, <1>3, <1>5 DEF LastAgo
<1>6. QED  BY <1>4, <1>5

LEMMA PushedLength ==
  ASSUME NEW samples \in Seq(Sample), NEW rssi \in Levels, Len(samples) <= ApproachWindows
  PROVE  Len(Pushed(samples, rssi)) <= ApproachWindows
<1> DEFINE new == [ago |-> 0, rssi |-> rssi]
           all == Append(samples, new)
<1>1. new \in Sample
  BY DEF Sample
<1> HIDE DEF new
<1>2. /\ all \in Seq(Sample) /\ Len(all) = Len(samples) + 1 /\ Len(samples) \in Nat
  BY <1>1
<1>3. Pushed(samples, rssi) = IF Len(all) > ApproachWindows THEN Tail(all) ELSE all
  BY DEF Pushed, new
<1> HIDE DEF all
<1>4. Len(all) > ApproachWindows => Len(Tail(all)) = Len(all) - 1
  BY <1>2, ApproachAssumption
<1>5. QED  BY <1>2, <1>3, <1>4, ApproachAssumption

\* Nobody is evicted from a table that has room.
LEMMA NoVictims ==
  ASSUME NEW table, NEW window \in Windows, Overflow(table, window) <= 0
  PROVE  Victims(table, window) = {}
<1> DEFINE silent == Tracked(table) \ Heard(window)
<1>1. IsFiniteSet(silent)
  BY WindowAssumption, FS_Subset DEF Tracked
<1>2. Overflow(table, window) \in Int
  <2>1. Tracked(table) \cup Heard(window) \in SUBSET Ids
    BY DEF Tracked, Heard
  <2>2. Cardinality(Tracked(table) \cup Heard(window)) \in Nat
    BY <2>1, WindowAssumption, FS_Subset, FS_CardinalityType
  <2>3. QED  BY <2>2, ApproachAssumption DEF Overflow
<1>3. ASSUME NEW x \in Victims(table, window) PROVE FALSE
  <2> DEFINE earlier == {y \in silent : <<y, x>> \in Staler(table)}
  <2>1. Cardinality(earlier) < Overflow(table, window)
    BY <1>3 DEF Victims, FirstOf
  <2>2. earlier \in SUBSET silent
    OBVIOUS
  <2> HIDE DEF earlier, silent
  <2>3. Cardinality(earlier) \in Nat
    BY <1>1, <2>2, FS_Subset, FS_CardinalityType
  <2>4. QED  BY <1>2, <2>1, <2>3
<1>4. QED  BY <1>3

LEMMA ApproachStep ==
  ASSUME ApproachInv, NEW window \in Windows, ApproachCycle(window)
  PROVE  ApproachInv'
<1> DEFINE older    == [i \in Ids |-> Older(tracks[i])]
           faded    == Faded(older, window)
           known    == Tracked(faded) \ Victims(faded, window)
           admitted == Admitted(known, window)
<1>1. \A i \in Ids : /\ tracks[i] \in Seq(Sample) /\ quiet[i] \in Nat
                     /\ window[i] # 0 => window[i] \in Levels
                     /\ quiet'[i] = IF window[i] # 0 THEN 0
                                    ELSE IF quiet[i] < FadeAfter THEN quiet[i] + 1 ELSE quiet[i]
  BY DEF ApproachInv, TracksAreQuiet, ApproachCycle, Quiet, Windows
<1>2. \A i \in Ids : /\ older[i] \in Seq(Sample) /\ (older[i] = << >> <=> tracks[i] = << >>)
                     /\ tracks[i] # << >> => LastAgo(older[i]) = quiet[i] + 1 /\ quiet[i] < FadeAfter
  BY <1>1, OlderFacts DEF ApproachInv, TracksAreQuiet, Tracked
<1>3. \A i \in Ids : faded[i] = IF older[i] # << >> /\ window[i] = 0 /\ LastAgo(older[i]) >= FadeAfter
                                THEN << >> ELSE older[i]
  BY DEF Faded
<1>4. \A i \in Ids : tracks'[i] = IF i \in admitted
                                  THEN Pushed(IF i \in known THEN faded[i] ELSE << >>, window[i])
                                  ELSE IF i \in known THEN faded[i] ELSE << >>
  BY DEF ApproachCycle, ObserveApproach, TracksAfter
<1>5. /\ tracks' = [i \in Ids |-> tracks'[i]]
      /\ quiet' = [i \in Ids |-> quiet'[i]]
  BY DEF ApproachCycle, ObserveApproach, TracksAfter, Quiet
<1>6. admitted \subseteq Heard(window) /\ Heard(window) \cap known \subseteq admitted
  BY DEF Admitted, FirstOf
<1>7. \A i \in known : i \in Ids /\ faded[i] # << >>
  BY DEF Tracked
<1>8. Tracked(tracks) \cap Heard(window) \subseteq known
  BY <1>2, <1>3 DEF Victims, FirstOf, Tracked, Heard
<1>9. Overflow(faded, window) > 0 =>
          Cardinality(Tracked(tracks) \cup Heard(window)) > MaxTracks
  <2>1. Tracked(faded) \cup Heard(window) \in SUBSET (Tracked(tracks) \cup Heard(window))
    BY <1>2, <1>3 DEF Tracked
  <2>2. Tracked(tracks) \cup Heard(window) \in SUBSET Ids
    BY DEF Tracked, Heard
  <2>3. IsFiniteSet(Tracked(tracks) \cup Heard(window))
    BY <2>2, WindowAssumption, FS_Subset
  <2>4. /\ Cardinality(Tracked(tracks) \cup Heard(window)) \in Nat
        /\ Cardinality(Tracked(faded) \cup Heard(window)) \in Nat
        /\ Cardinality(Tracked(faded) \cup Heard(window))
             <= Cardinality(Tracked(tracks) \cup Heard(window))
    <3> HIDE DEF faded
    <3>1. QED  BY <2>1, <2>3, FS_Subset, FS_CardinalityType
  <2> HIDE DEF faded
  <2>5. QED  BY <2>4, ApproachAssumption DEF Overflow
<1>16. Overflow(faded, window) \in Int
  <2>1. Tracked(faded) \cup Heard(window) \in SUBSET Ids
    BY DEF Tracked, Heard
  <2> HIDE DEF faded
  <2>2. QED
    BY <2>1, WindowAssumption, ApproachAssumption, FS_Subset, FS_CardinalityType DEF Overflow
<1>10. ASSUME NEW i \in Ids, i \in admitted
       PROVE  /\ tracks'[i] \in Seq(Sample) /\ tracks'[i] # << >>
              /\ LastAgo(tracks'[i]) = 0 /\ quiet'[i] = 0
  <2>1. window[i] \in Levels /\ quiet'[i] = 0
    BY <1>1, <1>6, <1>10 DEF Heard
  <2>2. faded[i] \in Seq(Sample) /\ << >> \in Seq(Sample)
    <3>1. faded[i] = << >> \/ faded[i] = older[i]
      BY <1>3
    <3>2. older[i] \in Seq(Sample)
      BY <1>2
    <3> HIDE DEF faded, older
    <3>3. << >> \in Seq(Sample)
      OBVIOUS
    <3>4. CASE faded[i] = << >>
      BY <3>3, <3>4, Zenon
    <3>5. CASE faded[i] = older[i]
      BY <3>2, <3>3, <3>5, Zenon
    <3>6. QED  BY <3>1, <3>4, <3>5
  <2> HIDE DEF known, admitted, faded
  <2>3. (IF i \in known THEN faded[i] ELSE << >>) \in Seq(Sample)
    BY <2>2
  <2>4. QED  BY <1>4, <1>10, <2>1, <2>3, PushedFacts
<1>11. ASSUME NEW i \in Ids, i \notin admitted
       PROVE  /\ tracks'[i] \in Seq(Sample)
              /\ tracks'[i] # << >> => /\ LastAgo(tracks'[i]) = quiet'[i]
                                       /\ quiet'[i] < FadeAfter
              /\ i \in known => tracks'[i] # << >>
  <2>1. CASE i \notin known
    <3> HIDE DEF known, admitted, faded
    <3>1. tracks'[i] = << >>
      BY <1>4, <1>11, <2>1
    <3>2. QED  BY <2>1, <3>1
  <2>2. CASE i \in known
    <3>1. window[i] = 0
      BY <1>6, <1>11, <2>2 DEF Heard
    <3>2. tracks'[i] = faded[i] /\ faded[i] # << >>
      BY <1>4, <1>7, <1>11, <2>2
    <3>3. faded[i] = older[i] /\ ~(LastAgo(older[i]) >= FadeAfter) /\ tracks[i] # << >>
      BY <1>2, <1>3, <3>1, <3>2
    <3>4. LastAgo(older[i]) = quiet[i] + 1 /\ quiet'[i] = quiet[i] + 1 /\ older[i] \in Seq(Sample)
      BY <1>1, <1>2, <3>1, <3>3
    <3> HIDE DEF known, admitted, faded, older
    <3>5. QED  BY <1>1, <3>2, <3>3, <3>4, ApproachAssumption
  <2>3. QED  BY <2>1, <2>2
<1> HIDE DEF older
<1>12. TracksAreQuiet'
  <2> HIDE DEF known, admitted, faded
  <2>1. \A i \in Ids : /\ tracks'[i] \in Seq(Sample) /\ quiet'[i] \in Nat
                       /\ tracks'[i] # << >> => LastAgo(tracks'[i]) = quiet'[i]
                                                /\ quiet'[i] < FadeAfter
    BY <1>1, <1>10, <1>11, ApproachAssumption
  <2>2. QED  BY <1>5, <2>1 DEF TracksAreQuiet, Tracked
<1>13. alerted' \subseteq Tracked(tracks') /\ visit' \subseteq Ids
  BY DEF ApproachCycle, ObserveApproach, Remaining, Risen, Approaching, Heard,
         ApproachInv, VisitsAreAlerted
<1>14. ASSUME NEW i \in visit'
       PROVE  quiet'[i] < FadeAfter /\ i \in alerted'
  <2>1. i \in Ids
    BY <1>13
  <2>2. CASE i \in Approaching(window)
    <3>1. i \in alerted' /\ window[i] # 0
      BY <2>2 DEF ApproachCycle, ObserveApproach, Approaching, Risen, Heard
    <3>2. QED  BY <1>1, <2>1, <3>1, ApproachAssumption
  <2>3. CASE i \notin Approaching(window)
    <3>1. i \in visit /\ i \notin Over(window)
      BY <2>3 DEF ApproachCycle
    <3>2. quiet[i] < FadeAfter /\ i \in alerted /\ i \in Tracked(tracks)
      BY <3>1 DEF ApproachInv, VisitsAreAlerted
    <3>5. quiet'[i] < FadeAfter
      <4>1. quiet'[i] # FadeAfter
        BY <2>1, <3>1 DEF Over, ApproachCycle
      <4>2. QED  BY <1>1, <2>1, <3>2, <4>1, ApproachAssumption
    <3>3. i \in Tracked(tracks')
      <4>1. CASE window[i] # 0
        <5>1. i \in admitted
          BY <1>6, <1>8, <2>1, <3>2, <4>1 DEF Heard
        <5>2. QED  BY <1>10, <2>1, <5>1 DEF Tracked
      <4>2. CASE window[i] = 0
        <5>1. ~(Cardinality(Tracked(tracks) \cup Heard(window)) > MaxTracks)
          BY <2>1, <3>1, <4>2 DEF Over
        <5>2. Overflow(faded, window) <= 0
          BY <1>9, <1>16, <5>1
        <5>3. Victims(faded, window) = {}
          BY <5>2, NoVictims
        <5>4. faded[i] # << >>
          BY <1>1, <1>2, <1>3, <2>1, <3>2, <3>5, <4>2, ApproachAssumption DEF Tracked
        <5>5. i \in known /\ i \notin admitted
          BY <1>6, <2>1, <4>2, <5>3, <5>4 DEF Tracked, Heard
        <5>6. QED  BY <1>11, <2>1, <5>5 DEF Tracked
      <4>3. QED  BY <4>1, <4>2
    <3>4. QED  BY <3>2, <3>3, <3>5 DEF ApproachCycle, ObserveApproach, Remaining
  <2>4. QED  BY <2>2, <2>3
<1>15. QED  BY <1>12, <1>13, <1>14 DEF ApproachInv, VisitsAreAlerted

-----------------------------------------------------------------------------
\* The memory of the approach detector.

\* The table never holds more tracks than max_addresses, a track no more samples
\* than the slope is computed over, and fire-once no address without a track.
MemoryIsBounded ==
    /\ Cardinality(Tracked(tracks)) <= MaxTracks
    /\ \A i \in Ids : Len(tracks[i]) <= ApproachWindows
    /\ alerted \subseteq Tracked(tracks)

\* Under a strict total order no two members of a finite set have equally many
\* before them, so that at most n of them have fewer than n.
LEMMA FirstOfBound ==
  ASSUME NEW S, IsFiniteSet(S), NEW n \in Nat, NEW before,
         \A x \in S : <<x, x>> \notin before,
         \A x, y, z \in S : <<x, y>> \in before /\ <<y, z>> \in before => <<x, z>> \in before,
         \A x, y \in S : x = y \/ <<x, y>> \in before \/ <<y, x>> \in before
  PROVE  Cardinality(FirstOf(S, n, before)) <= n
<1> DEFINE Earlier(x) == {y \in S : <<y, x>> \in before}
           first == FirstOf(S, n, before)
           place == [x \in first |-> Cardinality(Earlier(x))]
<1>1. ASSUME NEW x \in S
      PROVE  IsFiniteSet(Earlier(x)) /\ Cardinality(Earlier(x)) \in Nat
  <2>1. Earlier(x) \in SUBSET S
    OBVIOUS
  <2> HIDE DEF Earlier
  <2>2. QED  BY <2>1, FS_Subset, FS_CardinalityType
<1>2. \A x \in first : x \in S /\ Cardinality(Earlier(x)) < n
  BY DEF FirstOf
<1>3. ASSUME NEW x \in S, NEW y \in S, <<x, y>> \in before
      PROVE  Cardinality(Earlier(x)) # Cardinality(Earlier(y))
  <2>1. Earlier(x) \in SUBSET Earlier(y)
    BY <1>3
  <2>2. x \in Earlier(y) /\ x \notin Earlier(x)
    BY <1>3
  <2>3. IsFiniteSet(Earlier(y))
    BY <1>1
  <2> HIDE DEF Earlier
  <2>4. QED  BY <2>1, <2>2, <2>3, FS_Subset
<1>4. place \in Injection(first, 0..(n - 1))
  <2>1. \A x \in first : Cardinality(Earlier(x)) \in 0..(n - 1)
    <3> HIDE DEF Earlier, first
    <3>1. QED  BY <1>1, <1>2
  <2>2. ASSUME NEW x \in first, NEW y \in first, place[x] = place[y] PROVE x = y
    <3> HIDE DEF Earlier, first
    <3>1. QED  BY <1>2, <1>3, <2>2
  <2> HIDE DEF Earlier, first
  <2>3. QED  BY <2>1, <2>2 DEF Injection, IsInjective
<1>5. IsFiniteSet(0..(n - 1)) /\ Cardinality(0..(n - 1)) = n
  BY FS_Interval
<1> HIDE DEF place, first
<1>6. Cardinality(first) <= Cardinality(0..(n - 1))
  BY <1>4, <1>5, FS_Injection
<1>7. QED  BY <1>5, <1>6 DEF first

\* Louder is such an order: ties go to the lower address.
LEMMA LouderIsAnOrder ==
  ASSUME NEW window \in Windows, NEW S \in SUBSET Ids
  PROVE  /\ \A x \in S : <<x, x>> \notin Louder(window)
         /\ \A x, y, z \in S : <<x, y>> \in Louder(window) /\ <<y, z>> \in Louder(window)
                                   => <<x, z>> \in Louder(window)
         /\ \A x, y \in S : x = y \/ <<x, y>> \in Louder(window) \/ <<y, x>> \in Louder(window)
<1>1. \A x \in S : x \in Ids /\ x \in Nat /\ window[x] \in Int
  <2>1. Levels \cup {0} \subseteq Int
    BY WindowAssumption
  <2>2. \A x \in Ids : window[x] \in Levels \cup {0}
    BY DEF Windows
  <2>3. QED  BY <2>1, <2>2, WindowAssumption
<1>2. \A x, y \in S : <<x, y>> \in Louder(window) <=>
          window[x] > window[y] \/ (window[x] = window[y] /\ x < y)
  BY <1>1 DEF Louder
<1>3. QED  BY <1>1, <1>2

LEMMA BoundedStep ==
  ASSUME ApproachInv, MemoryIsBounded, NEW window \in Windows, ApproachCycle(window)
  PROVE  MemoryIsBounded'
<1> DEFINE older    == [i \in Ids |-> Older(tracks[i])]
           faded    == Faded(older, window)
           known    == Tracked(faded) \ Victims(faded, window)
           new      == FirstOf(Heard(window) \ known, MaxTracks - Cardinality(known),
                               Louder(window))
<1>1. \A i \in Ids : tracks[i] \in Seq(Sample)
  BY DEF ApproachInv, TracksAreQuiet
<1>2. \A i \in Ids : /\ older[i] = << >> <=> tracks[i] = << >>
                     /\ Len(older[i]) = Len(tracks[i]) /\ older[i] \in Seq(Sample)
  <2>1. ASSUME NEW i \in Ids
        PROVE  /\ Older(tracks[i]) = << >> <=> tracks[i] = << >>
               /\ Len(Older(tracks[i])) = Len(tracks[i]) /\ Older(tracks[i]) \in Seq(Sample)
    <3>1. tracks[i] \in Seq(Sample)
      BY <1>1
    <3>2. DOMAIN Older(tracks[i]) = 1..Len(tracks[i]) /\ Len(tracks[i]) \in Nat
      BY <3>1 DEF Older
    <3>3. Older(tracks[i]) \in Seq(Sample) /\ (Older(tracks[i]) = << >> <=> tracks[i] = << >>)
      BY <3>1, OlderFacts
    <3>4. DOMAIN Older(tracks[i]) = 1..Len(Older(tracks[i])) /\ Len(Older(tracks[i])) \in Nat
      BY <3>3
    <3>5. QED  BY <3>2, <3>3, <3>4
  <2>2. QED  BY <2>1
<1>3. \A i \in Ids : faded[i] = << >> \/ faded[i] = older[i]
  BY DEF Faded
<1>4. \A i \in Ids : tracks'[i] = IF i \in Admitted(known, window)
                                  THEN Pushed(IF i \in known THEN faded[i] ELSE << >>, window[i])
                                  ELSE IF i \in known THEN faded[i] ELSE << >>
  BY DEF ApproachCycle, ObserveApproach, TracksAfter
<1>5. Admitted(known, window) \subseteq known \cup new
  BY DEF Admitted
<1>6. /\ IsFiniteSet(known) /\ Cardinality(known) \in Nat
      /\ Cardinality(known) <= MaxTracks
  <2>1. known \in SUBSET Tracked(tracks)
    BY <1>2, <1>3 DEF Tracked
  <2>2. Tracked(tracks) \in SUBSET Ids
    BY DEF Tracked
  <2> HIDE DEF known
  <2>3. IsFiniteSet(Tracked(tracks))
    BY <2>2, WindowAssumption, FS_Subset
  <2>4. /\ IsFiniteSet(known) /\ Cardinality(known) <= Cardinality(Tracked(tracks))
        /\ Cardinality(known) \in Nat /\ Cardinality(Tracked(tracks)) \in Nat
    BY <2>1, <2>3, FS_Subset, FS_CardinalityType
  <2>5. QED  BY <2>4, ApproachAssumption DEF MemoryIsBounded
<1>7. /\ IsFiniteSet(new) /\ Cardinality(new) \in Nat
      /\ Cardinality(new) <= MaxTracks - Cardinality(known)
  <2> HIDE DEF known
  <2>1. (Heard(window) \ known) \in SUBSET Ids
    BY DEF Heard
  <2>2. IsFiniteSet(Heard(window) \ known)
    BY <2>1, WindowAssumption, FS_Subset
  <2>3. MaxTracks - Cardinality(known) \in Nat
    BY <1>6, ApproachAssumption
  <2>4. new \in SUBSET (Heard(window) \ known)
    BY DEF FirstOf
  <2>5. Cardinality(new) <= MaxTracks - Cardinality(known)
    <3> DEFINE fresh == Heard(window) \ known
               room == MaxTracks - Cardinality(known)
               before == Louder(window)
    <3>1. /\ \A x \in fresh : <<x, x>> \notin before
          /\ \A x, y, z \in fresh : <<x, y>> \in before /\ <<y, z>> \in before
                                        => <<x, z>> \in before
          /\ \A x, y \in fresh : x = y \/ <<x, y>> \in before \/ <<y, x>> \in before
      BY <2>1, LouderIsAnOrder
    <3>2. IsFiniteSet(fresh) /\ room \in Nat
      BY <2>2, <2>3
    <3>3. new = FirstOf(fresh, room, before)
      OBVIOUS
    <3> HIDE DEF fresh, room, before, new
    <3>4. Cardinality(FirstOf(fresh, room, before)) <= room
      BY <3>1, <3>2, FirstOfBound
    <3>5. QED  BY <3>3, <3>4 DEF room
  <2> HIDE DEF new
  <2>6. QED  BY <2>2, <2>4, <2>5, FS_Subset, FS_CardinalityType
<1>8. \A i \in Ids : tracks'[i] # << >> => i \in known \cup new
  <2> HIDE DEF known, new, faded
  <2>1. QED  BY <1>4, <1>5
<1>9. Cardinality(Tracked(tracks')) <= MaxTracks
  <2>1. Tracked(tracks') \in SUBSET (known \cup new)
    <3> HIDE DEF known, new
    <3>1. QED  BY <1>8 DEF Tracked
  <2> HIDE DEF known, new
  <2>2. IsFiniteSet(known \cup new)
    BY <1>6, <1>7, FS_Union
  <2>3. Cardinality(known \cup new)
          = Cardinality(known) + Cardinality(new) - Cardinality(known \cap new)
    BY <1>6, <1>7, FS_Union
  <2>4. Cardinality(known \cap new) \in Nat
    BY <1>6, FS_Intersection, FS_CardinalityType
  <2>5. /\ Cardinality(Tracked(tracks')) <= Cardinality(known \cup new)
        /\ Cardinality(Tracked(tracks')) \in Nat /\ Cardinality(known \cup new) \in Nat
    BY <2>1, <2>2, FS_Subset, FS_CardinalityType
  <2>6. QED  BY <1>6, <1>7, <2>3, <2>4, <2>5, ApproachAssumption
<1>10. ASSUME NEW i \in Ids PROVE Len(tracks'[i]) <= ApproachWindows
  <2>1. Len(tracks[i]) <= ApproachWindows
    BY DEF MemoryIsBounded
  <2>2. /\ faded[i] \in Seq(Sample) /\ Len(faded[i]) <= ApproachWindows
        /\ << >> \in Seq(Sample) /\ Len(<< >>) <= ApproachWindows
    <3>1. faded[i] = << >> \/ faded[i] = older[i]
      BY <1>3
    <3>2. older[i] \in Seq(Sample) /\ Len(older[i]) <= ApproachWindows
      BY <1>2, <2>1
    <3> HIDE DEF faded, older
    <3>3. << >> \in Seq(Sample) /\ Len(<< >>) <= ApproachWindows
      BY ApproachAssumption
    <3>4. CASE faded[i] = << >>
      BY <3>3, <3>4
    <3>5. CASE faded[i] = older[i]
      BY <3>2, <3>3, <3>5, Zenon
    <3>6. QED  BY <3>1, <3>4, <3>5
  <2> DEFINE kept == IF i \in known THEN faded[i] ELSE << >>
  <2>3. kept \in Seq(Sample) /\ Len(kept) <= ApproachWindows
    <3> HIDE DEF known, faded
    <3>1. QED  BY <2>2
  <2>4. tracks'[i] = kept \/ (i \in Admitted(known, window) /\ tracks'[i] = Pushed(kept, window[i]))
    <3> HIDE DEF known, faded
    <3>1. QED  BY <1>4
  <2> HIDE DEF kept, known
  <2>5. CASE i \in Admitted(known, window) /\ tracks'[i] = Pushed(kept, window[i])
    <3>1. window[i] \in Levels
      BY <2>5 DEF Admitted, FirstOf, Heard, Windows
    <3>2. Len(Pushed(kept, window[i])) <= ApproachWindows
      BY <2>3, <3>1, PushedLength
    <3>3. QED  BY <2>5, <3>2
  <2>6. QED  BY <2>3, <2>4, <2>5
<1>11. alerted' \subseteq Tracked(tracks')
  BY DEF ApproachCycle, ObserveApproach, Remaining, Risen
<1>12. QED  BY <1>9, <1>10, <1>11 DEF MemoryIsBounded

-----------------------------------------------------------------------------
\* The invariant, action by action.

LEMMA InitIInv == Init => IInv
<1> SUFFICES ASSUME Init PROVE IInv
  OBVIOUS
<1>1. Accounted
  BY DEF Init, InitApproach, InitInside, InitCrowd, Accounted, Silenced
<1>2. CrowdInv
  BY DEF Init, InitCrowd, CrowdInv, HoldsNothingStale, NothingStaleTrains, TierIsHeld
<1>3. ApproachInv
  <2>1. \A i \in Ids : tracks[i] = << >>
    BY DEF Init, InitApproach
  <2>2. tracks \in [Ids -> Seq(Sample)] /\ quiet \in [Ids -> Nat]
    BY DEF Init, InitApproach
  <2>3. QED
    BY <2>1, <2>2 DEF Init, InitApproach, ApproachInv, TracksAreQuiet, VisitsAreAlerted, Tracked
<1>4. QED  BY <1>1, <1>2, <1>3 DEF IInv

\* What a detector adds to its memory in a window is what it alerts about.
LEMMA CycleAccounts ==
  ASSUME Accounted, Cycle
  PROVE  Accounted'
<1>1. pc = "idle" /\ pc' = "open" /\ told' = told /\ Silenced \subseteq told
  BY DEF Cycle, Accounted
<1>2. SUFFICES Silenced' \subseteq told \cup staged'
  BY <1>1 DEF Accounted
<1>3. CASE \E window \in Windows : ApproachCycle(window)
  <2>1. PICK window \in Windows : ApproachCycle(window)
    BY <1>3
  <2>2. /\ alerted' = Remaining \cup Risen(window) /\ staged' = Approaching(window)
        /\ dwellAlerted' = dwellAlerted /\ crowdAlerted' = crowdAlerted
    BY <2>1 DEF ApproachCycle, ObserveApproach, Enqueue, inside, crowd
  <2>3. alerted' \subseteq alerted \cup staged'
    BY <2>2 DEF Remaining, Approaching
  <2>4. QED  BY <1>1, <2>2, <2>3 DEF Silenced
<1>4. CASE \E window \in Windows : InsideCycle(window)
  <2>1. PICK window \in Windows : InsideCycle(window)
    BY <1>4
  <2>2. /\ alerted' = alerted /\ crowdAlerted' = crowdAlerted
        /\ dwellAlerted' = (StillAlerted(window) \/ Dwelling(window))
        /\ staged' = IF Dwelling(window) THEN {Site} ELSE {}
    BY <2>1 DEF InsideCycle, ObserveInside, Enqueue, approach, crowd
  <2>3. CASE Dwelling(window)
    BY <1>1, <2>2, <2>3 DEF Silenced
  <2>4. CASE ~Dwelling(window)
    <3>1. dwellAlerted' => dwellAlerted
      BY <2>2, <2>4 DEF StillAlerted
    <3>2. QED  BY <1>1, <2>2, <3>1 DEF Silenced
  <2>5. QED  BY <2>3, <2>4
<1>5. CASE \E w \in CrowdWindows : CrowdCycle(w)
  <2>1. PICK w \in CrowdWindows : CrowdCycle(w)
    BY <1>5
  <2>2. /\ alerted' = alerted /\ dwellAlerted' = dwellAlerted
        /\ crowdAlerted' = (cusum' > 0 /\ (crowdAlerted \/ Busy(w)))
        /\ staged' = IF Busy(w) THEN {Site} ELSE {}
    BY <2>1 DEF CrowdCycle, ObserveCrowd, Enqueue, approach, inside
  <2>3. CASE Busy(w)
    BY <1>1, <2>2, <2>3 DEF Silenced
  <2>4. CASE ~Busy(w)
    <3>1. crowdAlerted' => crowdAlerted
      BY <2>2, <2>4
    <3>2. QED  BY <1>1, <2>2, <2>4, <3>1 DEF Silenced
  <2>5. QED  BY <2>3, <2>4
<1>6. QED  BY <1>3, <1>4, <1>5 DEF Cycle

LEMMA CycleCrowdInv ==
  ASSUME CrowdInv, Cycle
  PROVE  CrowdInv'
<1>1. CASE UNCHANGED crowd
  BY <1>1 DEF crowd, CrowdInv, HoldsNothingStale, TierIsHeld, NothingStaleTrains
<1>2. CASE \E w \in CrowdWindows : ObserveCrowd(w)
  BY <1>2, CrowdStep
<1>3. QED  BY <1>1, <1>2 DEF Cycle, ApproachCycle, InsideCycle, CrowdCycle

LEMMA CycleApproachInv ==
  ASSUME ApproachInv, Cycle
  PROVE  ApproachInv'
<1>1. CASE UNCHANGED <<approach, visit, quiet>>
  BY <1>1 DEF approach, ApproachInv, TracksAreQuiet, VisitsAreAlerted, Tracked
<1>2. CASE \E window \in Windows : ApproachCycle(window)
  BY <1>2, ApproachStep
<1>3. QED  BY <1>1, <1>2 DEF Cycle, InsideCycle, CrowdCycle

LEMMA NextIInv == IInv /\ [Next]_vars => IInv'
<1> SUFFICES ASSUME IInv, [Next]_vars PROVE IInv'
  OBVIOUS
<1>1. CASE Cycle
  BY <1>1, CycleAccounts, CycleCrowdInv, CycleApproachInv DEF IInv
<1>2. ASSUME UNCHANGED crowd PROVE CrowdInv'
  BY <1>2 DEF crowd, IInv, CrowdInv, HoldsNothingStale, TierIsHeld, NothingStaleTrains
<1>3. ASSUME UNCHANGED <<approach, visit, quiet>> PROVE ApproachInv'
  BY <1>3 DEF approach, IInv, ApproachInv, TracksAreQuiet, VisitsAreAlerted, Tracked
<1>4. ASSUME UNCHANGED <<alerted, dwellAlerted, crowdAlerted>> PROVE Silenced' = Silenced
  BY <1>4 DEF Silenced
<1>5. CASE Commit
  <2>1. Accounted'
    BY <1>4, <1>5 DEF Commit, IInv, Accounted, approach, inside, crowd
  <2>2. QED  BY <1>2, <1>3, <1>5, <2>1 DEF Commit, IInv
<1>6. CASE Upkeep
  <2>1. Accounted'
    BY <1>4, <1>6 DEF Upkeep, Rebuild, IInv, Accounted, approach, inside, crowd, record
  <2>2. QED  BY <1>2, <1>3, <1>6, <2>1 DEF Upkeep, IInv, record
<1>7. CASE Midnight
  <2>1. Accounted'
    BY <1>4, <1>7 DEF Midnight, IInv, Accounted, approach, inside, crowd, record
  <2>2. QED  BY <1>2, <1>3, <1>7, <2>1 DEF Midnight, IInv, record
<1>8. CASE Restart
  <2>1. Accounted'
    BY <1>8 DEF Restart, Fresh, Accounted, Silenced
  <2>2. CrowdInv'
    BY <1>8 DEF Restart, Fresh, CrowdInv, HoldsNothingStale, NothingStaleTrains, TierIsHeld
  <2>3. ApproachInv'
    <3>1. /\ tracks' = [i \in Ids |-> << >>] /\ quiet' = [i \in Ids |-> 0]
          /\ alerted' = {} /\ visit' = {}
      BY <1>8 DEF Restart, Fresh
    <3>2. tracks' \in [Ids -> Seq(Sample)] /\ quiet' \in [Ids -> Nat]
      BY <3>1
    <3>3. \A i \in Ids : tracks'[i] = << >>
      BY <3>1
    <3>4. QED
      BY <3>1, <3>2, <3>3 DEF ApproachInv, TracksAreQuiet, VisitsAreAlerted, Tracked
  <2>4. QED  BY <2>1, <2>2, <2>3 DEF IInv
<1>9. CASE UNCHANGED vars
  <2>1. Accounted'
    BY <1>4, <1>9 DEF vars, IInv, Accounted, approach, inside, crowd, record
  <2>2. QED  BY <1>2, <1>3, <1>9, <2>1 DEF vars, IInv, record
<1>10. QED  BY <1>1, <1>5, <1>6, <1>7, <1>8, <1>9 DEF Next

\* The inductive invariant holds throughout.
THEOREM Invariance == Spec => []IInv
<1>1. QED  BY InitIInv, NextIInv, PTL DEF Spec

-----------------------------------------------------------------------------

\* A detector is never silent, between two cycles, about what it has not put on
\* record: fire-once memory changed in a cycle that rolls back dies with it
\* (run_cycle, ApproachDetector, InsideDetector, CrowdDetector).
THEOREM NothingIsSilenced == Spec => []SilencedMeansAlerted
<1>1. IInv => SilencedMeansAlerted
  BY DEF IInv, Accounted, SilencedMeansAlerted
<1>2. QED  BY <1>1, Invariance, PTL

\* Whatever trust, clock and episodes do, and whatever was queued before the clock
\* was first confirmed: no sample held from before a correction that re-anchors
\* trains the crowd baseline (begin_window, _reanchor_trusted_time).
THEOREM CurrentTraining == Spec => []NothingStaleTrains
<1>1. IInv => NothingStaleTrains
  BY DEF IInv, CrowdInv, HoldsNothingStale
<1>2. QED  BY <1>1, Invariance, PTL

\* One alert per visit: an address is alerted about again only after it was
\* silent for FadeAfter windows, or silent while the table overflowed, however
\* many addresses come and go (TrajectoryTracker.observe, ApproachDetector).
THEOREM OnePerVisit == Spec => OneAlertPerVisit
<1> DEFINE Once == backend = "approach" /\ pc = "idle" /\ pc' = "open" =>
                       staged' \cap visit = {}
<1>1. IInv /\ IInv' /\ [Next]_vars => [Once]_vars
  <2> SUFFICES ASSUME IInv, IInv', Next, backend = "approach", pc = "idle", pc' = "open",
                      NEW i \in staged', i \in visit
               PROVE  FALSE
    BY DEF vars
  <2>1. PICK window \in Windows : ApproachCycle(window)
    BY DEF Next, Cycle, Commit, Upkeep, Midnight, Restart, InsideCycle, CrowdCycle
  <2>2. i \in Risen(window) /\ i \notin Remaining
    BY <2>1 DEF ApproachCycle, Enqueue, Approaching
  <2>3. i \in alerted /\ i \in Tracked(tracks')
    BY <2>2 DEF IInv, ApproachInv, VisitsAreAlerted, Risen
  <2>4. QED  BY <2>2, <2>3 DEF Remaining
<1>2. Spec => [][Once]_vars
  BY <1>1, Invariance, PTL DEF Spec
<1>3. QED  BY <1>2 DEF OneAlertPerVisit

\* The approach detector's memory is bounded whatever is on the air: a street
\* full of rotating addresses costs MaxTracks tracks of ApproachWindows samples,
\* and its fire-once set no more (TrajectoryTracker.observe: the eviction of the
\* stalest and the admission of the loudest; ApproachDetector.observe).
THEOREM DetectorMemoryIsBounded == Spec => []MemoryIsBounded
<1>1. Init => MemoryIsBounded
  <2> SUFFICES ASSUME Init PROVE MemoryIsBounded
    OBVIOUS
  <2>1. tracks = [i \in Ids |-> << >>] /\ alerted = {}
    BY DEF Init, InitApproach
  <2>2. \A i \in Ids : tracks[i] = << >>
    BY <2>1
  <2>3. Tracked(tracks) = {}
    BY <2>2 DEF Tracked
  <2>4. Cardinality(Tracked(tracks)) <= MaxTracks
    BY <2>3, FS_EmptySet, ApproachAssumption
  <2>5. \A i \in Ids : Len(tracks[i]) <= ApproachWindows
    BY <2>2, ApproachAssumption
  <2>6. QED  BY <2>1, <2>4, <2>5 DEF MemoryIsBounded
<1>2. IInv /\ MemoryIsBounded /\ [Next]_vars => MemoryIsBounded'
  <2> SUFFICES ASSUME IInv, MemoryIsBounded, [Next]_vars PROVE MemoryIsBounded'
    OBVIOUS
  <2>1. CASE UNCHANGED approach
    BY <2>1 DEF approach, MemoryIsBounded, Tracked
  <2>2. CASE \E window \in Windows : ApproachCycle(window)
    BY <2>2, BoundedStep DEF IInv
  <2>3. CASE Restart
    <3>1. tracks' = [i \in Ids |-> << >>] /\ alerted' = {}
      BY <2>3 DEF Restart, Fresh
    <3>2. \A i \in Ids : tracks'[i] = << >>
      BY <3>1
    <3>3. Tracked(tracks') = {}
      BY <3>2 DEF Tracked
    <3>4. Cardinality(Tracked(tracks')) <= MaxTracks
      BY <3>3, FS_EmptySet, ApproachAssumption
    <3>5. \A i \in Ids : Len(tracks'[i]) <= ApproachWindows
      BY <3>2, ApproachAssumption
    <3>6. QED  BY <3>1, <3>4, <3>5 DEF MemoryIsBounded
  <2>4. QED
    BY <2>1, <2>2, <2>3 DEF Next, vars, Cycle, InsideCycle, CrowdCycle,
       Commit, Upkeep, Midnight
<1>3. QED  BY <1>1, <1>2, Invariance, PTL DEF Spec

\* While an episode lasts every window is measured against the tier of the
\* first (_episode_tier).
THEOREM TierKept == Spec => EpisodeKeepsItsTier
<1> DEFINE Keeps == cusum > 0 /\ cusum' > 0 => tier' = tier
<1>1. IInv /\ [Next]_vars => [Keeps]_crowd
  <2> SUFFICES ASSUME IInv, [Next]_vars, crowd' # crowd PROVE Keeps
    OBVIOUS
  <2>1. CASE \E w \in CrowdWindows : ObserveCrowd(w)
    <3>1. PICK w \in CrowdWindows : ObserveCrowd(w)
      BY <2>1
    <3>2. tier' = Tier(w)
      BY <3>1 DEF ObserveCrowd
    <3>3. cusum > 0 => episodeTier = tier /\ episodeTier # "none"
      BY DEF IInv, CrowdInv, TierIsHeld
    <3>4. QED  BY <3>2, <3>3 DEF Tier, InEpisode
  <2>2. CASE Restart
    BY <2>2 DEF Restart, Fresh
  <2>3. QED
    BY <2>1, <2>2 DEF Next, vars, Cycle, ApproachCycle, InsideCycle, CrowdCycle,
       Commit, Upkeep, Midnight
<1>2. Spec => [][Keeps]_crowd
  BY <1>1, Invariance, PTL DEF Spec
<1>3. QED  BY <1>2 DEF EpisodeKeepsItsTier

=============================================================================
