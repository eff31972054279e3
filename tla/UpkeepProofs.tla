----------------------------- MODULE UpkeepProofs -----------------------------
(***************************************************************************)
(* Proofs about Upkeep, for any devices and labels, any retention and pool *)
(* and any length of the day: wherever the process dies, after a cycle the *)
(* band counts are recent and the inside detector's two sets are current.  *)
(***************************************************************************)
EXTENDS Upkeep, FiniteSetTheorems, TLAPS

-----------------------------------------------------------------------------
\* The inductive invariant.

Times == Nat \cup {Never}

TablesOK ==
    /\ now \in Nat /\ retained \in Times /\ refreshed \in Times
    /\ label \in [Devices -> [on: BOOLEAN, since: Int]]
    /\ observations \subseteq Devices \X Int /\ IsFiniteSet(observations)
    /\ counts \subseteq Nat

JobOK ==
    job \in [pc: {"idle", "delete", "stamp", "refresh", "labels", "pool", "mark",
                  "anchors", "shards"},
             boot: BOOLEAN, read: SUBSET Devices, retain: Times, refresh: Times]

UpkeepTypeOK == TablesOK /\ JobOK

\* No stamp is of the future.
PastOK ==
    /\ retained <= now /\ refreshed <= now
    /\ job.retain <= now /\ job.refresh <= now

\* The marker never claims rows that were not pruned, and it is of the day of
\* the loop's look as soon as the loop has gone on to the refresh.
CountsOK ==
    /\ retained # Never => \A t \in counts : t >= Cutoff(retained)
    /\ job.pc = "stamp" => \A t \in counts : t >= Cutoff(job.retain)
    /\ job.pc \in {"delete", "stamp"} => job.retain # Never
    /\ job.retain # Never /\ job.pc \notin {"delete", "stamp"} =>
          retained # Never /\ Day(retained) = Day(job.retain)

\* What a rebuild on day D, or after it, must find.
Settled(d, on, D) == label[d].on = on /\ label[d].since < D
DaysBefore(d, D) == {o[2] : o \in {q \in observations : q[1] = d /\ q[2] < D}}

Frequent == {d \in Devices : Days(d) >= MinDays}

LabelsFor(set, D) == \A d \in Devices : Settled(d, TRUE, D) => d \in set
PoolFor(set, D) ==
    Cardinality(Frequent) <= MaxPool =>
        \A d \in Devices : Cardinality(DaysBefore(d, D)) >= MinDays => d \in set
FamiliarFor(set, D) == LabelsFor(set, D) /\ PoolFor(set, D)
GearFor(set, D) ==
    \A d \in Devices \ Stable, a \in Devices :
        /\ Settled(d, FALSE, D) /\ Settled(a, TRUE, D)
        /\ DaysBefore(d, D) \cap DaysBefore(a, D) # {}
        => d \in set

DayOf(stamp, D) == stamp # Never /\ D = Day(stamp)

\* Labels read in the first of two queries are still as old as the stamps.
ReadOK ==
    job.pc \in {"pool", "shards"} => \A D \in Int :
        DayOf(refreshed, D) \/ DayOf(job.refresh, D) => LabelsFor(job.read, D)

\* The marker's day is served by whatever set this process has, once it has
\* one; the day of the loop's look is served after the rebuild.
FamiliarOK ==
    \A D \in Int :
        /\ ~(job.boot /\ job.pc \in {"labels", "pool"}) /\ DayOf(refreshed, D) => FamiliarFor(familiar, D)
        /\ job.pc \notin {"labels", "pool"} /\ DayOf(job.refresh, D) => FamiliarFor(familiar, D)

\* The gear is behind the marker from the marker's statement to its own.
GearOK ==
    \A D \in Int :
        /\ ~job.boot /\ job.pc \notin {"anchors", "shards"} /\ DayOf(refreshed, D) => GearFor(gear, D)
        /\ job.pc \notin {"labels", "pool", "mark", "anchors", "shards"} /\ DayOf(job.refresh, D) =>
              GearFor(gear, D)

\* A cycle's upkeep includes the look at the refresh marker.
LookOK ==
    /\ Kept => job.refresh # Never
    /\ job.pc = "mark" => ~job.boot
    /\ job.boot => job.pc \in {"labels", "pool", "anchors", "shards"} /\ job.retain = Never
    /\ ~job.boot /\ job.pc \in {"labels", "pool", "mark", "anchors", "shards"} => job.refresh # Never

UpkeepInv == UpkeepTypeOK /\ PastOK /\ CountsOK /\ ReadOK /\ FamiliarOK /\ GearOK /\ LookOK

-----------------------------------------------------------------------------
\* Days.

LEMMA DayType ==
  ASSUME NEW t \in Int
  PROVE  Day(t) \in Int
BY UpkeepAssumption DEF Day

LEMMA DayMonotone ==
  ASSUME NEW t \in Int, NEW u \in Int, t <= u
  PROVE  Day(t) <= Day(u)
BY UpkeepAssumption DEF Day

LEMMA SameDay ==
  ASSUME NEW t \in Int, NEW u \in Int, Day(t) = Day(u)
  PROVE  t > u - DayLength
BY UpkeepAssumption DEF Day

-----------------------------------------------------------------------------
\* Counting.

LEMMA Parameters ==
  /\ MinDays \in Nat /\ MaxPool \in Nat /\ Retention \in Nat /\ DayLength \in Nat
  /\ \A d \in Devices : d \in Nat
BY UpkeepAssumption

LEMMA SeenFinite ==
  ASSUME UpkeepTypeOK, NEW d \in Devices
  PROVE  IsFiniteSet({o \in observations : o[1] = d})
<1>1. {o \in observations : o[1] = d} \in SUBSET observations
  OBVIOUS
<1>2. QED  BY <1>1, FS_Subset DEF UpkeepTypeOK, TablesOK

LEMMA DaysType ==
  ASSUME UpkeepTypeOK, NEW d \in Devices
  PROVE  Days(d) \in Nat
BY SeenFinite, FS_CardinalityType DEF Days

\* A device has at least one observation for each of its days.
LEMMA DaysBound ==
  ASSUME UpkeepTypeOK, NEW d \in Devices, NEW D \in Int
  PROVE  Cardinality(DaysBefore(d, D)) \in Nat /\ Cardinality(DaysBefore(d, D)) <= Days(d)
<1> DEFINE Q == {q \in observations : q[1] = d /\ q[2] < D}
           f == [q \in Q |-> q[2]]
<1>1. DaysBefore(d, D) = {q[2] : q \in Q}
  BY DEF DaysBefore
<1>2. f \in Surjection(Q, DaysBefore(d, D))
  BY <1>1 DEF Surjection
<1>3. Q \in SUBSET {o \in observations : o[1] = d}
  OBVIOUS
<1> HIDE DEF f, Q
<1>4. IsFiniteSet(Q) /\ Cardinality(Q) <= Days(d)
  BY <1>3, SeenFinite, FS_Subset DEF Days
<1>5. IsFiniteSet(DaysBefore(d, D)) /\ Cardinality(DaysBefore(d, D)) <= Cardinality(Q)
  BY <1>2, <1>4, FS_Surjection
<1>6. Cardinality(DaysBefore(d, D)) \in Nat /\ Cardinality(Q) \in Nat
  BY <1>4, <1>5, FS_CardinalityType
<1>7. QED  BY <1>4, <1>5, <1>6, DaysType

LEMMA FrequentType ==
  IsFiniteSet(Frequent) /\ Cardinality(Frequent) \in Nat
<1>1. Frequent \in SUBSET Devices
  BY DEF Frequent
<1>2. IsFiniteSet(Frequent)
  BY <1>1, FS_Subset, UpkeepAssumption
<1>3. QED  BY <1>2, FS_CardinalityType

\* A pool with room for all frequent devices has them all.
LEMMA PoolHasAll ==
  ASSUME UpkeepTypeOK, NEW labeled, Cardinality(Frequent) <= MaxPool,
         NEW d \in Devices \ labeled, Days(d) >= MinDays
  PROVE  d \in Pool(labeled)
<1> DEFINE seen == {e \in Devices \ labeled : Days(e) >= MinDays}
           ahead == {e \in seen : Before(e, d)}
<1>1. seen \in SUBSET Frequent /\ d \in seen /\ ahead \in SUBSET (seen \ {d})
  <2>1. ~Before(d, d)
    <3>1. Days(d) \in Nat /\ d \in Nat
      BY DaysType, Parameters
    <3>2. QED  BY <3>1 DEF Before
  <2>2. QED  BY <2>1 DEF Frequent
<1>2. Pool(labeled) = {e \in seen : Cardinality({c \in seen : Before(c, e)}) < MaxPool}
  BY DEF Pool
<1>3. (d \in seen /\ Cardinality(ahead) < MaxPool) => d \in Pool(labeled)
  BY <1>2
<1> HIDE DEF seen, ahead
<1>4. IsFiniteSet(seen) /\ Cardinality(seen) <= Cardinality(Frequent)
  BY <1>1, FrequentType, FS_Subset
<1>5. IsFiniteSet(seen \ {d}) /\ Cardinality(seen \ {d}) = Cardinality(seen) - 1
  BY <1>1, <1>4, FS_RemoveElement
<1>6. IsFiniteSet(ahead) /\ Cardinality(ahead) <= Cardinality(seen \ {d})
  BY <1>1, <1>5, FS_Subset
<1>7. Cardinality(ahead) \in Nat /\ Cardinality(seen) \in Nat /\ MaxPool \in Nat
  BY <1>4, <1>6, FS_CardinalityType, UpkeepAssumption
<1>8. QED  BY <1>1, <1>3, <1>4, <1>5, <1>6, <1>7, FrequentType

-----------------------------------------------------------------------------
\* What a step may write is of today: what was owed for a day that is not later
\* is owed no more than before.

Written ==
    /\ \A d \in Devices : label'[d] = label[d] \/ label'[d].since = Day(now)
    /\ observations \subseteq observations'
    /\ \A o \in observations' \ observations : o[2] = Day(now)

LEMMA OwedNoMore ==
  ASSUME UpkeepTypeOK, Written, NEW D \in Int, D <= Day(now)
  PROVE  /\ \A d \in Devices : \A on \in BOOLEAN : Settled(d, on, D)' => Settled(d, on, D)
         /\ \A d \in Devices : DaysBefore(d, D)' = DaysBefore(d, D)
<1>1. Day(now) \in Int
  BY DayType DEF UpkeepTypeOK, TablesOK
<1>2. ASSUME NEW d \in Devices, NEW on \in BOOLEAN, Settled(d, on, D)'
      PROVE  Settled(d, on, D)
  <2>1. label'[d].on = on /\ label'[d].since < D
    BY <1>2 DEF Settled
  <2>2. label'[d] = label[d]
    BY <1>1, <2>1 DEF Written
  <2>3. QED  BY <2>1, <2>2 DEF Settled
<1>3. ASSUME NEW d \in Devices
      PROVE  DaysBefore(d, D)' = DaysBefore(d, D)
  <2>1. {q \in observations' : q[1] = d /\ q[2] < D} = {q \in observations : q[1] = d /\ q[2] < D}
    BY <1>1 DEF Written
  <2>2. QED  BY <2>1 DEF DaysBefore
<1>4. QED  BY <1>2, <1>3

LEMMA FrequentGrows ==
  ASSUME UpkeepTypeOK, UpkeepTypeOK', Written
  PROVE  Cardinality(Frequent) <= Cardinality(Frequent')
<1>1. ASSUME NEW d \in Devices PROVE Days(d) <= Days(d)'
  <2>1. {o \in observations : o[1] = d} \in SUBSET {o \in observations' : o[1] = d}
    BY DEF Written
  <2>2. IsFiniteSet({o \in observations' : o[1] = d})
    <3>1. {o \in observations' : o[1] = d} \in SUBSET observations'
      OBVIOUS
    <3>2. QED  BY <3>1, FS_Subset DEF UpkeepTypeOK, TablesOK
  <2>3. QED  BY <2>1, <2>2, FS_Subset DEF Days
<1>2. \A d \in Devices : Days(d) \in Nat /\ Days(d)' \in Nat
  <2>1. ASSUME NEW d \in Devices PROVE Days(d)' \in Nat
    <3>1. {o \in observations' : o[1] = d} \in SUBSET observations'
      OBVIOUS
    <3>2. QED  BY <3>1, FS_Subset, FS_CardinalityType DEF UpkeepTypeOK, TablesOK, Days
  <2>2. QED  BY <2>1, DaysType
<1>3. Frequent \in SUBSET Frequent'
  <2>1. ASSUME NEW d \in Devices, Days(d) >= MinDays PROVE Days(d)' >= MinDays
    BY <1>1, <1>2, <2>1, Parameters
  <2>2. QED  BY <2>1 DEF Frequent
<1>4. Frequent' \in SUBSET Devices
  BY DEF Frequent
<1>5. IsFiniteSet(Frequent')
  BY <1>4, FS_Subset, UpkeepAssumption
<1>6. QED  BY <1>3, <1>5, FS_Subset

\* So a set that serves a day goes on serving it.
LEMMA StillServes ==
  ASSUME UpkeepTypeOK, UpkeepTypeOK', Written, NEW D \in Int, D <= Day(now), NEW set
  PROVE  /\ FamiliarFor(set, D) => FamiliarFor(set, D)'
         /\ GearFor(set, D) => GearFor(set, D)'
         /\ LabelsFor(set, D) => LabelsFor(set, D)'
<1>1. /\ \A d \in Devices : \A on \in BOOLEAN : Settled(d, on, D)' => Settled(d, on, D)
      /\ \A d \in Devices : DaysBefore(d, D)' = DaysBefore(d, D)
  BY OwedNoMore
<1>2. Cardinality(Frequent)' <= MaxPool => Cardinality(Frequent) <= MaxPool
  <2>1. Cardinality(Frequent) \in Nat /\ Cardinality(Frequent') \in Nat
    <3>1. Frequent' \in SUBSET Devices
      BY DEF Frequent
    <3>2. QED  BY <3>1, FrequentType, FS_Subset, FS_CardinalityType, UpkeepAssumption
  <2>2. QED  BY <2>1, FrequentGrows, Parameters
<1>3. LabelsFor(set, D) => LabelsFor(set, D)'
  BY <1>1 DEF LabelsFor
<1>4. PoolFor(set, D) => PoolFor(set, D)'
  BY <1>1, <1>2 DEF PoolFor
<1>5. GearFor(set, D) => GearFor(set, D)'
  BY <1>1 DEF GearFor
<1>6. QED  BY <1>3, <1>4, <1>5 DEF FamiliarFor

\* What the queries find, given labels that are as old as the day.
LEMMA Served ==
  ASSUME UpkeepTypeOK, NEW D \in Int, LabelsFor(job.read, D)
  PROVE  /\ FamiliarFor(job.read \cup Pool(job.read), D)
         /\ GearFor(Shards(job.read), D)
<1>1. FamiliarFor(job.read \cup Pool(job.read), D)
  <2>1. LabelsFor(job.read \cup Pool(job.read), D)
    BY DEF LabelsFor
  <2>2. ASSUME Cardinality(Frequent) <= MaxPool,
               NEW d \in Devices, Cardinality(DaysBefore(d, D)) >= MinDays
        PROVE  d \in job.read \cup Pool(job.read)
    <3>1. Days(d) >= MinDays
      BY <2>2, DaysBound, DaysType, Parameters
    <3>2. QED  BY <2>2, <3>1, PoolHasAll
  <2>3. QED  BY <2>1, <2>2 DEF FamiliarFor, PoolFor
<1>2. ASSUME NEW d \in Devices \ Stable, NEW a \in Devices,
             Settled(d, FALSE, D), Settled(a, TRUE, D),
             DaysBefore(d, D) \cap DaysBefore(a, D) # {}
      PROVE  d \in Shards(job.read)
  <2>1. d \notin Labeled /\ a \in job.read
    BY <1>2 DEF Settled, Labeled, LabelsFor
  <2>2. PICK o \in observations, q \in observations : o[1] = d /\ q[1] = a /\ o[2] = q[2]
    BY <1>2 DEF DaysBefore
  <2>3. <<a, o[2]>> \in observations
    BY <2>2 DEF UpkeepTypeOK, TablesOK
  <2>4. QED  BY <1>2, <2>1, <2>2, <2>3 DEF Shards, SeenTogether
<1>3. QED  BY <1>1, <1>2 DEF GearFor

-----------------------------------------------------------------------------
\* Types, and what a step writes.

LEMMA JobStep ==
  ASSUME UpkeepTypeOK, Next
  PROVE  JobOK'
<1>1. now \in Times /\ Never \in Times /\ JobOK /\ Labeled \in SUBSET Devices
  BY DEF UpkeepTypeOK, TablesOK, Times, Labeled
<1>2. CASE Cycle
  BY <1>1, <1>2 DEF Cycle, JobOK
<1>3. CASE Delete \/ Stamp \/ Refresh
  BY <1>1, <1>3 DEF Delete, Stamp, Refresh, At, JobOK
<1>4. CASE ReadLabels \/ Build \/ Mark
  BY <1>1, <1>4 DEF ReadLabels, Build, Mark, At, JobOK
<1>5. CASE ReadAnchors \/ Replace
  BY <1>1, <1>5 DEF ReadAnchors, Replace, JobOK
<1>6. CASE Die
  BY <1>1, <1>6 DEF Die, Booting, JobOK
<1>7. CASE Tick \/ \E d \in Devices : Relabel(d)
  BY <1>1, <1>7 DEF Tick, Relabel, JobOK
<1>8. QED  BY <1>2, <1>3, <1>4, <1>5, <1>6, <1>7 DEF Next

LEMMA TypeStep ==
  ASSUME UpkeepTypeOK, Next
  PROVE  UpkeepTypeOK' /\ Written /\ now' >= now
<1>1. TablesOK /\ JobOK /\ JobOK' /\ job.retain \in Times /\ job.refresh \in Times
  BY JobStep DEF UpkeepTypeOK, JobOK
<1>2. CASE Cycle
  <2>1. PICK heard \in SUBSET Devices : observations' = observations \cup {<<d, Day(now)>> : d \in heard}
    BY <1>2 DEF Cycle
  <2> DEFINE rows == {<<d, Day(now)>> : d \in heard}
  <2>2. IsFiniteSet(rows)
    <3>1. [d \in heard |-> <<d, Day(now)>>] \in Surjection(heard, rows)
      BY DEF Surjection
    <3>2. IsFiniteSet(heard)
      BY FS_Subset, UpkeepAssumption
    <3> HIDE DEF rows
    <3>3. QED  BY <3>1, <3>2, FS_Surjection
  <2>3. Day(now) \in Int
    BY <1>1, DayType DEF TablesOK
  <2>4. observations' \subseteq Devices \X Int /\ IsFiniteSet(observations')
    <3>1. rows \subseteq Devices \X Int
      BY <2>3
    <3>2. observations' = observations \cup rows
      BY <2>1
    <3> HIDE DEF rows
    <3>3. observations \subseteq Devices \X Int /\ IsFiniteSet(observations)
      BY <1>1 DEF TablesOK
    <3>4. IsFiniteSet(observations \cup rows)
      BY <2>2, <3>3, FS_Union
    <3>5. QED  BY <3>1, <3>2, <3>3, <3>4
  <2>5. UNCHANGED <<now, label, retained, refreshed>> /\ counts' = counts \cup {now}
    BY <1>2 DEF Cycle, others, markers
  <2>6. now \in Nat /\ now' = now /\ counts' \subseteq Nat
    BY <1>1, <2>5 DEF TablesOK
  <2>7. TablesOK'
    BY <1>1, <2>4, <2>5, <2>6 DEF TablesOK
  <2>8. Written
    BY <2>1, <2>5 DEF Written
  <2>9. QED  BY <1>1, <2>6, <2>7, <2>8 DEF UpkeepTypeOK
<1>3. CASE Delete \/ Stamp \/ Refresh \/ ReadLabels \/ Build \/ Mark \/ ReadAnchors \/ Replace \/ Die
  <2>1. /\ UNCHANGED <<now, label, observations>> /\ counts' \subseteq counts
        /\ retained' \in {retained, job.retain} /\ refreshed' \in {refreshed, job.refresh}
    <3>1. CASE Delete \/ Stamp \/ Refresh
      BY <3>1 DEF Delete, Stamp, Refresh, others, tables, markers
    <3>2. CASE ReadLabels \/ Build \/ Mark
      BY <3>2 DEF ReadLabels, Build, Mark, others, tables, markers
    <3>3. CASE ReadAnchors \/ Replace \/ Die
      BY <3>3 DEF ReadAnchors, Replace, Die, others, tables, markers
    <3>4. QED  BY <1>3, <3>1, <3>2, <3>3
  <2>2. now \in Nat /\ now' = now /\ counts' \subseteq Nat
    BY <1>1, <2>1 DEF TablesOK
  <2>3. TablesOK'
    BY <1>1, <2>1, <2>2 DEF TablesOK
  <2>4. Written
    BY <2>1 DEF Written
  <2>5. QED  BY <1>1, <2>2, <2>3, <2>4 DEF UpkeepTypeOK
<1>4. CASE Tick
  <2>1. now' = now + 1 /\ UNCHANGED <<label, observations, counts, retained, refreshed>>
    BY <1>4 DEF Tick, others, tables, markers
  <2>2. TablesOK' /\ Written /\ now' >= now
    BY <1>1, <2>1 DEF TablesOK, Written
  <2>3. QED  BY <1>1, <2>2 DEF UpkeepTypeOK
<1>5. ASSUME NEW d \in Devices, Relabel(d) PROVE UpkeepTypeOK' /\ Written /\ now' >= now
  <2>1. /\ label' = [label EXCEPT ![d] = [on |-> ~@.on, since |-> Day(now)]]
        /\ UNCHANGED <<now, observations, counts, retained, refreshed>>
    BY <1>5 DEF Relabel, tables, markers
  <2>2. [on |-> ~label[d].on, since |-> Day(now)] \in [on: BOOLEAN, since: Int]
    BY <1>1, DayType DEF TablesOK
  <2>3. label' \in [Devices -> [on: BOOLEAN, since: Int]]
    BY <1>1, <2>1, <2>2 DEF TablesOK
  <2>4. TablesOK' /\ now' >= now
    BY <1>1, <2>1, <2>3 DEF TablesOK
  <2>5. Written
    BY <1>1, <2>1 DEF TablesOK, Written
  <2>6. QED  BY <1>1, <2>4, <2>5 DEF UpkeepTypeOK
<1>6. QED  BY <1>2, <1>3, <1>4, <1>5 DEF Next

LEMMA Stamps ==
  ASSUME UpkeepTypeOK
  PROVE  /\ now \in Int /\ retained \in Int /\ refreshed \in Int /\ Never \in Int /\ Never < 0
         /\ job.retain \in Int /\ job.refresh \in Int /\ now >= 0
BY DEF UpkeepTypeOK, TablesOK, JobOK, Times, Never

LEMMA PastStep ==
  ASSUME UpkeepTypeOK, UpkeepTypeOK', PastOK, Next
  PROVE  PastOK'
<1>1. now' >= now /\ now' \in Int
  BY TypeStep, Stamps DEF UpkeepTypeOK, TablesOK
<1>2. JobOK
  BY DEF UpkeepTypeOK
<1>3. /\ retained' \in {retained, job.retain} /\ refreshed' \in {refreshed, job.refresh}
      /\ job'.retain \in {job.retain, now, Never} /\ job'.refresh \in {job.refresh, now, Never}
  <2>1. CASE Cycle \/ Delete \/ Stamp \/ Refresh
    BY <1>2, <2>1 DEF JobOK, Cycle, Delete, Stamp, Refresh, At, markers
  <2>2. CASE ReadLabels \/ Build \/ Mark \/ ReadAnchors \/ Replace
    BY <1>2, <2>2 DEF JobOK, ReadLabels, Build, Mark, ReadAnchors, Replace, At, markers
  <2>3. CASE Die
    BY <2>3 DEF Die, Booting, markers
  <2>4. CASE Tick \/ \E d \in Devices : Relabel(d)
    BY <2>4 DEF Tick, Relabel, markers
  <2>5. QED  BY <2>1, <2>2, <2>3, <2>4 DEF Next
<1>4. QED  BY <1>1, <1>3, Stamps DEF PastOK

-----------------------------------------------------------------------------
\* The pruning.

LEMMA CutoffBefore ==
  ASSUME NEW t \in Int
  PROVE  Cutoff(t) \in Int /\ Cutoff(t) <= t
<1>1. Retention * DayLength \in Nat
  BY Parameters
<1>2. QED  BY <1>1 DEF Cutoff

LEMMA CountsStep ==
  ASSUME UpkeepTypeOK, PastOK, CountsOK, Next
  PROVE  CountsOK'
<1>1. JobOK /\ counts \subseteq Nat
  BY DEF UpkeepTypeOK, TablesOK
<1>2. CASE Cycle
  <2>1. /\ counts' = counts \cup {now} /\ UNCHANGED retained /\ job'.retain = now
        /\ job'.pc = IF IsDue(retained) THEN "delete" ELSE "refresh"
    BY <1>1, <1>2 DEF Cycle, JobOK, markers
  <2>2. now # Never /\ now >= Cutoff(retained)
    BY Stamps, CutoffBefore DEF PastOK
  <2>3. IsDue(retained) \/ (retained # Never /\ Day(retained) = Day(now))
    BY DEF IsDue
  <2>4. QED  BY <2>1, <2>2, <2>3 DEF CountsOK, Day, Cutoff, Never
<1>3. CASE Delete
  <2>1. /\ counts' = {t \in counts : t >= Cutoff(job.retain)} /\ UNCHANGED retained
        /\ job.pc = "delete" /\ job'.retain = job.retain /\ job'.pc = "stamp"
    BY <1>1, <1>3 DEF Delete, At, JobOK, markers
  <2>2. QED  BY <2>1 DEF CountsOK, Cutoff, Never
<1>4. CASE Stamp
  <2>1. /\ UNCHANGED counts /\ retained' = job.retain
        /\ job.pc = "stamp" /\ job'.retain = job.retain /\ job'.pc = "refresh"
    BY <1>1, <1>4 DEF Stamp, At, JobOK, tables
  <2>2. QED  BY <2>1 DEF CountsOK, Cutoff, Never, Day
<1>5. CASE Refresh \/ ReadLabels \/ Build \/ Mark \/ ReadAnchors \/ Replace
  <2>1. /\ UNCHANGED <<counts, retained>> /\ job'.retain = job.retain
        /\ job.pc \notin {"delete", "stamp"} /\ job'.pc \notin {"delete", "stamp"}
    BY <1>1, <1>5 DEF Refresh, ReadLabels, Build, Mark, ReadAnchors, Replace, At, JobOK, tables, markers
  <2>2. QED  BY <2>1 DEF CountsOK, Cutoff, Never, Day
<1>6. CASE Die
  <2>1. UNCHANGED <<counts, retained>> /\ job'.retain = Never /\ job'.pc = "labels"
    BY <1>6 DEF Die, Booting, tables, markers
  <2>2. QED  BY <2>1 DEF CountsOK, Cutoff, Never
<1>7. CASE Tick \/ \E d \in Devices : Relabel(d)
  <2>1. UNCHANGED <<counts, retained, job>>
    BY <1>7 DEF Tick, Relabel, tables, markers
  <2>2. QED  BY <2>1 DEF CountsOK, Cutoff, Never, Day
<1>8. QED  BY <1>2, <1>3, <1>4, <1>5, <1>6, <1>7 DEF Next

-----------------------------------------------------------------------------
\* The two sets. A stamp's day is not after today, so what served it before a
\* step serves it after.

LEMMA AsOld ==
  ASSUME UpkeepTypeOK, PastOK, NEW D \in Int, DayOf(refreshed, D) \/ DayOf(job.refresh, D)
  PROVE  D <= Day(now)
BY Stamps, DayMonotone, DayType DEF PastOK, DayOf

LEMMA ReadStep ==
  ASSUME UpkeepTypeOK, UpkeepTypeOK', PastOK, PastOK', ReadOK, Next
  PROVE  ReadOK'
<1>1. JobOK /\ Written
  BY TypeStep DEF UpkeepTypeOK
<1>2. CASE ReadLabels \/ ReadAnchors
  <2>1. /\ job'.read = Labeled /\ job'.refresh = job.refresh
        /\ UNCHANGED <<now, refreshed, label>>
    BY <1>1, <1>2 DEF ReadLabels, ReadAnchors, JobOK, others, markers
  <2>2. Labeled' = Labeled
    BY <2>1 DEF Labeled
  <2>3. \A D \in Int : LabelsFor(job.read, D)'
    BY <2>1, <2>2 DEF LabelsFor, Labeled, Settled
  <2>4. QED  BY <2>3 DEF ReadOK
<1>3. CASE Tick \/ \E d \in Devices : Relabel(d)
  <2>1. UNCHANGED <<job, refreshed>>
    BY <1>3 DEF Tick, Relabel, markers
  <2> SUFFICES ASSUME job'.pc \in {"pool", "shards"}, NEW D \in Int,
                      DayOf(refreshed, D)' \/ DayOf(job.refresh, D)'
               PROVE  LabelsFor(job.read, D)'
    BY DEF ReadOK
  <2>2. DayOf(refreshed, D) \/ DayOf(job.refresh, D)
    BY <2>1 DEF DayOf, Day, Never
  <2>3. D <= Day(now) /\ LabelsFor(job.read, D)
    BY <2>1, <2>2, AsOld DEF ReadOK
  <2>4. PICK set : set = job.read
    OBVIOUS
  <2>5. LabelsFor(set, D)'
    BY <1>1, <2>3, <2>4, StillServes
  <2>6. QED  BY <2>1, <2>4, <2>5
<1>4. CASE Cycle \/ Delete \/ Stamp \/ Refresh \/ Build \/ Mark \/ Replace \/ Die
  <2>1. CASE Cycle \/ Delete \/ Stamp \/ Refresh
    BY <1>1, <2>1 DEF Cycle, Delete, Stamp, Refresh, At, JobOK, ReadOK
  <2>2. CASE Build \/ Mark \/ Replace \/ Die
    <3>1. job'.pc \in {"anchors", "mark", "idle", "labels"}
      <4>1. CASE Build \/ Mark
        BY <1>1, <4>1 DEF Build, Mark, At, JobOK
      <4>2. CASE Replace
        BY <1>1, <4>2 DEF Replace, JobOK
      <4>3. CASE Die
        BY <4>3 DEF Die, Booting
      <4>4. QED  BY <2>2, <4>1, <4>2, <4>3
    <3>2. QED  BY <3>1 DEF ReadOK
  <2>3. QED  BY <1>4, <2>1, <2>2
<1>5. QED  BY <1>2, <1>3, <1>4 DEF Next

LEMMA FamiliarStep ==
  ASSUME UpkeepTypeOK, UpkeepTypeOK', PastOK, ReadOK, FamiliarOK, LookOK, Next
  PROVE  FamiliarOK'
<1>1. JobOK /\ Written
  BY TypeStep DEF UpkeepTypeOK
<1> SUFFICES ASSUME NEW D \in Int
    PROVE  /\ (~(job'.boot /\ job'.pc \in {"labels", "pool"}) /\ DayOf(refreshed, D)' =>
                  FamiliarFor(familiar, D)')
           /\ (job'.pc \notin {"labels", "pool"} /\ DayOf(job.refresh, D)' =>
                  FamiliarFor(familiar, D)')
  BY DEF FamiliarOK
<1>2. DayOf(refreshed, D) \/ DayOf(job.refresh, D) => D <= Day(now)
  BY AsOld
<1>3. ASSUME UNCHANGED familiar, FamiliarFor(familiar, D), D <= Day(now)
      PROVE  FamiliarFor(familiar, D)'
  <2>1. PICK set : set = familiar
    OBVIOUS
  <2>2. FamiliarFor(set, D)'
    BY <1>1, <1>3, <2>1, StillServes
  <2>3. QED  BY <1>3, <2>1, <2>2
<1>4. ASSUME UNCHANGED <<familiar, refreshed>>, job'.refresh = job.refresh,
             job.pc \in {"labels", "pool"} => job'.pc \in {"labels", "pool"} /\ job'.boot = job.boot
      PROVE  /\ (~(job'.boot /\ job'.pc \in {"labels", "pool"}) /\ DayOf(refreshed, D)' =>
                    FamiliarFor(familiar, D)')
             /\ (job'.pc \notin {"labels", "pool"} /\ DayOf(job.refresh, D)' =>
                    FamiliarFor(familiar, D)')
  <2>1. DayOf(refreshed, D)' = DayOf(refreshed, D) /\ DayOf(job.refresh, D)' = DayOf(job.refresh, D)
    BY <1>4 DEF DayOf, Day, Never
  <2>2. QED  BY <1>2, <1>3, <1>4, <2>1 DEF FamiliarOK
<1>5. CASE Cycle \/ Delete \/ Stamp
  BY <1>1, <1>4, <1>5 DEF Cycle, Delete, Stamp, At, JobOK, markers, sets
<1>6. CASE ReadLabels \/ ReadAnchors \/ Replace
  BY <1>1, <1>4, <1>6 DEF ReadLabels, ReadAnchors, Replace, JobOK, markers, sets
<1>7. CASE Tick \/ \E d \in Devices : Relabel(d)
  BY <1>4, <1>7 DEF Tick, Relabel, markers, sets
<1>8. CASE Refresh
  <2>1. /\ UNCHANGED <<now, familiar, refreshed>> /\ job'.refresh = now /\ job.pc = "refresh"
        /\ job'.pc = IF IsDue(refreshed) THEN "labels" ELSE "idle"
    BY <1>1, <1>8 DEF Refresh, JobOK, markers, sets
  <2>2. DayOf(refreshed, D) => FamiliarFor(familiar, D)'
    BY <1>2, <1>3, <2>1 DEF FamiliarOK
  <2>3. DayOf(refreshed, D)' = DayOf(refreshed, D)
    BY <2>1 DEF DayOf, Day, Never
  <2>4. job'.pc \notin {"labels", "pool"} /\ DayOf(job.refresh, D)' => DayOf(refreshed, D)
    BY <2>1 DEF IsDue, DayOf, Day, Never
  <2>5. QED  BY <2>2, <2>3, <2>4
<1>9. CASE Build
  <2>1. /\ UNCHANGED <<now, refreshed>> /\ job'.refresh = job.refresh /\ job.pc = "pool"
        /\ familiar' = job.read \cup Pool(job.read)
    BY <1>1, <1>9 DEF Build, JobOK, markers
  <2>2. ASSUME DayOf(refreshed, D) \/ DayOf(job.refresh, D) PROVE FamiliarFor(familiar, D)'
    <3>1. PICK set : set = job.read \cup Pool(job.read)
      OBVIOUS
    <3>2. FamiliarFor(set, D)
      BY <2>1, <2>2, <3>1, Served DEF ReadOK
    <3>3. FamiliarFor(set, D)'
      BY <1>1, <1>2, <2>2, <3>2, StillServes
    <3>4. QED  BY <2>1, <3>1, <3>3
  <2>3. DayOf(refreshed, D)' = DayOf(refreshed, D) /\ DayOf(job.refresh, D)' = DayOf(job.refresh, D)
    BY <2>1 DEF DayOf, Day, Never
  <2>4. QED  BY <2>2, <2>3
<1>10. CASE Mark
  <2>1. /\ UNCHANGED familiar /\ refreshed' = job.refresh /\ job'.refresh = job.refresh
        /\ job.pc = "mark"
    BY <1>1, <1>10 DEF Mark, At, JobOK, sets
  <2>2. DayOf(refreshed, D)' \/ DayOf(job.refresh, D)' => DayOf(job.refresh, D)
    BY <2>1 DEF DayOf, Day, Never
  <2>3. DayOf(job.refresh, D) => FamiliarFor(familiar, D)'
    BY <1>2, <1>3, <2>1 DEF FamiliarOK
  <2>4. QED  BY <2>2, <2>3
<1>11. CASE Die
  <2>1. job'.boot /\ job'.pc = "labels"
    BY <1>11 DEF Die, Booting
  <2>2. QED  BY <2>1
<1>12. QED  BY <1>5, <1>6, <1>7, <1>8, <1>9, <1>10, <1>11 DEF Next

LEMMA GearStep ==
  ASSUME UpkeepTypeOK, UpkeepTypeOK', PastOK, ReadOK, GearOK, LookOK, Next
  PROVE  GearOK'
<1>1. JobOK /\ Written
  BY TypeStep DEF UpkeepTypeOK
<1> DEFINE Upto == {"anchors", "shards"}
           Rebuild == {"labels", "pool", "mark", "anchors", "shards"}
<1> SUFFICES ASSUME NEW D \in Int
    PROVE  /\ (~job'.boot /\ job'.pc \notin Upto /\ DayOf(refreshed, D)' => GearFor(gear, D)')
           /\ (job'.pc \notin Rebuild /\ DayOf(job.refresh, D)' => GearFor(gear, D)')
  BY DEF GearOK
<1>2. DayOf(refreshed, D) \/ DayOf(job.refresh, D) => D <= Day(now)
  BY AsOld
<1>3. ASSUME UNCHANGED gear, GearFor(gear, D), D <= Day(now)
      PROVE  GearFor(gear, D)'
  <2>1. PICK set : set = gear
    OBVIOUS
  <2>2. GearFor(set, D)'
    BY <1>1, <1>3, <2>1, StillServes
  <2>3. QED  BY <1>3, <2>1, <2>2
<1>4. ASSUME UNCHANGED <<gear, refreshed>>, job'.refresh = job.refresh, job'.boot = job.boot,
             job.pc \in Upto => job'.pc \in Upto, job.pc \in Rebuild => job'.pc \in Rebuild
      PROVE  /\ (~job'.boot /\ job'.pc \notin Upto /\ DayOf(refreshed, D)' => GearFor(gear, D)')
             /\ (job'.pc \notin Rebuild /\ DayOf(job.refresh, D)' => GearFor(gear, D)')
  <2>1. DayOf(refreshed, D)' = DayOf(refreshed, D) /\ DayOf(job.refresh, D)' = DayOf(job.refresh, D)
    BY <1>4 DEF DayOf, Day, Never
  <2>2. QED  BY <1>2, <1>3, <1>4, <2>1 DEF GearOK
<1>5. CASE Cycle \/ Delete \/ Stamp
  BY <1>1, <1>4, <1>5 DEF Cycle, Delete, Stamp, At, JobOK, markers, sets
<1>6. CASE ReadLabels \/ ReadAnchors \/ Build
  BY <1>1, <1>4, <1>6 DEF ReadLabels, ReadAnchors, Build, JobOK, markers, sets
<1>7. CASE Tick \/ \E d \in Devices : Relabel(d)
  BY <1>4, <1>7 DEF Tick, Relabel, markers, sets
<1>8. CASE Refresh
  <2>1. /\ UNCHANGED <<now, gear, refreshed>> /\ job'.refresh = now /\ job.pc = "refresh"
        /\ job'.boot = job.boot /\ job'.pc = IF IsDue(refreshed) THEN "labels" ELSE "idle"
    BY <1>1, <1>8 DEF Refresh, JobOK, markers, sets
  <2>2. DayOf(refreshed, D) => GearFor(gear, D)'
    BY <1>2, <1>3, <2>1 DEF GearOK, LookOK
  <2>3. DayOf(refreshed, D)' = DayOf(refreshed, D)
    BY <2>1 DEF DayOf, Day, Never
  <2>4. job'.pc \notin Rebuild /\ DayOf(job.refresh, D)' => DayOf(refreshed, D)
    BY <2>1 DEF IsDue, DayOf, Day, Never
  <2>5. QED  BY <2>2, <2>3, <2>4
<1>9. CASE Replace
  <2>1. /\ UNCHANGED <<now, refreshed>> /\ job'.refresh = job.refresh /\ job.pc = "shards"
        /\ gear' = Shards(job.read)
    BY <1>1, <1>9 DEF Replace, JobOK, markers
  <2>2. ASSUME DayOf(refreshed, D) \/ DayOf(job.refresh, D) PROVE GearFor(gear, D)'
    <3>1. PICK set : set = Shards(job.read)
      OBVIOUS
    <3>2. GearFor(set, D)
      BY <2>1, <2>2, <3>1, Served DEF ReadOK
    <3>3. GearFor(set, D)'
      BY <1>1, <1>2, <2>2, <3>2, StillServes
    <3>4. QED  BY <2>1, <3>1, <3>3
  <2>3. DayOf(refreshed, D)' = DayOf(refreshed, D) /\ DayOf(job.refresh, D)' = DayOf(job.refresh, D)
    BY <2>1 DEF DayOf, Day, Never
  <2>4. QED  BY <2>2, <2>3
<1>10. CASE Mark
  BY <1>1, <1>10 DEF Mark, At, JobOK
<1>11. CASE Die
  <2>1. job'.boot /\ job'.pc = "labels"
    BY <1>11 DEF Die, Booting
  <2>2. QED  BY <2>1
<1>12. QED  BY <1>5, <1>6, <1>7, <1>8, <1>9, <1>10, <1>11 DEF Next

LEMMA LookStep ==
  ASSUME UpkeepTypeOK, LookOK, Next
  PROVE  LookOK'
<1>1. JobOK /\ now # Never
  BY Stamps DEF UpkeepTypeOK
<1>2. CASE Cycle \/ Delete \/ Stamp \/ Refresh
  BY <1>1, <1>2 DEF Cycle, Delete, Stamp, Refresh, At, JobOK, LookOK, Kept, Never
<1>3. CASE ReadLabels \/ Build \/ Mark
  BY <1>1, <1>3 DEF ReadLabels, Build, Mark, At, JobOK, LookOK, Kept, Never
<1>4. CASE ReadAnchors \/ Replace
  <2>1. CASE ReadAnchors
    BY <1>1, <2>1 DEF ReadAnchors, JobOK, LookOK, Kept, Never
  <2>2. CASE Replace
    <3>1. /\ job.pc = "shards" /\ job'.pc = "idle" /\ ~job'.boot
          /\ job'.retain = job.retain /\ job'.refresh = job.refresh
      BY <1>1, <2>2 DEF Replace, JobOK
    <3>2. QED  BY <3>1 DEF LookOK, Kept, Never
  <2>3. QED  BY <1>4, <2>1, <2>2
<1>5. CASE Die
  BY <1>5 DEF Die, Booting, LookOK, Kept, Never
<1>6. CASE Tick \/ \E d \in Devices : Relabel(d)
  BY <1>6 DEF Tick, Relabel, LookOK, Kept, Never
<1>7. QED  BY <1>2, <1>3, <1>4, <1>5, <1>6 DEF Next

-----------------------------------------------------------------------------
\* Theorems of the specification.

LEMMA InitUpkeep ==
  ASSUME Init
  PROVE  UpkeepInv
<1>1. TablesOK
  BY FS_EmptySet DEF Init, TablesOK, Times, Never
<1>2. JobOK /\ job.pc = "labels" /\ job.boot /\ job.retain = Never /\ job.refresh = Never
  BY DEF Init, Booting, JobOK, Times
<1>3. PastOK
  BY <1>2 DEF Init, PastOK, Never
<1>4. CountsOK /\ ReadOK /\ LookOK
  BY <1>2 DEF Init, CountsOK, ReadOK, LookOK, Kept
<1>5. FamiliarOK /\ GearOK
  BY <1>2 DEF FamiliarOK, GearOK
<1>6. QED  BY <1>1, <1>2, <1>3, <1>4, <1>5 DEF UpkeepInv, UpkeepTypeOK

LEMMA Stuttering ==
  ASSUME UpkeepInv, UNCHANGED vars
  PROVE  UpkeepInv'
<1>1. UNCHANGED <<now, label, observations, counts, retained, refreshed, familiar, gear, job>>
  BY DEF vars, others, tables, markers, sets
<1>2. UpkeepTypeOK' /\ PastOK' /\ CountsOK' /\ LookOK'
  BY <1>1 DEF UpkeepInv, UpkeepTypeOK, TablesOK, JobOK, PastOK, CountsOK, LookOK, Kept, Cutoff, Day
<1>3. \A set, D : /\ LabelsFor(set, D)' = LabelsFor(set, D)
                  /\ FamiliarFor(set, D)' = FamiliarFor(set, D)
                  /\ GearFor(set, D)' = GearFor(set, D)
  BY <1>1 DEF FamiliarFor, LabelsFor, PoolFor, GearFor, Settled, DaysBefore, Frequent, Days
<1>4. ReadOK' /\ FamiliarOK' /\ GearOK'
  BY <1>1, <1>3 DEF UpkeepInv, ReadOK, FamiliarOK, GearOK, DayOf, Day
<1>5. QED  BY <1>2, <1>4 DEF UpkeepInv

LEMMA UpkeepSafe == Spec => []UpkeepInv
<1>1. Init => UpkeepInv
  BY InitUpkeep
<1>2. UpkeepInv /\ [Next]_vars => UpkeepInv'
  <2> SUFFICES ASSUME UpkeepInv, [Next]_vars PROVE UpkeepInv'
    OBVIOUS
  <2>1. CASE UNCHANGED vars
    BY <2>1, Stuttering
  <2>2. CASE Next
    <3>1. UpkeepTypeOK' /\ PastOK'
      BY <2>2, TypeStep, PastStep DEF UpkeepInv
    <3>2. CountsOK' /\ LookOK'
      BY <2>2, CountsStep, LookStep DEF UpkeepInv
    <3>3. ReadOK' /\ FamiliarOK' /\ GearOK'
      BY <2>2, <3>1, ReadStep, FamiliarStep, GearStep DEF UpkeepInv
    <3>4. QED  BY <3>1, <3>2, <3>3 DEF UpkeepInv
  <2>3. QED  BY <2>1, <2>2
<1>3. QED  BY <1>1, <1>2, PTL DEF Spec

\* After a cycle no count is older than the retention and the day until the next
\* pruning, wherever the process died between the rows and the marker
\* (run_retention_if_due).
THEOREM CountsStayRecent == Spec => []CountsAreRecent
<1>1. UpkeepInv => CountsAreRecent
  <2> SUFFICES ASSUME UpkeepInv, Kept, NEW t \in counts
               PROVE  t > job.retain - (Retention + 1) * DayLength
    BY DEF CountsAreRecent
  <2>1. retained # Never /\ Day(retained) = Day(job.retain) /\ t >= Cutoff(retained)
    BY DEF UpkeepInv, CountsOK, Kept
  <2>2. retained \in Int /\ job.retain \in Int /\ t \in Int
    BY Stamps DEF UpkeepInv, UpkeepTypeOK, TablesOK
  <2>3. retained > job.retain - DayLength
    BY <2>1, <2>2, SameDay
  <2>4. (Retention + 1) * DayLength = Retention * DayLength + DayLength
        /\ Retention * DayLength \in Int /\ DayLength \in Int
    BY Parameters
  <2>5. QED  BY <2>1, <2>2, <2>3, <2>4 DEF Cutoff
<1>2. QED  BY <1>1, UpkeepSafe, PTL

\* After a cycle the familiar set has what a build on the day of the last look
\* finds, whichever process built it (build_familiar_device_ids, refresh_if_due).
THEOREM FamiliarStaysCurrent == Spec => []FamiliarIsCurrent
<1>1. UpkeepInv => FamiliarIsCurrent
  <2> SUFFICES ASSUME UpkeepInv, Kept
               PROVE  /\ \A d \in Devices : SettledBy(d, TRUE) => d \in familiar
                      /\ Cardinality(Frequent) <= MaxPool =>
                            \A d \in Devices : Cardinality(SeenBy(d)) >= MinDays => d \in familiar
    BY DEF FamiliarIsCurrent, Frequent
  <2>1. FamiliarFor(familiar, Day(job.refresh)) /\ Day(job.refresh) \in Int
    BY Stamps, DayType DEF UpkeepInv, FamiliarOK, LookOK, Kept, DayOf
  <2>2. \A d : SeenBy(d) = DaysBefore(d, Day(job.refresh))
    BY DEF SeenBy, DaysBefore
  <2>3. QED  BY <2>1, <2>2 DEF FamiliarFor, LabelsFor, PoolFor, Settled, SettledBy
<1>2. QED  BY <1>1, UpkeepSafe, PTL

\* The gear is current as well though only the familiar set has a marker
\* (build_own_rotating_gear_device_ids).
THEOREM GearStaysCurrent == Spec => []GearIsCurrent
<1>1. UpkeepInv => GearIsCurrent
  <2> SUFFICES ASSUME UpkeepInv, Kept PROVE GearIsCurrent
    BY DEF GearIsCurrent
  <2>1. GearFor(gear, Day(job.refresh)) /\ Day(job.refresh) \in Int
    BY Stamps, DayType DEF UpkeepInv, GearOK, LookOK, Kept, DayOf
  <2>2. \A d : SeenBy(d) = DaysBefore(d, Day(job.refresh))
    BY DEF SeenBy, DaysBefore
  <2>3. QED  BY <2>1, <2>2 DEF GearFor, GearIsCurrent, Settled, SettledBy
<1>2. QED  BY <1>1, UpkeepSafe, PTL

=============================================================================
