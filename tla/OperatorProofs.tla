---------------------------- MODULE OperatorProofs ----------------------------
(***************************************************************************)
(* Proofs about the two parts that address the operator. First the daily   *)
(* digest (DailySummary), for days and hours of any length and any number  *)
(* of cycles and steps of the clock: one digest a day, which reports every *)
(* transition once and every observation but one of the cycle in flight.   *)
(* Then the label session (InitSession), for any number of devices,        *)
(* sessions, updates and lines typed: whatever the two surfaces and a      *)
(* crashing daemon do between two statements of a handler, no device of a  *)
(* snapshot is passed over, no label is overwritten but by name, and an    *)
(* update acts only on a session that does not remember it.                *)
(***************************************************************************)
EXTENDS DailySummary, InitSession, FiniteSetTheorems, FunctionTheorems, SequenceTheorems, TLAPS

-----------------------------------------------------------------------------
\* The inductive invariant.

\* The last digest set the marker, and each is of a later day than the one before.
DigestsOK ==
    /\ marker = Never <=> Len(digests) = 0
    /\ Len(digests) > 0 => marker = digests[Len(digests)].end
    /\ \A m, n \in Digests : m < n => Date(digests[m].end) < Date(digests[n].end)

\* With a clock that goes forward, what is read or stamped under the lock is not
\* before the marker.
StampsOK ==
    /\ marker <= now
    /\ summary.pc = "checking" => marker <= summary.at /\ summary.at <= now
    /\ scan.pc = "writing" => marker <= scan.decided

\* The windows follow each other without a gap, up to the marker.
WindowsOK ==
    /\ \A n \in Digests : digests[n].start <= digests[n].end /\ digests[n].end <= marker
    /\ \A m, n \in Digests : m < n => digests[m].end <= digests[n].start
    /\ marker # Never => \A x \in Int :
          digests[1].start <= x /\ x < marker =>
              \E n \in Digests : digests[n].start <= x /\ x < digests[n].end

\* A digest has all transitions of its window, the later ones included.
RostersOK ==
    \A n \in Digests :
        digests[n].roster = Between(transitions, digests[n].start, digests[n].end)

Missed(n) == Between(observations, digests[n].start, digests[n].end) \ digests[n].seen

\* A cycle that heard before a digest commits after it once.
MissesOK ==
    \A n \in Digests :
        /\ \A o, p \in Missed(n) : o = p
        /\ scan.pc # "idle" /\ scan.heard < digests[n].end => Missed(n) = {}

SummaryInv ==
    /\ TypeOK /\ DigestsOK
    /\ stepsBack = 0 => StampsOK /\ WindowsOK /\ RostersOK /\ MissesOK

-----------------------------------------------------------------------------

LEMMA Dates ==
  ASSUME NEW t \in Int
  PROVE  Date(t) \in Int
BY SummaryAssumption DEF Date

LEMMA Types ==
  ASSUME TypeOK
  PROVE  /\ now \in Int /\ now >= 0 /\ marker \in Int /\ Never \in Int /\ Never < 0
         /\ scan.heard \in Int /\ scan.decided \in Int /\ summary.at \in Int /\ summary.at >= 0
         /\ Len(digests) \in Nat /\ Digests = 1..Len(digests)
         /\ \A n \in Digests : digests[n].start \in Int /\ digests[n].end \in Int
         /\ \A r \in Rows : r[2] \in Int
         /\ observations \subseteq Rows /\ transitions \subseteq Rows
<1>1. \A x \in Instant : x \in Int /\ x >= 0
  BY SummaryAssumption DEF Instant
<1>2. Never \in Int /\ Never < 0
  BY SummaryAssumption DEF Never
<1>3. now \in Instant /\ scan.heard \in Instant /\ scan.decided \in Instant
      /\ summary.at \in Instant /\ marker \in {Never} \cup Instant
  BY DEF TypeOK
<1>4. Len(digests) \in Nat /\ Digests = 1..Len(digests)
  BY DEF TypeOK, Digests
<1>5. \A n \in Digests : digests[n].start \in (-DayLength)..Horizon /\ digests[n].end \in Instant
  <2> DEFINE Digest1 == [start: (-DayLength)..Horizon, end: Instant,
                         seen: SUBSET Rows, roster: SUBSET Rows]
  <2>1. \A d \in Digest1 : d.start \in (-DayLength)..Horizon /\ d.end \in Instant
    OBVIOUS
  <2>2. digests \in Seq(Digest1)
    BY DEF TypeOK
  <2> HIDE DEF Digest1
  <2>3. \A n \in Digests : digests[n] \in Digest1
    BY <2>2, <1>4
  <2>4. QED  BY <2>1, <2>3
<1>6. \A x \in (-DayLength)..Horizon : x \in Int
  OBVIOUS
<1>7. \A r \in Rows : r[2] \in Int
  BY <1>1 DEF Rows
<1>8. observations \subseteq Rows /\ transitions \subseteq Rows
  BY DEF TypeOK
<1>9. QED  BY <1>1, <1>2, <1>3, <1>4, <1>5, <1>6, <1>7, <1>8

\* What the invariant says of a step that leaves the tables alone and sets no
\* clock back.
LEMMA TablesBystander ==
  ASSUME SummaryInv, TypeOK', UNCHANGED <<stepsBack, tables>>,
         stepsBack = 0 => StampsOK',
         stepsBack = 0 /\ scan'.pc # "idle" => scan'.heard = now
                           \/ (scan.pc # "idle" /\ scan'.heard = scan.heard)
  PROVE  SummaryInv'
<1>1. Digests' = Digests /\ DigestsOK'
  BY DEF SummaryInv, DigestsOK, Digests, tables
<1>2. ASSUME stepsBack = 0 PROVE WindowsOK' /\ RostersOK' /\ MissesOK'
  <2>1. WindowsOK' /\ RostersOK'
    BY <1>1, <1>2 DEF SummaryInv, WindowsOK, RostersOK, tables
  <2>2. \A n \in Digests : Missed(n)' = Missed(n)
    BY DEF Missed, tables
  <2>3. \A n \in Digests : digests[n].end <= now
    BY <1>2, Types DEF SummaryInv, WindowsOK, StampsOK
  <2>4. ASSUME NEW n \in Digests, scan'.pc # "idle", scan'.heard < digests[n].end
        PROVE  Missed(n) = {}
    BY <1>2, <2>3, <2>4, Types DEF SummaryInv, MissesOK
  <2>5. MissesOK'
    BY <1>1, <1>2, <2>2, <2>4 DEF SummaryInv, MissesOK, tables
  <2>6. QED  BY <2>1, <2>5
<1>3. QED  BY <1>1, <1>2 DEF SummaryInv

\* Every step keeps the types.
LEMMA TypeStep ==
  ASSUME TypeOK, Next
  PROVE  TypeOK'
<1>1. CASE Scan
  <2>1. scan'.cycle \in 0..MaxCycles /\ scan'.cycle >= 1
    BY <1>1, SummaryAssumption DEF Scan, TypeOK
  <2>2. QED  BY <1>1, <2>1 DEF Scan, TypeOK, tables
<1>2. CASE ScanBegin \/ ScanDecide
  BY <1>2 DEF ScanBegin, ScanDecide, TypeOK, tables
<1>3. CASE ScanCommit
  <2>1. <<scan.cycle, scan.heard>> \in Rows /\ <<scan.cycle, scan.decided>> \in Rows
    BY <1>3 DEF ScanCommit, TypeOK, Rows
  <2>2. QED  BY <1>3, <2>1, SummaryAssumption DEF ScanCommit, Idle, TypeOK, Instant
<1>4. CASE Peek \/ DigestBegin
  BY <1>4 DEF Peek, DigestBegin, TypeOK, tables
<1>5. CASE DigestSkip
  BY <1>5, SummaryAssumption DEF DigestSkip, Asleep, TypeOK, tables, Instant
<1>6. CASE Tick
  BY <1>6, SummaryAssumption DEF Tick, TypeOK, tables, Instant
<1>7. CASE \E t \in Instant : ClockSteppedBack(t)
  BY <1>7, SummaryAssumption DEF ClockSteppedBack, TypeOK, tables
<1>8. CASE Die
  BY <1>8, SummaryAssumption DEF Die, Idle, Asleep, TypeOK, tables, Instant
<1>9. CASE DigestCommit
  <2> DEFINE end == summary.at  start == Start(end)
             digest == [start |-> start, end |-> end,
                        seen |-> Between(observations, start, end),
                        roster |-> Between(transitions, start, end)]
             Digest1 == [start: (-DayLength)..Horizon, end: Instant,
                         seen: SUBSET Rows, roster: SUBSET Rows]
  <2>1. digests' = Append(digests, digest) /\ marker' = end /\ summary' = Asleep /\ lock' = "free"
        /\ UNCHANGED <<now, stepsBack, scan, observations, transitions>>
        /\ summary.pc = "checking"
    BY <1>9 DEF DigestCommit
  <2>2. end \in Instant /\ start \in (-DayLength)..Horizon
    BY SummaryAssumption DEF TypeOK, Instant, Start
  <2>3. digest \in Digest1
    BY <2>2 DEF TypeOK, Between
  <2>4. digests' \in Seq(Digest1)
    <3> HIDE DEF digest, Digest1
    <3>1. digests \in Seq(Digest1)
      BY DEF TypeOK, Digest1
    <3>2. QED  BY <2>1, <2>3, <3>1
  <2>5. QED  BY <2>1, <2>2, <2>4, SummaryAssumption DEF TypeOK, Asleep, Instant
<1>10. QED
  BY <1>1, <1>2, <1>3, <1>4, <1>5, <1>6, <1>7, <1>8, <1>9 DEF Next, Cycle, Digest

-----------------------------------------------------------------------------
\* The steps that leave the tables alone.

LEMMA QuietStep ==
  ASSUME SummaryInv, TypeOK',
         Scan \/ ScanBegin \/ ScanDecide \/ Peek \/ DigestBegin \/ DigestSkip \/ Tick \/ Die
  PROVE  SummaryInv'
<1>1. TypeOK /\ (stepsBack = 0 => StampsOK) /\ UNCHANGED <<stepsBack, tables>>
  BY DEF SummaryInv, Scan, ScanBegin, ScanDecide, Peek, DigestBegin, DigestSkip, Tick, Die
<1>2. now \in Int /\ marker \in Int /\ UNCHANGED marker
  BY <1>1, Types DEF tables
<1>3. scan \in [pc: {"idle", "scanned", "resolving", "writing"}, cycle: 0..MaxCycles,
                heard: Instant, decided: Instant]
      /\ summary \in [pc: {"idle", "due", "checking"}, at: Instant]
  BY <1>1 DEF TypeOK
<1>4. CASE Scan \/ ScanBegin
  <2>1. stepsBack = 0 => StampsOK'
    BY <1>1, <1>2, <1>3, <1>4 DEF Scan, ScanBegin, StampsOK, tables
  <2>2. scan'.pc # "idle" => scan'.heard = now \/ (scan.pc # "idle" /\ scan'.heard = scan.heard)
    BY <1>3, <1>4 DEF Scan, ScanBegin
  <2>3. QED  BY <1>1, <2>1, <2>2, TablesBystander
<1>5. CASE ScanDecide
  <2>1. stepsBack = 0 => StampsOK'
    BY <1>1, <1>2, <1>3, <1>5 DEF ScanDecide, StampsOK, tables
  <2>2. scan'.pc # "idle" => scan'.heard = now \/ (scan.pc # "idle" /\ scan'.heard = scan.heard)
    BY <1>3, <1>5 DEF ScanDecide
  <2>3. QED  BY <1>1, <2>1, <2>2, TablesBystander
<1>6. CASE Peek \/ DigestBegin \/ DigestSkip \/ Tick
  <2>1. UNCHANGED scan
    BY <1>6 DEF Peek, DigestBegin, DigestSkip, Tick
  <2>2. CASE Peek \/ DigestBegin \/ DigestSkip
    <3>1. UNCHANGED now /\ (summary'.pc = "checking" => summary'.at = now)
      BY <1>3, <2>2 DEF Peek, DigestBegin, DigestSkip, Asleep
    <3>2. stepsBack = 0 => StampsOK'
      BY <1>1, <1>2, <2>1, <3>1 DEF StampsOK
    <3>3. QED  BY <1>1, <2>1, <3>2, TablesBystander
  <2>3. CASE Tick
    <3>1. now' = now + 1 /\ UNCHANGED summary /\ summary.at \in Int
      BY <1>1, <2>3, Types DEF Tick
    <3>2. stepsBack = 0 => StampsOK'
      BY <1>1, <1>2, <2>1, <3>1 DEF StampsOK
    <3>3. QED  BY <1>1, <2>1, <3>2, TablesBystander
  <2>4. QED  BY <1>6, <2>2, <2>3
<1>7. CASE Die
  <2>1. scan'.pc = "idle" /\ summary'.pc = "idle" /\ UNCHANGED now
    BY <1>7 DEF Die, Idle, Asleep
  <2>2. stepsBack = 0 => StampsOK'
    BY <1>1, <1>2, <2>1 DEF StampsOK
  <2>3. QED  BY <1>1, <2>1, <2>2, TablesBystander
<1>8. QED  BY <1>4, <1>5, <1>6, <1>7

\* Once the clock was set back, the digests' days alone are promised.
LEMMA ClockStep ==
  ASSUME SummaryInv, TypeOK', NEW t \in Instant, ClockSteppedBack(t)
  PROVE  SummaryInv'
<1>1. stepsBack' # 0
  BY DEF SummaryInv, TypeOK, ClockSteppedBack
<1>2. DigestsOK'
  BY DEF SummaryInv, ClockSteppedBack, DigestsOK, Digests, tables
<1>3. QED  BY <1>1, <1>2 DEF SummaryInv

-----------------------------------------------------------------------------
\* The cycle's COMMIT: its transition is not before the marker, its observation
\* may be, but then no other was.

LEMMA ScanCommitStep ==
  ASSUME SummaryInv, TypeOK', ScanCommit
  PROVE  SummaryInv'
<1> DEFINE heard == <<scan.cycle, scan.heard>>
           decided == <<scan.cycle, scan.decided>>
<1>1. TypeOK /\ UNCHANGED <<now, stepsBack, summary, marker, digests>>
  BY DEF SummaryInv, ScanCommit
<1>2. observations' = observations \cup {heard} /\ transitions' = transitions \cup {decided}
      /\ scan.pc = "writing" /\ scan'.pc = "idle"
  BY DEF ScanCommit, Idle
<1>3. Digests' = Digests /\ DigestsOK'
  BY <1>1 DEF SummaryInv, DigestsOK, Digests
<1>4. heard[2] = scan.heard /\ decided[2] = scan.decided
  OBVIOUS
<1> HIDE DEF heard, decided
<1>5. ASSUME stepsBack = 0 PROVE StampsOK' /\ WindowsOK' /\ RostersOK' /\ MissesOK'
  <2>1. StampsOK' /\ WindowsOK'
    BY <1>1, <1>2, <1>3, <1>5 DEF SummaryInv, StampsOK, WindowsOK
  <2>2. ASSUME NEW n \in Digests
        PROVE  Between(transitions, digests[n].start, digests[n].end)'
                 = Between(transitions, digests[n].start, digests[n].end)
    <3>1. digests[n].end <= marker /\ marker <= scan.decided
      BY <1>2, <1>5 DEF SummaryInv, WindowsOK, StampsOK
    <3>2. ~(decided[2] < digests[n].end)
      BY <1>1, <1>4, <3>1, Types
    <3>3. QED  BY <1>1, <1>2, <3>2 DEF Between
  <2>3. RostersOK'
    BY <1>1, <1>3, <1>5, <2>2 DEF SummaryInv, RostersOK
  <2>4. ASSUME NEW n \in Digests
        PROVE  \A o, p \in Missed(n)' : o = p
    <3>1. Missed(n)' \subseteq Missed(n) \cup {heard}
      BY <1>1, <1>2 DEF Missed, Between
    <3>2. (\A o, p \in Missed(n) : o = p) /\ (scan.heard < digests[n].end => Missed(n) = {})
      BY <1>2, <1>5 DEF SummaryInv, MissesOK
    <3>3. heard \in Missed(n)' => heard[2] < digests[n].end
      BY <1>1 DEF Missed, Between
    <3>4. QED  BY <1>4, <3>1, <3>2, <3>3
  <2>5. MissesOK'
    BY <1>2, <1>3, <2>4 DEF MissesOK
  <2>6. QED  BY <2>1, <2>3, <2>5
<1>6. QED  BY <1>1, <1>3, <1>5 DEF SummaryInv

-----------------------------------------------------------------------------
\* The digest's COMMIT: its window starts where the last one ended, and under
\* the lock no cycle is between its stamp and its rows.

LEMMA DigestCommitStep ==
  ASSUME SummaryInv, TypeOK', DigestCommit
  PROVE  SummaryInv'
<1> DEFINE at == summary.at
           last == Len(digests) + 1
           start == Start(at)
           digest == [start |-> start, end |-> at,
                      seen |-> Between(observations, start, at),
                      roster |-> Between(transitions, start, at)]
<1>1. TypeOK /\ UNCHANGED <<now, stepsBack, scan, observations, transitions>>
  BY DEF SummaryInv, DigestCommit
<1>2. digests' = Append(digests, digest) /\ marker' = at /\ summary'.pc = "idle"
      /\ summary.pc = "checking" /\ (marker = Never \/ Date(at) > Date(marker))
  BY DEF DigestCommit, IsDue, Asleep
<1>3. digest.start = start /\ digest.end = at /\ digest.roster = Between(transitions, start, at)
      /\ digest.seen = Between(observations, start, at)
  OBVIOUS
<1>4. at \in Int /\ at >= 0 /\ marker \in Int /\ Never \in Int /\ Never < 0
      /\ Len(digests) \in Nat /\ Digests = 1..Len(digests)
      /\ \A n \in Digests : digests[n].start \in Int /\ digests[n].end \in Int
  BY <1>1, Types
<1>5. start = (IF marker = Never THEN at - DayLength ELSE marker) /\ start \in Int
  BY <1>4, SummaryAssumption DEF Start
<1> HIDE DEF digest, start, at
<1>6. /\ Digests' = 1..last /\ Len(digests') = last /\ digests'[last] = digest
      /\ \A n \in Digests : n \in 1..last /\ digests'[n] = digests[n]
      /\ \A n \in 1..last : n \in Digests \/ n = last
  <2> DEFINE Digest1 == [start: (-DayLength)..Horizon, end: Instant,
                         seen: SUBSET Rows, roster: SUBSET Rows]
  <2>1. digests \in Seq(Digest1) /\ digests' \in Seq(Digest1)
    BY <1>1 DEF TypeOK
  <2> HIDE DEF Digest1
  <2>2. Digests' = DOMAIN digests'
    BY DEF Digests
  <2>3. QED  BY <1>2, <1>4, <2>1, <2>2
<1>7. DigestsOK'
  <2>1. marker' # Never /\ Len(digests') # 0 /\ marker' = digests'[Len(digests')].end
    BY <1>2, <1>3, <1>4, <1>6
  <2>2. ASSUME NEW m \in Digests PROVE Date(digests[m].end) < Date(at)
    <3>1. Len(digests) > 0 /\ Len(digests) \in Digests /\ marker # Never
          /\ marker = digests[Len(digests)].end
      BY <1>4 DEF SummaryInv, DigestsOK
    <3>2. m = Len(digests) \/ Date(digests[m].end) < Date(marker)
      BY <1>4, <3>1 DEF SummaryInv, DigestsOK
    <3>3. Date(at) \in Int /\ Date(marker) \in Int /\ Date(digests[m].end) \in Int
      BY <1>4, Dates
    <3>4. QED  BY <1>2, <3>1, <3>2, <3>3
  <2>3. \A m, n \in Digests : m < n => Date(digests[m].end) < Date(digests[n].end)
    BY DEF SummaryInv, DigestsOK
  <2>4. ASSUME NEW m \in 1..last, NEW n \in 1..last, m < n
        PROVE  Date(digests'[m].end) < Date(digests'[n].end)
    <3>1. m \in Digests
      BY <1>4, <1>6, <2>4
    <3>2. CASE n \in Digests  BY <1>6, <2>3, <2>4, <3>1, <3>2
    <3>3. CASE n = last        BY <1>3, <1>6, <2>2, <3>1, <3>3
    <3>4. QED  BY <1>6, <3>2, <3>3
  <2>5. Never' = Never /\ \A x : Date(x)' = Date(x)
    BY DEF Never, Date
  <2>6. QED  BY <1>6, <2>1, <2>4 DEF DigestsOK, Date, Never
<1>8. ASSUME stepsBack = 0 PROVE StampsOK' /\ WindowsOK' /\ RostersOK' /\ MissesOK'
  <2>1. StampsOK /\ WindowsOK /\ RostersOK /\ MissesOK /\ DigestsOK
    BY <1>8 DEF SummaryInv
  <2>2. marker <= at /\ at <= now
    BY <1>2, <2>1 DEF StampsOK, at
  <2>3. scan.pc # "writing"
    BY <1>1, <1>2 DEF TypeOK
  <2>4. StampsOK'
    BY <1>1, <1>2, <2>2, <2>3 DEF StampsOK
  <2>5. marker # Never => marker < at
    BY <1>2, <1>4, <2>2, Dates
  <2>6. start <= at /\ (marker # Never => start = marker)
    BY <1>4, <1>5, <2>5, SummaryAssumption
  <2>7. \A n \in Digests : digests[n].start <= digests[n].end /\ digests[n].end <= marker
          /\ marker # Never
    BY <1>4, <2>1 DEF WindowsOK, DigestsOK
  <2>8. WindowsOK'
    <3>1. ASSUME NEW n \in 1..last
          PROVE  digests'[n].start <= digests'[n].end /\ digests'[n].end <= marker'
      <4>1. CASE n \in Digests  BY <1>2, <1>4, <1>6, <2>5, <2>7, <4>1
      <4>2. CASE n = last        BY <1>2, <1>3, <1>4, <1>6, <2>6, <4>2
      <4>3. QED  BY <1>6, <4>1, <4>2
    <3>2. ASSUME NEW m \in 1..last, NEW n \in 1..last, m < n
          PROVE  digests'[m].end <= digests'[n].start
      <4>1. m \in Digests
        BY <1>4, <1>6, <3>2
      <4>2. CASE n \in Digests  BY <1>6, <2>1, <3>2, <4>1, <4>2 DEF WindowsOK
      <4>3. CASE n = last        BY <1>3, <1>6, <2>6, <2>7, <4>1, <4>3
      <4>4. QED  BY <1>6, <4>2, <4>3
    <3>3. ASSUME NEW x \in Int, digests'[1].start <= x, x < at
          PROVE  \E n \in 1..last : digests'[n].start <= x /\ x < digests'[n].end
      <4>1. CASE start <= x
        BY <1>3, <1>4, <1>6, <3>3, <4>1
      <4>2. CASE ~(start <= x)
        <5>1. marker # Never
          <6>1. SUFFICES ASSUME marker = Never PROVE FALSE
            OBVIOUS
          <6>2. last = 1
            BY <2>1, <6>1 DEF DigestsOK
          <6>3. QED  BY <1>3, <1>6, <3>3, <4>2, <6>2
        <5>2. x < marker
          BY <1>4, <2>6, <4>2, <5>1
        <5>3. 1 \in Digests
          BY <1>4, <2>1, <5>1 DEF DigestsOK
        <5>4. PICK n \in Digests : digests[n].start <= x /\ x < digests[n].end
          BY <1>6, <2>1, <3>3, <5>1, <5>2, <5>3 DEF WindowsOK
        <5>5. QED  BY <1>6, <5>4
      <4>3. QED  BY <4>1, <4>2
    <3>4. QED  BY <1>2, <1>6, <3>1, <3>2, <3>3 DEF WindowsOK
  <2>9. RostersOK'
    <3>1. ASSUME NEW n \in 1..last
          PROVE  digests'[n].roster = Between(transitions, digests'[n].start, digests'[n].end)
      <4>1. CASE n \in Digests  BY <1>6, <2>1, <4>1 DEF RostersOK
      <4>2. CASE n = last        BY <1>3, <1>6, <4>2
      <4>3. QED  BY <1>6, <4>1, <4>2
    <3>2. QED  BY <1>1, <1>6, <3>1 DEF RostersOK, Between
  <2>10. MissesOK'
    <3>1. ASSUME NEW n \in Digests PROVE Missed(n)' = Missed(n)
      BY <1>1, <1>6 DEF Missed, Between
    <3>2. ASSUME NEW n \in 1..last, n = last PROVE Missed(n)' = {}
      <4>1. Missed(n)' = Between(observations, digests'[n].start, digests'[n].end)
                           \ digests'[n].seen
        BY <1>1 DEF Missed, Between
      <4>2. QED  BY <1>3, <1>6, <3>2, <4>1
    <3>3. ASSUME NEW n \in 1..last
          PROVE  /\ \A o, p \in Missed(n)' : o = p
                 /\ scan'.pc # "idle" /\ scan'.heard < digests'[n].end => Missed(n)' = {}
      <4>1. CASE n \in Digests  BY <1>1, <1>6, <2>1, <3>1, <4>1 DEF MissesOK
      <4>2. CASE n = last        BY <3>2, <4>2
      <4>3. QED  BY <1>6, <4>1, <4>2
    <3>4. QED  BY <1>6, <3>3 DEF MissesOK
  <2>11. QED  BY <2>4, <2>8, <2>9, <2>10
<1>9. QED  BY <1>1, <1>7, <1>8 DEF SummaryInv

-----------------------------------------------------------------------------
\* Theorems of the specification.

LEMMA InitSummary ==
  ASSUME Init
  PROVE  SummaryInv
<1>1. TypeOK
  BY SummaryAssumption DEF Init, TypeOK, Idle, Asleep, Instant, Never
<1>2. digests = << >> /\ marker = Never /\ Digests = {}
  BY DEF Init, Digests
<1>3. DigestsOK
  BY <1>2 DEF DigestsOK
<1>4. StampsOK
  BY <1>1, <1>2, Types DEF Init, StampsOK, Idle, Asleep
<1>5. WindowsOK /\ RostersOK /\ MissesOK
  BY <1>2 DEF WindowsOK, RostersOK, MissesOK
<1>6. QED  BY <1>1, <1>3, <1>4, <1>5 DEF SummaryInv

LEMMA Stuttering ==
  ASSUME SummaryInv, UNCHANGED vars
  PROVE  SummaryInv'
BY DEF SummaryInv, TypeOK, DigestsOK, StampsOK, WindowsOK, RostersOK, MissesOK, Missed, Digests,
       Between, vars

LEMMA SummarySafe == Spec => []SummaryInv
<1>1. Init => SummaryInv
  BY InitSummary
<1>2. SummaryInv /\ [Next]_vars => SummaryInv'
  <2> SUFFICES ASSUME SummaryInv, [Next]_vars PROVE SummaryInv'
    OBVIOUS
  <2>1. CASE UNCHANGED vars
    BY <2>1, Stuttering
  <2>2. CASE Next
    <3>1. TypeOK'
      BY <2>2, TypeStep DEF SummaryInv
    <3>2. CASE Scan \/ ScanBegin \/ ScanDecide \/ Peek \/ DigestBegin \/ DigestSkip \/ Tick \/ Die
      BY <3>1, <3>2, QuietStep
    <3>3. CASE ScanCommit
      BY <3>1, <3>3, ScanCommitStep
    <3>4. CASE DigestCommit
      BY <3>1, <3>4, DigestCommitStep
    <3>5. CASE \E t \in Instant : ClockSteppedBack(t)
      BY <3>1, <3>5, ClockStep
    <3>6. QED  BY <2>2, <3>2, <3>3, <3>4, <3>5 DEF Next, Cycle, Digest
  <2>3. QED  BY <2>1, <2>2
<1>3. QED  BY <1>1, <1>2, PTL DEF Spec

\* Every digest is of a later UTC day than the one before, whatever the tasks'
\* order, the restarts and the clock (is_due, read again under the lock by tick).
THEOREM DigestsAreOfDifferentDays == Spec => []OneDigestPerDay
<1>1. SummaryInv => OneDigestPerDay
  BY DEF SummaryInv, DigestsOK, OneDigestPerDay
<1>2. QED  BY <1>1, SummarySafe, PTL

\* While the clock goes forward, a transition before the marker is in exactly
\* one digest's roster (tick's window and the stamp both come from under the lock).
THEOREM TransitionsReported == Spec => []TransitionsAreReportedOnce
<1>1. SummaryInv => TransitionsAreReportedOnce
  <2> SUFFICES ASSUME SummaryInv, stepsBack = 0, marker # Never, NEW t \in transitions,
                      digests[1].start <= t[2], t[2] < marker
               PROVE  \E n \in Digests : \A m \in Digests : t \in digests[m].roster <=> m = n
    BY DEF TransitionsAreReportedOnce
  <2>1. TypeOK /\ WindowsOK /\ RostersOK
    BY DEF SummaryInv
  <2>2. t[2] \in Int /\ Digests = 1..Len(digests) /\ Len(digests) \in Nat
        /\ \A n \in Digests : digests[n].start \in Int /\ digests[n].end \in Int
    BY <2>1, Types
  <2>3. PICK n \in Digests : digests[n].start <= t[2] /\ t[2] < digests[n].end
    BY <2>1, <2>2 DEF WindowsOK
  <2>4. \A m \in Digests : t \in digests[m].roster <=>
                           (digests[m].start <= t[2] /\ t[2] < digests[m].end)
    BY <2>1 DEF RostersOK, Between
  <2>5. ASSUME NEW m \in Digests, digests[m].start <= t[2], t[2] < digests[m].end
        PROVE  m = n
    <3>1. ~(m < n) /\ ~(n < m)
      BY <2>1, <2>2, <2>3, <2>5 DEF WindowsOK
    <3>2. QED  BY <2>2, <3>1
  <2>6. QED  BY <2>3, <2>4, <2>5
<1>2. QED  BY <1>1, SummarySafe, PTL

\* While the clock goes forward, a digest misses at most one cycle's observation:
\* that of the cycle which had heard it and was waiting for the lock (tick).
THEOREM OneCycleVanishes == Spec => []OnlyTheCycleInFlightVanishes
<1>1. SummaryInv => OnlyTheCycleInFlightVanishes
  BY DEF SummaryInv, MissesOK, Missed, Between, OnlyTheCycleInFlightVanishes
<1>2. QED  BY <1>1, SummarySafe, PTL

-----------------------------------------------------------------------------
\* The label session: the inductive invariant.

Working == {"expire", "skip", "close", "advance", "move", "finish", "note"}
Reading == {"replay", "route", "current"}

DataOK ==
    /\ labels \in [Devices -> Labels]
    /\ sessions \in Seq(Session) /\ Len(sessions) <= MaxSessions
    /\ \A i \in DOMAIN sessions : Len(sessions[i].ids) <= NumDevices

QueueOK ==
    /\ inbox \in Seq(Lines) /\ Len(inbox) <= MaxBatch
    /\ acked \in Nat /\ acked + Len(inbox) <= MaxMessages
    /\ batch \in [fetched : Nat, handled : Nat]
    /\ batch.handled <= batch.fetched /\ batch.fetched <= Len(inbox)

SurfacesOK ==
    /\ task \in [Surfaces -> Task]
    /\ bound \in {0} \cup Devices /\ printed \in {0} \cup Devices

\* The session has dealt with the position: the device has a label, or the
\* operator gave it up; with every position before n.
DealtWith(i, p) == labels[DeviceAt(i, p)] # Unlabeled \/ <<i, p>> \in dismissed
Upto(i, n) == \A p \in 0..(Len(sessions[i].ids) - 1) : p < n => DealtWith(i, p)

\* What a handler may rely on although it read the session some steps ago: the
\* session is still there, and what lay before its cursor then stays dealt with.
\* An update being handled is the one after those confirmed or handled.
Knows(s, t) ==
    /\ t.pc \in Working => t.sid \in DOMAIN sessions
    /\ t.pc = "skip" => Upto(t.sid, t.cursor)
    /\ t.pc \in {"advance", "move"} => Upto(t.sid, t.next)
    /\ t.pc = "finish" => Upto(t.sid, NumDevices)
    /\ t.pc = "create" => Len(t.ids) <= NumDevices
    /\ t.pc \in Reading =>
          /\ t.line.kind # "replay"
          /\ t.line.kind \in {"label", "unlabel"} => t.line.meant \in Devices
    /\ t.pc = "down" => t.line.kind = "init"
    /\ t.pc = "direct" => t.line.kind \in {"label", "ignore", "unlabel"} /\ t.line.meant \in Devices
    /\ t.pc = "note" => t.id # 0
    /\ s = "cli" => t.id = 0 /\ t.pc # "direct"
    /\ s = "chat" =>
          /\ t.pc \notin {"idle", "down"} => batch.handled < batch.fetched
          /\ t.id = IF t.pc \in {"idle", "down", "reply"} THEN 0
                    ELSE acked + batch.handled + 1

SessionOK(i) ==
    /\ Upto(i, sessions[i].cursor)
    /\ sessions[i].status = "DONE" => Upto(i, NumDevices)

SessionInv ==
    /\ DataOK /\ QueueOK /\ SurfacesOK
    /\ \A s \in Surfaces : Knows(s, task[s])
    /\ \A i \in DOMAIN sessions : SessionOK(i)

-----------------------------------------------------------------------------
\* Snapshots and the least position.

\* The ranks of a set of devices are the numbers below its size.
LEMMA RanksAreReached ==
    ASSUME NEW S \in SUBSET Nat, IsFiniteSet(S), NEW n \in 1..Cardinality(S)
    PROVE  \E d \in S : Cardinality({e \in S : e < d}) = n - 1
<1> DEFINE C == Cardinality(S)
           before(d) == {e \in S : e < d}
           rank == [d \in S |-> Cardinality(before(d))]
<1>1. C \in Nat
  BY FS_CardinalityType
<1>2. ASSUME NEW d \in S
      PROVE  /\ before(d) \in SUBSET S /\ IsFiniteSet(before(d))
             /\ Cardinality(before(d)) \in 0..(C - 1)
  <2>1. before(d) \in SUBSET S /\ d \notin before(d)
    BY <1>2
  <2>2. IsFiniteSet(before(d)) /\ Cardinality(before(d)) <= C /\ Cardinality(before(d)) # C
    <3> HIDE DEF before
    <3> QED  BY <1>2, <2>1, FS_Subset
  <2>3. Cardinality(before(d)) \in Nat
    <3> HIDE DEF before
    <3> QED  BY <2>2, FS_CardinalityType
  <2>4. QED
    BY <1>1, <2>1, <2>2, <2>3
<1>3. rank \in [S -> 0..(C - 1)]
  BY <1>2
<1>4. ASSUME NEW d \in S, NEW e \in S, d < e
      PROVE  Cardinality(before(d)) # Cardinality(before(e))
  <2>1. before(d) \in SUBSET before(e) /\ before(d) # before(e)
    <3>1. d \in Nat /\ e \in Nat /\ \A x \in S : x \in Nat
      BY <1>4
    <3>2. \A x \in before(d) : x \in before(e)
      BY <1>4, <3>1
    <3>3. d \in before(e) /\ d \notin before(d)
      BY <1>4, <3>1
    <3>4. QED
      BY <3>2, <3>3
  <2>2. IsFiniteSet(before(e))
    BY <1>2
  <2> HIDE DEF before
  <2>3. QED
    BY <2>1, <2>2, FS_Subset
<1>5. rank \in Injection(S, 0..(C - 1))
  <2>1. \A d, e \in S : d # e => d < e \/ e < d
    OBVIOUS
  <2>2. \A d, e \in S : d # e => Cardinality(before(d)) # Cardinality(before(e))
    BY <2>1, <1>4
  <2>3. QED
    BY <1>3, <2>2 DEF Injection, IsInjective
<1>6. IsFiniteSet(0..(C - 1)) /\ Cardinality(0..(C - 1)) = C
  <2> HIDE DEF C
  <2>1. 0 \in Int /\ C - 1 \in Int
    BY <1>1
  <2>2. QED
    BY <1>1, <2>1, FS_Interval
<1>7. rank \in Surjection(S, 0..(C - 1))
  BY <1>5, <1>6, FS_Injection
<1>8. n - 1 \in 0..(C - 1)
  BY <1>1
<1>9. PICK d \in S : rank[d] = n - 1
  BY <1>7, <1>8 DEF Surjection
<1>10. QED
  BY <1>9

LEMMA LeastExists ==
    ASSUME NEW S \in SUBSET Nat, IsFiniteSet(S), S # {}
    PROVE  Least(S) \in S /\ \A m \in S : Least(S) <= m
<1>1. Cardinality(S) \in Nat /\ Cardinality(S) # 0
  BY FS_CardinalityType, FS_EmptySet
<1>2. 1 \in 1..Cardinality(S)
  BY <1>1
<1>3. PICK d \in S : Cardinality({e \in S : e < d}) = 1 - 1
  BY <1>2, RanksAreReached
<1>4. {e \in S : e < d} = {}
  <2>1. IsFiniteSet({e \in S : e < d})
    BY FS_Subset
  <2>2. QED
    BY <1>3, <2>1, FS_EmptySet
<1>5. \A m \in S : d <= m
  BY <1>4
<1>6. QED
  BY <1>5 DEF Least

LEMMA SnapshotOfDevices ==
    ASSUME NEW S \in SUBSET Devices
    PROVE  InIdOrder(S) \in Seq(Devices) /\ Len(InIdOrder(S)) <= NumDevices
<1>1. NumDevices \in Nat /\ IsFiniteSet(Devices) /\ Cardinality(Devices) = NumDevices
  BY InitAssumption, FS_Interval DEF Devices
<1>2. IsFiniteSet(S) /\ Cardinality(S) <= NumDevices
  BY <1>1, FS_Subset
<1>3. Cardinality(S) \in Nat /\ S \subseteq Nat
  BY <1>1, <1>2, FS_CardinalityType DEF Devices
<1>4. \A n \in 1..Cardinality(S) : InIdOrder(S)[n] \in S
  BY <1>2, <1>3, RanksAreReached DEF InIdOrder
<1>5. InIdOrder(S) \in [1..Cardinality(S) -> Devices]
  BY <1>4 DEF InIdOrder
<1>6. InIdOrder(S) \in Seq(Devices)
  BY <1>3, <1>5, SeqDef
<1>7. Len(InIdOrder(S)) = Cardinality(S)
  BY <1>3, <1>5, <1>6, LenProperties
<1>8. QED
  BY <1>2, <1>6, <1>7

\* Where _advance_to_next can stop.
LEMMA OpenPositions ==
    ASSUME DataOK, NEW i \in DOMAIN sessions, NEW from \in Nat, NEW names
    PROVE  /\ Open(i, from, names) \in SUBSET Nat /\ IsFiniteSet(Open(i, from, names))
           /\ Open(i, from, names) # {} =>
                 LET n == Least(Open(i, from, names))
                 IN  /\ n \in from..(Len(sessions[i].ids) - 1) /\ DeviceAt(i, n) \in Devices
                     /\ \A p \in 0..(Len(sessions[i].ids) - 1) :
                           from <= p /\ p < n => names[DeviceAt(i, p)] # Unlabeled
           /\ Open(i, from, names) = {} =>
                 \A p \in 0..(Len(sessions[i].ids) - 1) : from <= p => names[DeviceAt(i, p)] # Unlabeled
<1> DEFINE open == Open(i, from, names)
<1>1. sessions[i] \in Session
  BY LenProperties, ElementOfSeq DEF DataOK
<1>2. sessions[i].ids \in Seq(Devices)
  BY <1>1 DEF Session
<1>3. Len(sessions[i].ids) \in Nat /\ \A n \in 1..Len(sessions[i].ids) : sessions[i].ids[n] \in Devices
  BY <1>2, LenProperties, ElementOfSeq
<1>4. open \in SUBSET (from..(Len(sessions[i].ids) - 1))
  BY DEF Open
<1>5. IsFiniteSet(from..(Len(sessions[i].ids) - 1))
  BY <1>3, FS_Interval
<1>6. open \in SUBSET Nat /\ IsFiniteSet(open)
  BY <1>3, <1>4, <1>5, FS_Subset
<1>7. ASSUME open # {}
      PROVE  LET n == Least(open)
             IN  /\ n \in from..(Len(sessions[i].ids) - 1) /\ DeviceAt(i, n) \in Devices
                 /\ \A p \in 0..(Len(sessions[i].ids) - 1) :
                       from <= p /\ p < n => names[DeviceAt(i, p)] # Unlabeled
  <2>1. PICK n : n = Least(open)
    OBVIOUS
  <2>2. n \in open /\ \A m \in open : n <= m
    BY <1>6, <1>7, <2>1, LeastExists
  <2>3. n \in from..(Len(sessions[i].ids) - 1)
    BY <1>4, <2>2
  <2>4. DeviceAt(i, n) \in Devices
    BY <1>3, <2>3 DEF DeviceAt
  <2>5. ASSUME NEW p \in 0..(Len(sessions[i].ids) - 1), from <= p, p < n
        PROVE  names[DeviceAt(i, p)] # Unlabeled
    <3>1. p \notin open /\ p \in from..(Len(sessions[i].ids) - 1)
      BY <1>3, <2>2, <2>3, <2>5
    <3>2. QED
      BY <3>1 DEF Open
  <2>6. QED
    BY <2>1, <2>3, <2>4, <2>5
<1>8. ASSUME open = {}, NEW p \in 0..(Len(sessions[i].ids) - 1), from <= p
      PROVE  names[DeviceAt(i, p)] # Unlabeled
  <2>1. p \in from..(Len(sessions[i].ids) - 1)
    BY <1>3, <1>8
  <2>2. QED
    BY <1>8, <2>1 DEF Open
<1>9. QED
  BY <1>6, <1>7, <1>8

-----------------------------------------------------------------------------
\* Steps of a surface, and writes to the database.

\* Surface s goes on as r, the other one stays where it is.
Goes(s, r) ==
    /\ task' \in [Surfaces -> Task] /\ task'[s] = r
    /\ \A t \in Surfaces : t # s => task'[t] = task[t]

\* Sessions stay, with their snapshots, and what was dealt with is so for good.
Keeps ==
    /\ DOMAIN sessions \subseteq DOMAIN sessions'
    /\ \A i \in DOMAIN sessions : sessions'[i].ids = sessions[i].ids
    /\ \A i \in DOMAIN sessions : \A p \in 0..(Len(sessions[i].ids) - 1) :
          DealtWith(i, p) => DealtWith(i, p)'

LEMMA SessionFacts ==
    ASSUME DataOK, NEW i \in DOMAIN sessions
    PROVE  /\ i \in 1..Len(sessions) /\ i \in 1..MaxSessions /\ Len(sessions) \in Nat
           /\ DOMAIN sessions = 1..Len(sessions) /\ sessions[i] \in Session
           /\ sessions[i].status \in {"ACTIVE", "DONE", "CANCELLED", "EXPIRED"}
           /\ sessions[i].cursor \in 0..NumDevices /\ sessions[i].ids \in Seq(Devices)
           /\ sessions[i].last \in 0..MaxMessages /\ sessions[i].due \in BOOLEAN
           /\ Len(sessions[i].ids) \in 0..NumDevices
<1>1. Len(sessions) \in Nat /\ DOMAIN sessions = 1..Len(sessions) /\ sessions[i] \in Session
  BY LenProperties, ElementOfSeq DEF DataOK
<1>2. MaxSessions \in Nat /\ NumDevices \in Nat
  BY InitAssumption
<1>3. sessions[i].ids \in Seq(Devices)
  BY <1>1 DEF Session
<1>4. Len(sessions[i].ids) \in Nat
  BY <1>3, LenProperties
<1>5. QED
  BY <1>1, <1>2, <1>3, <1>4 DEF DataOK, Session

LEMMA PositionFacts ==
    ASSUME DataOK, NEW i \in DOMAIN sessions, NEW p \in Nat
    PROVE  /\ DeviceAt(i, p) \in {0} \cup Devices
           /\ p < Len(sessions[i].ids) => DeviceAt(i, p) \in Devices
           /\ DeviceAt(i, p) # 0 => p \in 0..(Len(sessions[i].ids) - 1) /\ DeviceAt(i, p) \in Devices
<1>1. sessions[i].ids \in Seq(Devices) /\ Len(sessions[i].ids) \in Nat
  BY SessionFacts
<1>2. \A n \in 1..Len(sessions[i].ids) : sessions[i].ids[n] \in Devices
  BY <1>1, ElementOfSeq
<1>3. QED
  BY <1>1, <1>2 DEF DeviceAt

LEMMA TaskStep ==
    ASSUME task \in [Surfaces -> Task], NEW s \in Surfaces, NEW r \in Task,
           task' = [task EXCEPT ![s] = r]
    PROVE  Goes(s, r)
BY DEF Goes

LEMMA GotoGoes ==
    ASSUME task \in [Surfaces -> Task], NEW s \in Surfaces, NEW pc,
           [task[s] EXCEPT !.pc = pc] \in Task, Goto(s, pc)
    PROVE  Goes(s, [task[s] EXCEPT !.pc = pc])
<1>1. task' = [task EXCEPT ![s] = [task[s] EXCEPT !.pc = pc]]
  BY DEF Goto
<1>2. QED
  BY <1>1, TaskStep

LEMMA RestingIsATask ==
    ASSUME NEW pc \in {"down", "idle", "reply", "list", "read"}
    PROVE  Resting(pc) \in Task
<1>1. NumDevices \in Nat /\ MaxMessages \in Nat /\ MaxSessions \in Nat
  BY InitAssumption
<1>2. << >> \in Seq(Devices)
  BY EmptySeq
<1>3. QED
  BY <1>1, <1>2 DEF Resting, Task, AllKinds

LEMMA AnswerGoes ==
    ASSUME task \in [Surfaces -> Task], NEW s \in Surfaces, NEW prompt \in 0..NumDevices,
           Answer(s, prompt)
    PROVE  \E r \in Task : Goes(s, r) /\ r.pc = "reply" /\ r.id = 0
<1>1. PICK r : r = [Resting("reply") EXCEPT !.prompt = IF s = "cli" THEN prompt ELSE 0]
  OBVIOUS
<1>2. Resting("reply") \in Task /\ NumDevices \in Nat
  BY RestingIsATask, InitAssumption
<1>3. r \in Task /\ r.pc = "reply" /\ r.id = 0
  BY <1>1, <1>2 DEF Task, Resting
<1>4. task' = [task EXCEPT ![s] = r]
  BY <1>1 DEF Answer
<1>5. QED
  BY <1>3, <1>4, TaskStep

LEMMA StartOverGoes ==
    ASSUME task \in [Surfaces -> Task], NEW s \in Surfaces, StartOver(s)
    PROVE  \E r \in Task : Goes(s, r) /\ r.pc = "list" /\ r.id = task[s].id
<1>1. PICK r : r = [Resting("list") EXCEPT !.id = task[s].id]
  OBVIOUS
<1>2. Resting("list") \in Task /\ task[s] \in Task
  BY RestingIsATask
<1>3. r \in Task /\ r.pc = "list" /\ r.id = task[s].id
  BY <1>1, <1>2 DEF Task, Resting
<1>4. task' = [task EXCEPT ![s] = r]
  BY <1>1 DEF StartOver
<1>5. QED
  BY <1>3, <1>4, TaskStep

LEMMA SeeGoes ==
    ASSUME DataOK, task \in [Surfaces -> Task], NEW s \in Surfaces, NEW i \in DOMAIN sessions,
           NEW pc \in {"advance", "skip", "close", "apply", "expire"}, See(s, i, pc)
    PROVE  \E r \in Task :
              /\ Goes(s, r)
              /\ r.pc = pc /\ r.sid = i /\ r.cursor = sessions[i].cursor /\ r.next = sessions[i].cursor
              /\ r.id = task[s].id /\ r.line = task[s].line /\ r.ids = task[s].ids
<1>1. PICK r : r = [task[s] EXCEPT !.pc = pc, !.sid = i, !.cursor = sessions[i].cursor,
                                   !.next = sessions[i].cursor]
  OBVIOUS
<1>2. task[s] \in Task /\ i \in 0..MaxSessions /\ sessions[i].cursor \in 0..NumDevices
  BY SessionFacts, InitAssumption
<1>3. /\ r \in Task
      /\ r.pc = pc /\ r.sid = i /\ r.cursor = sessions[i].cursor /\ r.next = sessions[i].cursor
      /\ r.id = task[s].id /\ r.line = task[s].line /\ r.ids = task[s].ids
  BY <1>1, <1>2 DEF Task
<1>4. task' = [task EXCEPT ![s] = r]
  BY <1>1 DEF See, Seen
<1>5. QED
  BY <1>3, <1>4, TaskStep

\* What a handler knows stays so while the other surface, the operator or the
\* clock changes the database.
LEMMA KnowledgeStays ==
    ASSUME DataOK, Keeps, NEW s \in Surfaces, NEW t \in Task, Knows(s, t),
           UNCHANGED <<acked, batch>>
    PROVE  Knows(s, t)'
<1>1. ASSUME NEW i \in DOMAIN sessions, NEW n, Upto(i, n)
      PROVE  Upto(i, n)'
  BY <1>1 DEF Keeps, Upto
<1>2. t.pc \in {"skip", "advance", "move", "finish"} => t.pc \in Working
  BY DEF Working
<1>3. t.pc \in Working => t.sid \in DOMAIN sessions /\ t.sid \in DOMAIN sessions'
  BY DEF Knows, Keeps
<1>4. /\ t.pc = "skip" => Upto(t.sid, t.cursor)'
      /\ t.pc \in {"advance", "move"} => Upto(t.sid, t.next)'
      /\ t.pc = "finish" => Upto(t.sid, NumDevices)'
  BY <1>1, <1>2, <1>3 DEF Knows
<1>5. QED
  BY <1>3, <1>4 DEF Knows

LEMMA NothingWritten ==
    ASSUME DataOK, \A i \in DOMAIN sessions : SessionOK(i),
           UNCHANGED <<database, dismissed>>
    PROVE  DataOK' /\ Keeps /\ (\A i \in DOMAIN sessions : SessionOK(i))'
<1>1. labels' = labels /\ sessions' = sessions /\ dismissed' = dismissed
  BY DEF database
<1>2. DataOK' /\ Keeps
  BY <1>1 DEF DataOK, Keeps, DealtWith, DeviceAt
<1>3. (\A i \in DOMAIN sessions : SessionOK(i))'
  BY <1>1 DEF SessionOK, Upto, DealtWith, DeviceAt
<1>4. QED
  BY <1>2, <1>3

\* One UPDATE of a session, which never touches its snapshot.
LEMMA SessionWritten ==
    ASSUME DataOK, \A j \in DOMAIN sessions : SessionOK(j), NEW i \in DOMAIN sessions,
           NEW e \in Session, e.ids = sessions[i].ids,
           sessions' = [sessions EXCEPT ![i] = e],
           labels' \in [Devices -> Labels],
           \A j \in DOMAIN sessions : \A p \in 0..(Len(sessions[j].ids) - 1) :
              DealtWith(j, p) =>
                 labels'[DeviceAt(j, p)] # Unlabeled \/ <<j, p>> \in dismissed'
    PROVE  /\ DataOK' /\ Keeps /\ DOMAIN sessions' = DOMAIN sessions /\ sessions'[i] = e
           /\ \A j \in DOMAIN sessions : j # i => sessions'[j] = sessions[j]
           /\ Upto(i, e.cursor)' /\ (e.status = "DONE" => Upto(i, NumDevices)') =>
                 (\A j \in DOMAIN sessions : SessionOK(j))'
<1>1. sessions \in Seq(Session) /\ i \in 1..Len(sessions) /\ DOMAIN sessions = 1..Len(sessions)
  BY SessionFacts DEF DataOK
<1>2. /\ sessions' \in Seq(Session) /\ Len(sessions') = Len(sessions)
      /\ \A j \in 1..Len(sessions) : sessions'[j] = IF j = i THEN e ELSE sessions[j]
  BY <1>1, ExceptSeq
<1>3. DOMAIN sessions' = 1..Len(sessions)
  BY <1>2, LenProperties
<1>4. \A j \in DOMAIN sessions : sessions'[j].ids = sessions[j].ids
  BY <1>1, <1>2
<1>5. DataOK'
  BY <1>1, <1>2, <1>3, <1>4 DEF DataOK
<1>6. \A j \in DOMAIN sessions : \A p \in 0..(Len(sessions[j].ids) - 1) :
          DealtWith(j, p) => DealtWith(j, p)'
  BY <1>4 DEF DealtWith, DeviceAt
<1>7. Keeps
  BY <1>1, <1>3, <1>4, <1>6 DEF Keeps
<1>8. ASSUME NEW j \in DOMAIN sessions, NEW n, Upto(j, n)
      PROVE  Upto(j, n)'
  BY <1>7, <1>8 DEF Keeps, Upto
<1>9. ASSUME NEW j \in DOMAIN sessions, j # i
      PROVE  SessionOK(j)'
  <2>1. sessions'[j] = sessions[j] /\ SessionOK(j)
    BY <1>1, <1>2, <1>9
  <2>2. QED
    BY <1>8, <2>1 DEF SessionOK
<1>10. Upto(i, e.cursor)' /\ (e.status = "DONE" => Upto(i, NumDevices)') => SessionOK(i)'
  BY <1>1, <1>2 DEF SessionOK
<1>11. QED
  BY <1>1, <1>2, <1>3, <1>5, <1>7, <1>9, <1>10

\* The step of surface s, put together.
LEMMA StepKeeps ==
    ASSUME SessionInv, NEW s \in Surfaces, NEW r \in Task, Goes(s, r), Knows(s, r)',
           DataOK', Keeps, (\A i \in DOMAIN sessions : SessionOK(i))', UNCHANGED telegram,
           bound' \in {0} \cup Devices, printed' \in {0} \cup Devices
    PROVE  SessionInv'
<1>1. UNCHANGED <<inbox, acked, batch>>
  BY DEF telegram
<1>2. QueueOK'
  BY <1>1 DEF SessionInv, QueueOK
<1>3. SurfacesOK'
  BY DEF SurfacesOK, Goes
<1>4. ASSUME NEW t \in Surfaces
      PROVE  Knows(t, task[t])'
  <2>1. CASE t = s
    BY <2>1 DEF Knows, Goes
  <2>2. CASE t # s
    <3>1. PICK q : q = task[t]
      OBVIOUS
    <3>2. q \in Task /\ Knows(t, q) /\ task'[t] = q
      BY <2>2, <3>1 DEF SessionInv, SurfacesOK, Goes
    <3>3. Knows(t, q)'
      BY <1>1, <3>2, KnowledgeStays DEF SessionInv
    <3>4. QED
      BY <3>2, <3>3 DEF Knows
  <2>3. QED
    BY <2>1, <2>2
<1>5. QED
  BY <1>2, <1>3, <1>4 DEF SessionInv

LEMMA ReadingStep ==
    ASSUME SessionInv, NEW s \in Surfaces, NEW r \in Task, Goes(s, r), Knows(s, r),
           UNCHANGED <<database, telegram, dismissed>>,
           bound' \in {0} \cup Devices, printed' \in {0} \cup Devices
    PROVE  SessionInv'
<1>1. DataOK /\ \A i \in DOMAIN sessions : SessionOK(i)
  BY DEF SessionInv
<1>2. DataOK' /\ Keeps /\ (\A i \in DOMAIN sessions : SessionOK(i))'
  BY <1>1, NothingWritten
<1>3. Knows(s, r)'
  BY <1>1, <1>2, KnowledgeStays DEF telegram
<1>4. QED
  BY <1>2, <1>3, StepKeeps

\* What s knows when it has just answered, read the session or begun anew.
LEMMA AnsweredKnows ==
    ASSUME SessionInv, NEW s \in Surfaces, NEW r \in Task, r.pc = "reply", r.id = 0,
           task[s].pc \notin {"idle", "down"}
    PROVE  Knows(s, r)
BY DEF SessionInv, Knows, Working, Reading

LEMMA SeenKnows ==
    ASSUME SessionInv, NEW s \in Surfaces, NEW r \in Task, NEW i \in DOMAIN sessions,
           task[s].pc \notin {"idle", "down", "reply"},
           r.pc \in {"advance", "skip", "close", "apply", "expire"},
           r.sid = i, r.cursor = sessions[i].cursor, r.next = sessions[i].cursor,
           r.id = task[s].id
    PROVE  Knows(s, r)
<1>1. Knows(s, task[s]) /\ SessionOK(i)
  BY DEF SessionInv
<1>2. Upto(i, r.cursor) /\ Upto(i, r.next)
  BY <1>1 DEF SessionOK
<1>3. QED
  BY <1>1, <1>2 DEF Knows, Working, Reading

LEMMA OverAgainKnows ==
    ASSUME SessionInv, NEW s \in Surfaces, NEW r \in Task, r.pc = "list", r.id = task[s].id,
           task[s].pc \notin {"idle", "down", "reply"}
    PROVE  Knows(s, r)
BY DEF SessionInv, Knows, Working, Reading

LEMMA AnswerKeeps ==
    ASSUME SessionInv, NEW s \in Surfaces, NEW prompt \in 0..NumDevices, Answer(s, prompt),
           task[s].pc \notin {"idle", "down"},
           DataOK', Keeps, (\A i \in DOMAIN sessions : SessionOK(i))',
           UNCHANGED telegram, UNCHANGED terminal
    PROVE  SessionInv'
<1>1. task \in [Surfaces -> Task] /\ DataOK
  BY DEF SessionInv, SurfacesOK
<1>2. PICK r \in Task : Goes(s, r) /\ r.pc = "reply" /\ r.id = 0
  BY <1>1, AnswerGoes
<1>3. Knows(s, r)
  BY <1>2, AnsweredKnows
<1>4. Knows(s, r)'
  BY <1>1, <1>3, KnowledgeStays DEF telegram
<1>5. bound' \in {0} \cup Devices /\ printed' \in {0} \cup Devices
  BY DEF terminal, SessionInv, SurfacesOK
<1>6. QED
  BY <1>2, <1>4, <1>5, StepKeeps

LEMMA StartOverKeeps ==
    ASSUME SessionInv, NEW s \in Surfaces, StartOver(s),
           task[s].pc \notin {"idle", "down", "reply"},
           DataOK', Keeps, (\A i \in DOMAIN sessions : SessionOK(i))',
           UNCHANGED telegram, UNCHANGED terminal
    PROVE  SessionInv'
<1>1. task \in [Surfaces -> Task] /\ DataOK
  BY DEF SessionInv, SurfacesOK
<1>2. PICK r \in Task : Goes(s, r) /\ r.pc = "list" /\ r.id = task[s].id
  BY <1>1, StartOverGoes
<1>3. Knows(s, r)
  BY <1>2, OverAgainKnows
<1>4. Knows(s, r)'
  BY <1>1, <1>3, KnowledgeStays DEF telegram
<1>5. bound' \in {0} \cup Devices /\ printed' \in {0} \cup Devices
  BY DEF terminal, SessionInv, SurfacesOK
<1>6. QED
  BY <1>2, <1>4, <1>5, StepKeeps

LEMMA SeeKeeps ==
    ASSUME SessionInv, NEW s \in Surfaces, NEW i \in DOMAIN sessions,
           NEW pc \in {"advance", "skip", "close", "apply", "expire"}, See(s, i, pc),
           task[s].pc \notin {"idle", "down", "reply"},
           UNCHANGED <<database, telegram, dismissed>>, UNCHANGED terminal
    PROVE  SessionInv'
<1>1. task \in [Surfaces -> Task] /\ DataOK
  BY DEF SessionInv, SurfacesOK
<1>2. PICK r \in Task :
        /\ Goes(s, r)
        /\ r.pc = pc /\ r.sid = i /\ r.cursor = sessions[i].cursor /\ r.next = sessions[i].cursor
        /\ r.id = task[s].id
  BY <1>1, SeeGoes
<1>3. Knows(s, r)
  BY <1>2, SeenKnows
<1>4. bound' \in {0} \cup Devices /\ printed' \in {0} \cup Devices
  BY DEF terminal, SessionInv, SurfacesOK
<1>5. QED
  BY <1>2, <1>3, <1>4, ReadingStep

\* A step within a handler that writes nothing: only the place changes.
LEMMA GotoKeeps ==
    ASSUME SessionInv, NEW s \in Surfaces, NEW pc, Goto(s, pc),
           [task[s] EXCEPT !.pc = pc] \in Task, Knows(s, [task[s] EXCEPT !.pc = pc]),
           UNCHANGED <<database, telegram, dismissed>>, UNCHANGED terminal
    PROVE  SessionInv'
<1>1. task \in [Surfaces -> Task]
  BY DEF SessionInv, SurfacesOK
<1>2. PICK r : r = [task[s] EXCEPT !.pc = pc]
  OBVIOUS
<1>3. r \in Task /\ Knows(s, r) /\ Goes(s, r)
  BY <1>1, <1>2, GotoGoes
<1>4. bound' \in {0} \cup Devices /\ printed' \in {0} \cup Devices
  BY DEF terminal, SessionInv, SurfacesOK
<1>5. QED
  BY <1>3, <1>4, ReadingStep

-----------------------------------------------------------------------------
\* The steps of a handler.

LEMMA TaskFacts ==
    ASSUME SessionInv, NEW s \in Surfaces
    PROVE  /\ DataOK /\ task \in [Surfaces -> Task] /\ task[s] \in Task /\ Knows(s, task[s])
           /\ \A i \in DOMAIN sessions : SessionOK(i)
           /\ task[s].cursor \in 0..NumDevices /\ task[s].next \in 0..NumDevices
           /\ task[s].id \in 0..MaxMessages /\ task[s].line.kind \in AllKinds \cup {"replay"}
           /\ task[s].line.meant \in 0..NumDevices /\ task[s].ids \in Seq(Devices)
           /\ NumDevices \in Nat \ {0} /\ MaxMessages \in Nat /\ MaxSessions \in Nat
BY InitAssumption DEF SessionInv, SurfacesOK, Task

LEMMA ReplayKeeps ==
    ASSUME SessionInv, NEW s \in Surfaces, Replay(s)
    PROVE  SessionInv'
<1>1. /\ task[s].pc = "replay"
      /\ UNCHANGED <<database, telegram, dismissed>> /\ UNCHANGED terminal
  BY DEF Replay, history
<1>2. task \in [Surfaces -> Task] /\ task[s] \in Task /\ DataOK /\ Knows(s, task[s])
  BY TaskFacts
<1>3. CASE \E i \in Active : task' = [Seen(s, i, IF Stale(i) THEN "expire" ELSE "advance")
                                         EXCEPT ![s].line.kind = "replay"]
  <2>1. PICK i \in DOMAIN sessions :
          task' = [Seen(s, i, IF Stale(i) THEN "expire" ELSE "advance")
                     EXCEPT ![s].line.kind = "replay"]
    BY <1>3 DEF Active
  <2>2. PICK pc \in {"expire", "advance"} : pc = IF Stale(i) THEN "expire" ELSE "advance"
    OBVIOUS
  <2>3. PICK r : r = [task[s] EXCEPT !.pc = pc, !.sid = i, !.cursor = sessions[i].cursor,
                                     !.next = sessions[i].cursor,
                                     !.line = [task[s].line EXCEPT !.kind = "replay"]]
    OBVIOUS
  <2>4. i \in 0..MaxSessions /\ sessions[i].cursor \in 0..NumDevices
    BY <1>2, SessionFacts, InitAssumption
  <2>5. /\ r \in Task
        /\ r.pc = pc /\ r.sid = i /\ r.cursor = sessions[i].cursor /\ r.next = sessions[i].cursor
        /\ r.id = task[s].id
    BY <1>2, <2>3, <2>4 DEF Task
  <2>6. task' = [task EXCEPT ![s] = r]
    BY <1>2, <2>1, <2>2, <2>3 DEF Seen, Task
  <2>7. Goes(s, r)
    BY <1>2, <2>5, <2>6, TaskStep
  <2>8. Knows(s, r)
    BY <1>1, <2>5, SeenKnows
  <2>9. bound' \in {0} \cup Devices /\ printed' \in {0} \cup Devices
    BY <1>1 DEF terminal, SessionInv, SurfacesOK
  <2>10. QED
    BY <1>1, <2>5, <2>7, <2>8, <2>9, ReadingStep
<1>4. CASE Goto(s, "route")
  <2>1. [task[s] EXCEPT !.pc = "route"] \in Task
    BY <1>2 DEF Task
  <2>2. Knows(s, [task[s] EXCEPT !.pc = "route"])
    BY <1>1, <1>2 DEF Knows, Working, Reading, Task
  <2>3. QED
    BY <1>1, <1>4, <2>1, <2>2, GotoKeeps
<1>5. QED
  BY <1>3, <1>4 DEF Replay

LEMMA RouteKeeps ==
    ASSUME SessionInv, NEW s \in Surfaces, Route(s)
    PROVE  SessionInv'
<1> DEFINE line == task[s].line
           byId == task[s].pc = "route" /\ line.kind = "ignore" /\ line.meant # 0
<1>1. /\ task[s].pc \in {"route", "current"}
      /\ UNCHANGED <<database, telegram, dismissed>> /\ UNCHANGED terminal
  BY DEF Route, history
<1>2. task \in [Surfaces -> Task] /\ task[s] \in Task /\ DataOK /\ Knows(s, task[s])
      /\ line.meant \in 0..NumDevices /\ NumDevices \in Nat
  BY TaskFacts
<1>3. DataOK' /\ Keeps /\ (\A i \in DOMAIN sessions : SessionOK(i))'
  BY <1>1, <1>2, TaskFacts, NothingWritten
<1>4. CASE \E prompt \in {0} : Answer(s, prompt)
  BY <1>1, <1>2, <1>3, <1>4, AnswerKeeps
<1>5. CASE StartOver(s)
  BY <1>1, <1>3, <1>5, StartOverKeeps
<1>6. CASE \E i \in Active, pc \in {"advance", "skip", "close", "apply", "expire"} : See(s, i, pc)
  BY <1>1, <1>6, SeeKeeps DEF Active
<1>7. CASE Goto(s, "current")
  <2>1. [task[s] EXCEPT !.pc = "current"] \in Task
    BY <1>2 DEF Task
  <2>2. Knows(s, [task[s] EXCEPT !.pc = "current"])
    BY <1>1, <1>2 DEF Knows, Working, Reading, Task
  <2>3. QED
    BY <1>1, <1>7, <2>1, <2>2, GotoKeeps
<1>8. CASE /\ s = "chat" /\ Goto(s, "direct")
           /\ line.kind \in {"label", "unlabel"} \/ byId
  <2>1. [task[s] EXCEPT !.pc = "direct"] \in Task
    BY <1>2 DEF Task
  <2>2. line.meant \in Devices /\ line.kind \in {"label", "ignore", "unlabel"}
    BY <1>1, <1>2, <1>8 DEF Knows, Reading, Devices
  <2>3. Knows(s, [task[s] EXCEPT !.pc = "direct"])
    BY <1>1, <1>2, <1>8, <2>2 DEF Knows, Working, Reading, Task, Devices
  <2>4. QED
    BY <1>1, <1>8, <2>1, <2>3, GotoKeeps
<1>9. QED
  BY <1>4, <1>5, <1>6, <1>7, <1>8
     DEF Route, Elsewhere, WithoutSession, ForSession

LEMMA DirectKeeps ==
    ASSUME SessionInv, NEW s \in Surfaces, Direct(s)
    PROVE  SessionInv'
<1> DEFINE line == task[s].line
           new == IF line.kind = "label" THEN <<s, line.meant>>
                  ELSE IF line.kind = "ignore" THEN Ignored ELSE Unlabeled
<1>1. /\ task[s].pc = "direct" /\ sessions' = sessions /\ Answer(s, 0)
      /\ UNCHANGED telegram /\ UNCHANGED terminal
      /\ labels' = [labels EXCEPT ![line.meant] = new]
      /\ dismissed' = IF new # Unlabeled THEN dismissed
                      ELSE dismissed \cup {x \in (DOMAIN sessions) \X (0..(NumDevices - 1)) :
                                              DeviceAt(x[1], x[2]) = line.meant}
  BY DEF Direct
<1>2. /\ DataOK /\ line.meant \in Devices /\ NumDevices \in Nat
      /\ \A i \in DOMAIN sessions : SessionOK(i)
  BY <1>1, TaskFacts DEF Knows
<1>3. new \in Labels
  BY <1>2 DEF Labels, Ignored, Unlabeled, Devices
<1> HIDE DEF new
<1>4. labels' \in [Devices -> Labels]
  BY <1>1, <1>2, <1>3 DEF DataOK
<1>5. DataOK'
  BY <1>1, <1>2, <1>4 DEF DataOK
<1>6. ASSUME NEW i \in DOMAIN sessions, NEW p \in 0..(Len(sessions[i].ids) - 1), DealtWith(i, p)
      PROVE  DealtWith(i, p)'
  <2>1. DeviceAt(i, p)' = DeviceAt(i, p)
    BY <1>1 DEF DeviceAt
  <2>2. Len(sessions[i].ids) \in 0..NumDevices
    BY <1>2, SessionFacts
  <2>3. p \in 0..(NumDevices - 1) /\ p \in Nat /\ p < Len(sessions[i].ids)
    BY <1>2, <2>2
  <2>4. CASE DeviceAt(i, p) # line.meant
    <3>1. labels'[DeviceAt(i, p)] = labels[DeviceAt(i, p)]
      BY <1>1, <1>2, <2>3, <2>4, PositionFacts DEF DataOK
    <3>2. dismissed \subseteq dismissed'
      BY <1>1
    <3>3. QED
      BY <1>6, <2>1, <3>1, <3>2 DEF DealtWith
  <2>5. CASE DeviceAt(i, p) = line.meant
    <3>1. CASE new # Unlabeled
      <4>1. labels'[line.meant] = new
        BY <1>1, <1>2 DEF DataOK
      <4>2. QED
        BY <2>1, <2>5, <3>1, <4>1 DEF DealtWith
    <3>2. CASE new = Unlabeled
      <4>1. <<i, p>> \in dismissed'
        BY <1>1, <2>3, <2>5, <3>2
      <4>2. QED
        BY <4>1 DEF DealtWith
    <3>3. QED
      BY <3>1, <3>2
  <2>6. QED
    BY <2>4, <2>5
<1>7. Keeps
  BY <1>1, <1>6 DEF Keeps
<1>8. ASSUME NEW i \in DOMAIN sessions, NEW n, Upto(i, n)
      PROVE  Upto(i, n)'
  BY <1>7, <1>8 DEF Keeps, Upto
<1>9. (\A i \in DOMAIN sessions : SessionOK(i))'
  BY <1>1, <1>2, <1>8 DEF SessionOK
<1>10. QED
  BY <1>1, <1>2, <1>5, <1>7, <1>9, AnswerKeeps

\* A handler's UPDATE of the session it read, with what it dealt with.
LEMMA UpdateKeeps ==
    ASSUME SessionInv, NEW s \in Surfaces, NEW r \in Task, Goes(s, r), Knows(s, r),
           NEW i \in DOMAIN sessions, NEW e \in Session, e.ids = sessions[i].ids,
           sessions' = [sessions EXCEPT ![i] = e], labels' = labels,
           dismissed \subseteq dismissed',
           Upto(i, e.cursor)', e.status = "DONE" => Upto(i, NumDevices)',
           UNCHANGED telegram, UNCHANGED terminal
    PROVE  SessionInv'
<1>1. DataOK /\ (\A j \in DOMAIN sessions : SessionOK(j)) /\ labels' \in [Devices -> Labels]
  BY DEF SessionInv, DataOK
<1>2. \A j \in DOMAIN sessions : \A p \in 0..(Len(sessions[j].ids) - 1) :
         DealtWith(j, p) => labels'[DeviceAt(j, p)] # Unlabeled \/ <<j, p>> \in dismissed'
  BY DEF DealtWith
<1>3. DataOK' /\ Keeps /\ (\A j \in DOMAIN sessions : SessionOK(j))'
  BY <1>1, <1>2, SessionWritten
<1>4. Knows(s, r)'
  BY <1>1, <1>3, KnowledgeStays DEF telegram
<1>5. bound' \in {0} \cup Devices /\ printed' \in {0} \cup Devices
  BY DEF terminal, SessionInv, SurfacesOK
<1>6. QED
  BY <1>3, <1>4, <1>5, StepKeeps

\* What was dealt with before the step is so after it.
LEMMA UptoStays ==
    ASSUME DataOK, NEW i \in DOMAIN sessions, NEW n, Upto(i, n),
           NEW e, e.ids = sessions[i].ids, sessions' = [sessions EXCEPT ![i] = e],
           labels' = labels, dismissed \subseteq dismissed'
    PROVE  Upto(i, n)'
<1>1. sessions'[i].ids = sessions[i].ids
  BY SessionFacts
<1>2. QED
  BY <1>1 DEF Upto, DealtWith, DeviceAt

LEMMA ExpireKeeps ==
    ASSUME SessionInv, NEW s \in Surfaces, Expire(s)
    PROVE  SessionInv'
<1>1. PICK i : i = task[s].sid
  OBVIOUS
<1>2. /\ task[s].pc = "expire" /\ task[s].sid = i
      /\ sessions' = [sessions EXCEPT ![i].status = "EXPIRED"]
      /\ labels' = labels /\ dismissed' = dismissed
      /\ UNCHANGED telegram /\ UNCHANGED terminal
      /\ StartOver(s) \/ Answer(s, 0)
  BY <1>1 DEF Expire, history
<1>3. DataOK /\ i \in DOMAIN sessions /\ (\A j \in DOMAIN sessions : SessionOK(j))
      /\ NumDevices \in Nat
  BY <1>2, TaskFacts DEF Knows, Working
<1>4. PICK e : e = [sessions[i] EXCEPT !.status = "EXPIRED"]
  OBVIOUS
<1>5. /\ e \in Session /\ e.ids = sessions[i].ids /\ e.cursor = sessions[i].cursor
      /\ e.status = "EXPIRED" /\ sessions' = [sessions EXCEPT ![i] = e]
  <2>1. sessions[i] \in Session
    BY <1>3, SessionFacts
  <2>2. e \in Session /\ e.ids = sessions[i].ids /\ e.cursor = sessions[i].cursor
        /\ e.status = "EXPIRED"
    BY <1>4, <2>1 DEF Session
  <2>3. QED
    BY <1>2, <1>4, <2>2
<1>6. Upto(i, e.cursor)'
  BY <1>2, <1>3, <1>5, UptoStays DEF SessionOK
<1>7. \A j \in DOMAIN sessions : \A p \in 0..(Len(sessions[j].ids) - 1) :
         DealtWith(j, p) => labels'[DeviceAt(j, p)] # Unlabeled \/ <<j, p>> \in dismissed'
  BY <1>2 DEF DealtWith
<1>8. labels' \in [Devices -> Labels]
  BY <1>2, <1>3 DEF DataOK
<1>9. DataOK' /\ Keeps /\ (\A j \in DOMAIN sessions : SessionOK(j))'
  BY <1>3, <1>5, <1>6, <1>7, <1>8, SessionWritten
<1>10. CASE StartOver(s)
  BY <1>2, <1>9, <1>10, StartOverKeeps
<1>11. CASE Answer(s, 0)
  BY <1>2, <1>3, <1>9, <1>11, AnswerKeeps
<1>12. QED
  BY <1>2, <1>10, <1>11

LEMMA ListKeeps ==
    ASSUME SessionInv, NEW s \in Surfaces, List(s)
    PROVE  SessionInv'
<1>1. /\ task[s].pc = "list"
      /\ UNCHANGED <<database, telegram, dismissed>> /\ UNCHANGED terminal
  BY DEF List, history
<1>2. task \in [Surfaces -> Task] /\ task[s] \in Task /\ Knows(s, task[s]) /\ NumDevices \in Nat
  BY TaskFacts
<1>3. DataOK' /\ Keeps /\ (\A i \in DOMAIN sessions : SessionOK(i))'
  BY <1>1, TaskFacts, NothingWritten
<1>4. CASE Answer(s, 0)
  BY <1>1, <1>2, <1>3, <1>4, AnswerKeeps
<1>5. ASSUME NEW present \in SUBSET Devices,
             task' = [task EXCEPT ![s].pc = "create", ![s].ids = InIdOrder(present)]
      PROVE  SessionInv'
  <2>1. PICK q : q = InIdOrder(present)
    OBVIOUS
  <2>2. q \in Seq(Devices) /\ Len(q) <= NumDevices
    BY <2>1, SnapshotOfDevices
  <2>3. PICK r : r = [task[s] EXCEPT !.pc = "create", !.ids = q]
    OBVIOUS
  <2>4. r \in Task /\ r.pc = "create" /\ r.ids = q /\ r.id = task[s].id
    BY <1>2, <2>2, <2>3 DEF Task
  <2>5. task' = [task EXCEPT ![s] = r]
    BY <1>2, <1>5, <2>1, <2>3 DEF Task
  <2>6. Goes(s, r)
    BY <1>2, <2>4, <2>5, TaskStep
  <2>7. Knows(s, r)
    BY <1>1, <1>2, <2>2, <2>4 DEF Knows, Working, Reading
  <2>8. bound' \in {0} \cup Devices /\ printed' \in {0} \cup Devices
    BY <1>1 DEF terminal, SessionInv, SurfacesOK
  <2>9. QED
    BY <1>1, <2>4, <2>6, <2>7, <2>8, ReadingStep
<1>6. PICK present \in SUBSET {d \in Devices : labels[d] = Unlabeled} :
        IF present = {} THEN Answer(s, 0)
        ELSE task' = [task EXCEPT ![s].pc = "create", ![s].ids = InIdOrder(present)]
  BY DEF List
<1>7. QED
  BY <1>4, <1>5, <1>6

LEMMA CreateKeeps ==
    ASSUME SessionInv, NEW s \in Surfaces, Create(s)
    PROVE  SessionInv'
<1>1. /\ task[s].pc = "create" /\ labels' = labels /\ dismissed' = dismissed
      /\ UNCHANGED telegram /\ UNCHANGED terminal
  BY DEF Create, history
<1>2. /\ task \in [Surfaces -> Task] /\ task[s] \in Task /\ Knows(s, task[s]) /\ DataOK
      /\ NumDevices \in Nat /\ MaxMessages \in Nat /\ MaxSessions \in Nat
      /\ task[s].ids \in Seq(Devices) /\ Len(task[s].ids) <= NumDevices
  BY <1>1, TaskFacts DEF Knows
<1>3. bound' \in {0} \cup Devices /\ printed' \in {0} \cup Devices
  BY <1>1 DEF terminal, SessionInv, SurfacesOK
<1>4. ASSUME sessions' = sessions
      PROVE  DataOK' /\ Keeps /\ (\A i \in DOMAIN sessions : SessionOK(i))'
  BY <1>1, <1>4, TaskFacts, NothingWritten DEF database
<1>5. CASE /\ Len(sessions) < MaxSessions
           /\ sessions' = Append(sessions, [status |-> "ACTIVE", cursor |-> 0,
                                            ids |-> task[s].ids, last |-> 0, due |-> FALSE])
           /\ task' = [task EXCEPT ![s].pc = "advance", ![s].sid = Len(sessions) + 1,
                                   ![s].cursor = 0, ![s].next = 0, ![s].ids = << >>]
  <2>1. PICK e, r, n :
          /\ e = [status |-> "ACTIVE", cursor |-> 0, ids |-> task[s].ids, last |-> 0, due |-> FALSE]
          /\ n = Len(sessions) + 1
          /\ r = [task[s] EXCEPT !.pc = "advance", !.sid = n, !.cursor = 0, !.next = 0, !.ids = << >>]
    OBVIOUS
  <2>2. Len(sessions) \in Nat /\ DOMAIN sessions = 1..Len(sessions) /\ sessions \in Seq(Session)
    BY <1>2, LenProperties DEF DataOK
  <2>3. e \in Session
    BY <1>2, <2>1 DEF Session
  <2>4. n \in 0..MaxSessions /\ n \notin DOMAIN sessions
    BY <1>2, <1>5, <2>1, <2>2
  <2>5. << >> \in Seq(Devices)
    BY EmptySeq
  <2>6. /\ r \in Task /\ r.pc = "advance" /\ r.sid = n /\ r.next = 0 /\ r.id = task[s].id
        /\ r.line = task[s].line
    <3>1. r = [task[s] EXCEPT !.pc = "advance", !.sid = n, !.cursor = 0, !.next = 0, !.ids = << >>]
      BY <2>1
    <3>2. task[s] \in Task /\ 0 \in 0..NumDevices
      BY <1>2
    <3>3. r \in Task
      BY <2>4, <2>5, <3>1, <3>2 DEF Task
    <3>4. QED
      BY <3>1, <3>2, <3>3 DEF Task
  <2>7. task' = [task EXCEPT ![s] = r]
    BY <1>2, <1>5, <2>1 DEF Task
  <2>8. Goes(s, r)
    BY <1>2, <2>6, <2>7, TaskStep
  <2>9. /\ sessions' \in Seq(Session) /\ Len(sessions') = n
        /\ \A i \in 1..Len(sessions) : sessions'[i] = sessions[i]
        /\ sessions'[n] = e
    BY <1>5, <2>1, <2>2, <2>3, AppendProperties
  <2>10. DOMAIN sessions' = 1..n
    BY <2>9, LenProperties
  <2>11. DOMAIN sessions' = DOMAIN sessions \cup {n}
    BY <2>1, <2>2, <2>10
  <2>12. DataOK'
    <3>1. \A i \in DOMAIN sessions' : Len(sessions'[i].ids) <= NumDevices
      BY <1>2, <2>1, <2>2, <2>9, <2>11 DEF DataOK
    <3>2. QED
      BY <1>1, <1>2, <2>4, <2>9, <3>1 DEF DataOK
  <2>13. Keeps
    BY <1>1, <2>2, <2>9, <2>11 DEF Keeps, DealtWith, DeviceAt
  <2>14. ASSUME NEW i \in DOMAIN sessions
         PROVE  SessionOK(i)'
    <3>1. SessionOK(i) /\ sessions'[i] = sessions[i]
      BY <2>2, <2>9, TaskFacts
    <3>2. QED
      BY <2>13, <3>1 DEF SessionOK, Upto, Keeps
  <2>15. Upto(n, 0)'
    BY <2>9 DEF Upto
  <2>16. SessionOK(n)'
    BY <2>1, <2>9, <2>15 DEF SessionOK
  <2>17. (\A i \in DOMAIN sessions : SessionOK(i))'
    BY <2>11, <2>14, <2>16
  <2>18. Knows(s, r)'
    BY <1>1, <1>2, <2>6, <2>11, <2>15 DEF Knows, Working, Reading, telegram
  <2>19. QED
    BY <1>1, <1>3, <2>6, <2>8, <2>12, <2>13, <2>17, <2>18, StepKeeps
<1>6. CASE /\ task' = [task EXCEPT ![s].pc = "existing", ![s].ids = << >>]
           /\ UNCHANGED sessions
  <2>1. PICK r : r = [task[s] EXCEPT !.pc = "existing", !.ids = << >>]
    OBVIOUS
  <2>2. << >> \in Seq(Devices)
    BY EmptySeq
  <2>3. r \in Task /\ r.pc = "existing" /\ r.id = task[s].id
    BY <1>2, <2>1, <2>2 DEF Task
  <2>4. task' = [task EXCEPT ![s] = r]
    BY <1>2, <1>6, <2>1 DEF Task
  <2>5. Goes(s, r)
    BY <1>2, <2>3, <2>4, TaskStep
  <2>6. Knows(s, r)
    BY <1>1, <1>2, <2>3 DEF Knows, Working, Reading
  <2>7. QED
    BY <1>1, <1>3, <1>6, <2>3, <2>5, <2>6, ReadingStep DEF database
<1>7. CASE Answer(s, 0) /\ UNCHANGED sessions
  BY <1>1, <1>2, <1>4, <1>7, AnswerKeeps
<1>8. QED
  BY <1>5, <1>6, <1>7 DEF Create

LEMMA CliEndKeeps ==
    ASSUME SessionInv, CliEnd, UNCHANGED <<database, telegram, dismissed>>
    PROVE  SessionInv'
<1>1. task \in [Surfaces -> Task] /\ "cli" \in Surfaces
  BY TaskFacts DEF Surfaces
<1>2. PICK r : r = Resting("down")
  OBVIOUS
<1>3. r \in Task /\ r.pc = "down" /\ r.id = 0 /\ r.line.kind = "init"
  BY <1>2, RestingIsATask DEF Resting
<1>4. Goes("cli", r)
  BY <1>1, <1>2, <1>3, TaskStep DEF CliEnd
<1>5. Knows("cli", r)
  BY <1>3 DEF Knows, Working, Reading
<1>6. bound' \in {0} \cup Devices /\ printed' \in {0} \cup Devices
  BY DEF CliEnd
<1>7. QED
  BY <1>1, <1>3, <1>4, <1>5, <1>6, ReadingStep

LEMMA ExistingKeeps ==
    ASSUME SessionInv, NEW s \in Surfaces, Existing(s)
    PROVE  SessionInv'
<1>1. task[s].pc = "existing" /\ UNCHANGED <<database, telegram, dismissed>>
  BY DEF Existing, history
<1>2. DataOK' /\ Keeps /\ (\A i \in DOMAIN sessions : SessionOK(i))' /\ NumDevices \in Nat
  BY <1>1, TaskFacts, NothingWritten
<1>3. CASE \E i \in Active : See(s, i, "advance") /\ UNCHANGED terminal
  BY <1>1, <1>3, SeeKeeps DEF Active
<1>4. CASE Answer(s, 0) /\ UNCHANGED terminal
  BY <1>1, <1>2, <1>4, AnswerKeeps
<1>5. CASE CliEnd
  BY <1>1, <1>5, CliEndKeeps
<1>6. QED
  BY <1>3, <1>4, <1>5 DEF Existing

LEMMA SkipKeeps ==
    ASSUME SessionInv, NEW s \in Surfaces, Skip(s)
    PROVE  SessionInv'
<1>1. PICK i, position, to :
        i = task[s].sid /\ position = task[s].cursor /\ to = Following(position)
  OBVIOUS
<1>2. /\ task[s].pc = "skip" /\ labels' = labels
      /\ sessions' = [sessions EXCEPT ![i].cursor = to, ![i].last = Remembered(s, i)]
      /\ task' = [task EXCEPT ![s].pc = "advance", ![s].cursor = to, ![s].next = to]
      /\ dismissed' = dismissed \cup {<<i, position>>}
      /\ UNCHANGED telegram /\ UNCHANGED terminal
  BY <1>1 DEF Skip
<1>3. /\ task \in [Surfaces -> Task] /\ task[s] \in Task /\ Knows(s, task[s]) /\ DataOK
      /\ i \in DOMAIN sessions /\ Upto(i, position) /\ position \in 0..NumDevices
      /\ NumDevices \in Nat /\ \A j \in DOMAIN sessions : SessionOK(j)
  BY <1>1, <1>2, TaskFacts DEF Knows, Working
<1>4. to \in 0..NumDevices /\ to <= position + 1
  BY <1>1, <1>3 DEF Following
<1>5. PICK e : e = [sessions[i] EXCEPT !.cursor = to, !.last = Remembered(s, i)]
  OBVIOUS
<1>6. Remembered(s, i) \in 0..MaxMessages
  BY <1>3, SessionFacts, TaskFacts DEF Remembered
<1>7. /\ e \in Session /\ e.ids = sessions[i].ids /\ e.cursor = to /\ e.status = sessions[i].status
      /\ sessions' = [sessions EXCEPT ![i] = e]
  BY <1>2, <1>3, <1>4, <1>5, <1>6, SessionFacts DEF Session
<1>8. Upto(i, to)'
  <2>1. Upto(i, position)'
    BY <1>2, <1>3, <1>7, UptoStays
  <2>2. sessions'[i].ids = sessions[i].ids /\ Len(sessions[i].ids) \in Nat
    BY <1>3, <1>7, SessionFacts
  <2>3. \A p \in 0..(Len(sessions[i].ids) - 1) : p < to => p < position \/ p = position
    BY <1>3, <1>4, <2>2
  <2>4. DealtWith(i, position)'
    BY <1>2 DEF DealtWith
  <2>5. QED
    BY <2>1, <2>2, <2>3, <2>4 DEF Upto
<1>9. e.status = "DONE" => Upto(i, NumDevices)'
  BY <1>2, <1>3, <1>7, UptoStays DEF SessionOK
<1>10. PICK r : r = [task[s] EXCEPT !.pc = "advance", !.cursor = to, !.next = to]
  OBVIOUS
<1>11. /\ r \in Task /\ r.pc = "advance" /\ r.sid = i /\ r.next = to /\ r.id = task[s].id
       /\ r.line = task[s].line
  BY <1>1, <1>3, <1>4, <1>10 DEF Task
<1>12. task' = [task EXCEPT ![s] = r]
  BY <1>2, <1>3, <1>10 DEF Task
<1>13. Goes(s, r)
  BY <1>3, <1>11, <1>12, TaskStep
<1>14. \A j \in DOMAIN sessions : \A p \in 0..(Len(sessions[j].ids) - 1) :
          DealtWith(j, p) => labels'[DeviceAt(j, p)] # Unlabeled \/ <<j, p>> \in dismissed'
  BY <1>2 DEF DealtWith
<1>15. labels' \in [Devices -> Labels]
  BY <1>2, <1>3 DEF DataOK
<1>16. /\ DataOK' /\ Keeps /\ DOMAIN sessions' = DOMAIN sessions
       /\ (\A j \in DOMAIN sessions : SessionOK(j))'
  BY <1>3, <1>7, <1>8, <1>9, <1>14, <1>15, SessionWritten
<1>17. Knows(s, r)'
  BY <1>2, <1>3, <1>8, <1>11, <1>16 DEF Knows, Working, Reading, telegram
<1>18. bound' \in {0} \cup Devices /\ printed' \in {0} \cup Devices
  BY <1>2 DEF terminal, SessionInv, SurfacesOK
<1>19. QED
  BY <1>2, <1>11, <1>13, <1>16, <1>17, <1>18, StepKeeps

LEMMA CloseKeeps ==
    ASSUME SessionInv, NEW s \in Surfaces, Close(s)
    PROVE  SessionInv'
<1>1. PICK i, status :
        i = task[s].sid /\ status = IF task[s].line.kind = "done" THEN "DONE" ELSE "CANCELLED"
  OBVIOUS
<1>2. /\ task[s].pc = "close" /\ labels' = labels
      /\ sessions' = [sessions EXCEPT ![i].status = status, ![i].last = Remembered(s, i)]
      /\ dismissed' = dismissed \cup ({i} \X (0..(NumDevices - 1)))
      /\ Answer(s, 0)
      /\ UNCHANGED telegram /\ UNCHANGED terminal
  BY <1>1 DEF Close
<1>3. /\ DataOK /\ i \in DOMAIN sessions /\ NumDevices \in Nat
      /\ \A j \in DOMAIN sessions : SessionOK(j)
  BY <1>1, <1>2, TaskFacts DEF Knows, Working
<1>4. PICK e : e = [sessions[i] EXCEPT !.status = status, !.last = Remembered(s, i)]
  OBVIOUS
<1>5. Remembered(s, i) \in 0..MaxMessages /\ status \in {"DONE", "CANCELLED"}
  BY <1>1, <1>3, SessionFacts, TaskFacts DEF Remembered
<1>6. /\ e \in Session /\ e.ids = sessions[i].ids /\ e.cursor = sessions[i].cursor
      /\ sessions' = [sessions EXCEPT ![i] = e]
  BY <1>2, <1>3, <1>4, <1>5, SessionFacts DEF Session
<1>7. Upto(i, e.cursor)'
  BY <1>2, <1>3, <1>6, UptoStays DEF SessionOK
<1>8. Upto(i, NumDevices)'
  <2>1. sessions'[i].ids = sessions[i].ids /\ Len(sessions[i].ids) \in 0..NumDevices
    BY <1>3, <1>6, SessionFacts
  <2>2. \A p \in 0..(Len(sessions[i].ids) - 1) : <<i, p>> \in dismissed'
    BY <1>2, <1>3, <2>1
  <2>3. QED
    BY <2>1, <2>2 DEF Upto, DealtWith
<1>9. \A j \in DOMAIN sessions : \A p \in 0..(Len(sessions[j].ids) - 1) :
         DealtWith(j, p) => labels'[DeviceAt(j, p)] # Unlabeled \/ <<j, p>> \in dismissed'
  BY <1>2 DEF DealtWith
<1>10. labels' \in [Devices -> Labels]
  BY <1>2, <1>3 DEF DataOK
<1>11. DataOK' /\ Keeps /\ (\A j \in DOMAIN sessions : SessionOK(j))'
  BY <1>3, <1>6, <1>7, <1>8, <1>9, <1>10, SessionWritten
<1>12. QED
  BY <1>2, <1>3, <1>11, AnswerKeeps

\* _advance_to_next within _apply_current leaves no position behind.
LEMMA AdvancedKeeps ==
    ASSUME SessionInv, NEW s \in Surfaces, task[s].pc = "apply",
           NEW i \in DOMAIN sessions, NEW from \in 0..NumDevices, NEW last \in 0..MaxMessages,
           labels' \in [Devices -> Labels],
           NEW to, to = Advanced(i, from, labels'),
           sessions' = [sessions EXCEPT ![i].status = to.status, ![i].cursor = to.cursor,
                                        ![i].last = last],
           Answer(s, to.prompt), dismissed' = dismissed,
           \A p \in 0..(Len(sessions[i].ids) - 1) :
              p < from => labels'[DeviceAt(i, p)] # Unlabeled \/ <<i, p>> \in dismissed,
           \A j \in DOMAIN sessions : \A p \in 0..(Len(sessions[j].ids) - 1) :
              DealtWith(j, p) => labels'[DeviceAt(j, p)] # Unlabeled \/ <<j, p>> \in dismissed,
           UNCHANGED telegram, UNCHANGED terminal
    PROVE  SessionInv'
<1>0. PICK names, open : names = labels' /\ open = Open(i, from, names)
  OBVIOUS
<1>1. /\ DataOK /\ NumDevices \in Nat /\ from \in Nat
      /\ \A j \in DOMAIN sessions : SessionOK(j)
  BY TaskFacts
<1>2. Len(sessions[i].ids) \in 0..NumDevices
  BY <1>1, SessionFacts
<1>3. /\ to.status \in {"ACTIVE", "DONE"} /\ to.cursor \in 0..NumDevices /\ to.prompt \in 0..NumDevices
      /\ \A p \in 0..(Len(sessions[i].ids) - 1) :
            p < to.cursor \/ to.status = "DONE" =>
               names[DeviceAt(i, p)] # Unlabeled \/ <<i, p>> \in dismissed
  <2>1. CASE open = {}
    <3>1. to = [status |-> "DONE", cursor |-> from, prompt |-> 0]
      BY <1>0, <2>1 DEF Advanced
    <3>2. \A p \in 0..(Len(sessions[i].ids) - 1) : from <= p => names[DeviceAt(i, p)] # Unlabeled
      BY <1>0, <1>1, <2>1, OpenPositions
    <3>3. \A p \in 0..(Len(sessions[i].ids) - 1) : from <= p \/ p < from
      BY <1>1, <1>2
    <3>4. QED
      BY <1>0, <1>1, <3>1, <3>2, <3>3
  <2>2. CASE open # {}
    <3>1. PICK n : n = Least(open)
      OBVIOUS
    <3>2. to = [status |-> "ACTIVE", cursor |-> n, prompt |-> DeviceAt(i, n)]
      BY <1>0, <2>2, <3>1 DEF Advanced
    <3>3. /\ n \in from..(Len(sessions[i].ids) - 1) /\ DeviceAt(i, n) \in Devices
          /\ \A p \in 0..(Len(sessions[i].ids) - 1) :
                from <= p /\ p < n => names[DeviceAt(i, p)] # Unlabeled
      BY <1>0, <1>1, <2>2, <3>1, OpenPositions
    <3>4. n \in 0..NumDevices /\ DeviceAt(i, n) \in 0..NumDevices
      BY <1>1, <1>2, <3>3 DEF Devices
    <3>5. \A p \in 0..(Len(sessions[i].ids) - 1) : from <= p \/ p < from
      BY <1>1, <1>2
    <3>6. QED
      BY <1>0, <3>2, <3>3, <3>4, <3>5
  <2>3. QED
    BY <2>1, <2>2
<1>4. PICK e : e = [sessions[i] EXCEPT !.status = to.status, !.cursor = to.cursor, !.last = last]
  OBVIOUS
<1>5. /\ e \in Session /\ e.ids = sessions[i].ids /\ e.cursor = to.cursor /\ e.status = to.status
      /\ sessions' = [sessions EXCEPT ![i] = e]
  BY <1>1, <1>3, <1>4, SessionFacts DEF Session
<1>6. sessions'[i].ids = sessions[i].ids
  BY <1>5
<1>7. /\ Upto(i, e.cursor)'
      /\ e.status = "DONE" => Upto(i, NumDevices)'
  BY <1>0, <1>3, <1>5, <1>6 DEF Upto, DealtWith, DeviceAt
<1>8. \A j \in DOMAIN sessions : \A p \in 0..(Len(sessions[j].ids) - 1) :
         DealtWith(j, p) => labels'[DeviceAt(j, p)] # Unlabeled \/ <<j, p>> \in dismissed'
  OBVIOUS
<1>9. labels' \in [Devices -> Labels]
  OBVIOUS
<1>10. DataOK' /\ Keeps /\ (\A j \in DOMAIN sessions : SessionOK(j))'
  <2>1. /\ DataOK' /\ Keeps
        /\ Upto(i, e.cursor)' /\ (e.status = "DONE" => Upto(i, NumDevices)') =>
              (\A j \in DOMAIN sessions : SessionOK(j))'
    BY <1>1, <1>5, <1>8, <1>9, SessionWritten
  <2>2. QED
    BY <1>7, <2>1
<1>11. QED
  BY <1>3, <1>10, AnswerKeeps

LEMMA ApplyKeeps ==
    ASSUME SessionInv, NEW s \in Surfaces, Apply(s)
    PROVE  SessionInv'
<1>1. /\ task[s].pc = "apply" /\ dismissed' = dismissed
      /\ UNCHANGED telegram /\ UNCHANGED terminal
  BY DEF Apply
<1>2. /\ DataOK /\ NumDevices \in Nat /\ labels \in [Devices -> Labels]
      /\ \A j \in DOMAIN sessions : SessionOK(j)
  BY TaskFacts DEF DataOK
<1>3. CASE Answer(s, 0) /\ UNCHANGED database
  <2>1. DataOK' /\ Keeps /\ (\A i \in DOMAIN sessions : SessionOK(i))'
    BY <1>1, <1>2, <1>3, NothingWritten
  <2>2. QED
    BY <1>1, <1>2, <1>3, <2>1, AnswerKeeps
<1>4. ASSUME NEW i \in DOMAIN sessions, sessions' = [sessions EXCEPT ![i].status = "EXPIRED"],
             Answer(s, 0), labels' = labels
      PROVE  SessionInv'
  <2>1. PICK e : e = [sessions[i] EXCEPT !.status = "EXPIRED"]
    OBVIOUS
  <2>2. /\ e \in Session /\ e.ids = sessions[i].ids /\ e.cursor = sessions[i].cursor
        /\ e.status = "EXPIRED" /\ sessions' = [sessions EXCEPT ![i] = e]
    BY <1>2, <1>4, <2>1, SessionFacts DEF Session
  <2>3. Upto(i, e.cursor)'
    BY <1>1, <1>2, <1>4, <2>2, UptoStays DEF SessionOK
  <2>4. \A j \in DOMAIN sessions : \A p \in 0..(Len(sessions[j].ids) - 1) :
           DealtWith(j, p) => labels'[DeviceAt(j, p)] # Unlabeled \/ <<j, p>> \in dismissed'
    BY <1>1, <1>4 DEF DealtWith
  <2>5. DataOK' /\ Keeps /\ (\A j \in DOMAIN sessions : SessionOK(j))'
    BY <1>2, <1>4, <2>2, <2>3, <2>4, SessionWritten
  <2>6. QED
    BY <1>1, <1>2, <1>4, <2>5, AnswerKeeps
<1>5. ASSUME NEW i \in DOMAIN sessions, labels' = labels,
             AnswerAdvanced(s, i, sessions[i].cursor, labels, sessions[i].last)
      PROVE  SessionInv'
  <2>1. PICK names, to, from, last :
          /\ names = labels /\ to = Advanced(i, sessions[i].cursor, labels)
          /\ from = sessions[i].cursor /\ last = sessions[i].last
    OBVIOUS
  <2>2. to = Advanced(i, from, names) /\ Answer(s, to.prompt)
        /\ sessions' = [sessions EXCEPT ![i].status = to.status, ![i].cursor = to.cursor,
                                        ![i].last = last]
    BY <1>5, <2>1 DEF AnswerAdvanced
  <2>3. from \in 0..NumDevices /\ last \in 0..MaxMessages
    BY <1>2, <2>1, SessionFacts
  <2>4. \A p \in 0..(Len(sessions[i].ids) - 1) :
           p < from => names[DeviceAt(i, p)] # Unlabeled \/ <<i, p>> \in dismissed
    BY <1>2, <2>1 DEF SessionOK, Upto, DealtWith
  <2>5. \A j \in DOMAIN sessions : \A p \in 0..(Len(sessions[j].ids) - 1) :
           DealtWith(j, p) => names[DeviceAt(j, p)] # Unlabeled \/ <<j, p>> \in dismissed
    BY <2>1 DEF DealtWith
  <2>6. names = labels' /\ labels' \in [Devices -> Labels]
    BY <1>2, <1>5, <2>1
  <2>7. QED
    BY <1>1, <2>2, <2>3, <2>4, <2>5, <2>6, AdvancedKeeps
<1>6. ASSUME NEW i \in DOMAIN sessions, Label(s, i)
      PROVE  SessionInv'
  <2>1. PICK position, d, new, from, last, names, to :
          /\ position = sessions[i].cursor /\ d = DeviceAt(i, position)
          /\ new = IF task[s].line.kind = "ignore" THEN Ignored ELSE <<s, task[s].line.meant>>
          /\ from = IF d = 0 THEN position ELSE position + 1
          /\ last = Remembered(s, i) /\ names = labels' /\ to = Advanced(i, from, names)
    OBVIOUS
  <2>2. /\ labels' = IF d # 0 /\ labels[d] = Unlabeled THEN [labels EXCEPT ![d] = new] ELSE labels
        /\ AnswerAdvanced(s, i, from, labels', last)
    BY <1>6, <2>1 DEF Label
  <2>3. /\ sessions' = [sessions EXCEPT ![i].status = to.status, ![i].cursor = to.cursor,
                                        ![i].last = last]
        /\ Answer(s, to.prompt)
    BY <2>1, <2>2 DEF AnswerAdvanced
  <2>4. position \in 0..NumDevices /\ Len(sessions[i].ids) \in 0..NumDevices
    BY <1>2, <2>1, SessionFacts
  <2>5. d # 0 => d \in Devices /\ position \in 0..(Len(sessions[i].ids) - 1)
    BY <1>2, <2>1, <2>4, PositionFacts
  <2>6. from \in 0..NumDevices /\ last \in 0..MaxMessages
    <3>1. last \in 0..MaxMessages
      BY <1>2, <2>1, SessionFacts, TaskFacts DEF Remembered
    <3>2. QED
      BY <1>2, <2>1, <2>4, <2>5, <3>1
  <2>7. new \in Labels /\ new # Unlabeled
    <3>1. task[s].line.meant \in 0..NumDevices
      BY TaskFacts
    <3>2. QED
      BY <2>1, <3>1 DEF Labels, Ignored, Unlabeled, Surfaces
  <2>8. names \in [Devices -> Labels] /\ \A x \in Devices : labels[x] # Unlabeled => names[x] # Unlabeled
    BY <1>2, <2>1, <2>2, <2>5, <2>7
  <2>9. d # 0 => names[d] # Unlabeled
    BY <1>2, <2>1, <2>2, <2>5, <2>7
  <2>10. \A j \in DOMAIN sessions : \A p \in 0..(Len(sessions[j].ids) - 1) :
            DealtWith(j, p) => names[DeviceAt(j, p)] # Unlabeled \/ <<j, p>> \in dismissed
    <3>1. ASSUME NEW j \in DOMAIN sessions, NEW p \in 0..(Len(sessions[j].ids) - 1)
          PROVE  DeviceAt(j, p) \in Devices
      <4>1. Len(sessions[j].ids) \in Nat
        BY <1>2, SessionFacts
      <4>2. p \in Nat /\ p < Len(sessions[j].ids)
        BY <4>1
      <4>3. QED
        BY <1>2, <4>2, PositionFacts
    <3>2. QED
      BY <2>8, <3>1 DEF DealtWith
  <2>11. \A p \in 0..(Len(sessions[i].ids) - 1) :
            p < from => names[DeviceAt(i, p)] # Unlabeled \/ <<i, p>> \in dismissed
    <3>1. \A p \in 0..(Len(sessions[i].ids) - 1) : p < position => DealtWith(i, p)
      BY <1>2, <2>1 DEF SessionOK, Upto
    <3>2. \A p \in 0..(Len(sessions[i].ids) - 1) :
             p < from => p < position \/ (p = position /\ d # 0)
      BY <2>1, <2>4
    <3>3. QED
      BY <2>1, <2>9, <2>10, <3>1, <3>2
  <2>12. names = labels' /\ to = Advanced(i, from, names)
    BY <2>1
  <2>13. QED
    BY <1>1, <2>3, <2>6, <2>8, <2>10, <2>11, <2>12, AdvancedKeeps
<1>7. QED
  BY <1>3, <1>4, <1>5, <1>6 DEF Apply, Active, database

\* The reply of _advance_to_next outside a transaction.
LEMMA PromptGoes ==
    ASSUME SessionInv, NEW s \in Surfaces, NEW prompt \in 0..NumDevices, Prompt(s, prompt),
           task[s].pc \in {"advance", "move", "finish"}
    PROVE  \E r \in Task : Goes(s, r) /\ Knows(s, r)
<1>1. /\ task \in [Surfaces -> Task] /\ task[s] \in Task /\ Knows(s, task[s])
  BY TaskFacts
<1>2. CASE Answer(s, prompt)
  <2>1. PICK r \in Task : Goes(s, r) /\ r.pc = "reply" /\ r.id = 0
    BY <1>1, <1>2, AnswerGoes
  <2>2. QED
    BY <2>1, AnsweredKnows
<1>3. CASE task[s].id # 0 /\ task' = [task EXCEPT ![s].pc = "note"]
  <2>1. PICK r : r = [task[s] EXCEPT !.pc = "note"]
    OBVIOUS
  <2>2. r \in Task /\ r.pc = "note" /\ r.id = task[s].id /\ r.sid = task[s].sid
    BY <1>1, <2>1 DEF Task
  <2>3. task' = [task EXCEPT ![s] = r]
    BY <1>1, <1>3, <2>1 DEF Task
  <2>4. Goes(s, r)
    BY <1>1, <2>2, <2>3, TaskStep
  <2>5. Knows(s, r)
    BY <1>1, <1>3, <2>2 DEF Knows, Working, Reading
  <2>6. QED
    BY <2>2, <2>4, <2>5
<1>4. QED
  BY <1>2, <1>3 DEF Prompt

LEMMA AdvanceKeeps ==
    ASSUME SessionInv, NEW s \in Surfaces, Advance(s)
    PROVE  SessionInv'
<1>1. PICK i, from, open : i = task[s].sid /\ from = task[s].next /\ open = Open(i, from, labels)
  OBVIOUS
<1>2. /\ task[s].pc = "advance" /\ UNCHANGED <<database, telegram, dismissed>>
      /\ UNCHANGED terminal
      /\ IF open = {} THEN Goto(s, "finish")
         ELSE IF Least(open) = task[s].cursor THEN Prompt(s, DeviceAt(i, Least(open)))
         ELSE task' = [task EXCEPT ![s].pc = "move", ![s].next = Least(open)]
  BY <1>1 DEF Advance, history
<1>3. /\ task \in [Surfaces -> Task] /\ task[s] \in Task /\ Knows(s, task[s]) /\ DataOK
      /\ i \in DOMAIN sessions /\ from \in 0..NumDevices /\ NumDevices \in Nat /\ Upto(i, from)
  BY <1>1, <1>2, TaskFacts DEF Knows, Working
<1>4. Len(sessions[i].ids) \in 0..NumDevices
  BY <1>3, SessionFacts
<1>5. bound' \in {0} \cup Devices /\ printed' \in {0} \cup Devices
  BY <1>2 DEF terminal, SessionInv, SurfacesOK
<1>6. \A p \in 0..(Len(sessions[i].ids) - 1) : p < from => DealtWith(i, p)
  BY <1>3 DEF Upto
<1>7. from \in Nat /\ \A p \in 0..(Len(sessions[i].ids) - 1) : from <= p \/ p < from
  BY <1>3, <1>4
<1>8. CASE open = {}
  <2>1. \A p \in 0..(Len(sessions[i].ids) - 1) : from <= p => DealtWith(i, p)
    BY <1>1, <1>3, <1>7, <1>8, OpenPositions DEF DealtWith
  <2>2. Upto(i, NumDevices)
    BY <1>6, <1>7, <2>1 DEF Upto
  <2>3. [task[s] EXCEPT !.pc = "finish"] \in Task
    BY <1>3 DEF Task
  <2>4. Knows(s, [task[s] EXCEPT !.pc = "finish"])
    BY <1>1, <1>2, <1>3, <2>2 DEF Knows, Working, Reading, Task
  <2>5. QED
    BY <1>2, <1>8, <2>3, <2>4, GotoKeeps
<1>9. CASE open # {}
  <2>1. PICK n, d : n = Least(open) /\ d = DeviceAt(i, n)
    OBVIOUS
  <2>2. /\ n \in from..(Len(sessions[i].ids) - 1) /\ d \in Devices
        /\ \A p \in 0..(Len(sessions[i].ids) - 1) : from <= p /\ p < n => DealtWith(i, p)
    BY <1>1, <1>3, <1>7, <1>9, <2>1, OpenPositions DEF DealtWith
  <2>3. n \in 0..NumDevices /\ d \in 0..NumDevices
    BY <1>3, <1>4, <2>2 DEF Devices
  <2>4. CASE Prompt(s, d)
    <3>1. PICK r \in Task : Goes(s, r) /\ Knows(s, r)
      BY <1>2, <2>3, <2>4, PromptGoes
    <3>2. QED
      BY <1>2, <1>5, <3>1, ReadingStep
  <2>5. CASE task' = [task EXCEPT ![s].pc = "move", ![s].next = n]
    <3>1. PICK r : r = [task[s] EXCEPT !.pc = "move", !.next = n]
      OBVIOUS
    <3>2. r \in Task /\ r.pc = "move" /\ r.next = n /\ r.sid = i /\ r.id = task[s].id
      BY <1>1, <1>3, <2>3, <3>1 DEF Task
    <3>3. task' = [task EXCEPT ![s] = r]
      BY <1>3, <2>5, <3>1 DEF Task
    <3>4. Goes(s, r)
      BY <1>3, <3>2, <3>3, TaskStep
    <3>5. Upto(i, n)
      BY <1>6, <1>7, <2>2 DEF Upto
    <3>6. Knows(s, r)
      BY <1>2, <1>3, <3>2, <3>5 DEF Knows, Working, Reading
    <3>7. QED
      BY <1>2, <1>5, <3>2, <3>4, <3>6, ReadingStep
  <2>6. QED
    BY <1>2, <1>9, <2>1, <2>4, <2>5
<1>10. QED
  BY <1>8, <1>9

LEMMA MoveKeeps ==
    ASSUME SessionInv, NEW s \in Surfaces, Move(s)
    PROVE  SessionInv'
<1>1. PICK i, n : i = task[s].sid /\ n = task[s].next
  OBVIOUS
<1>2. /\ task[s].pc = "move" /\ sessions' = [sessions EXCEPT ![i].cursor = n]
      /\ Prompt(s, DeviceAt(i, n)) /\ labels' = labels /\ dismissed' = dismissed
      /\ UNCHANGED telegram /\ UNCHANGED terminal
  BY <1>1 DEF Move, history
<1>3. /\ DataOK /\ i \in DOMAIN sessions /\ n \in 0..NumDevices /\ NumDevices \in Nat /\ Upto(i, n)
      /\ \A j \in DOMAIN sessions : SessionOK(j)
  BY <1>1, <1>2, TaskFacts DEF Knows, Working
<1>4. PICK e : e = [sessions[i] EXCEPT !.cursor = n]
  OBVIOUS
<1>5. /\ e \in Session /\ e.ids = sessions[i].ids /\ e.cursor = n /\ e.status = sessions[i].status
      /\ sessions' = [sessions EXCEPT ![i] = e]
  BY <1>2, <1>3, <1>4, SessionFacts DEF Session
<1>6. Upto(i, e.cursor)' /\ (e.status = "DONE" => Upto(i, NumDevices)')
  BY <1>2, <1>3, <1>5, UptoStays DEF SessionOK
<1>7. DeviceAt(i, n) \in 0..NumDevices
  BY <1>3, PositionFacts DEF Devices
<1>8. PICK r \in Task : Goes(s, r) /\ Knows(s, r)
  BY <1>2, <1>7, PromptGoes
<1>9. dismissed \subseteq dismissed'
  BY <1>2
<1>10. QED
  BY <1>2, <1>3, <1>5, <1>6, <1>8, <1>9, UpdateKeeps

LEMMA FinishKeeps ==
    ASSUME SessionInv, NEW s \in Surfaces, Finish(s)
    PROVE  SessionInv'
<1>1. PICK i : i = task[s].sid
  OBVIOUS
<1>2. /\ task[s].pc = "finish" /\ sessions' = [sessions EXCEPT ![i].status = "DONE"]
      /\ Prompt(s, 0) /\ labels' = labels /\ dismissed' = dismissed
      /\ UNCHANGED telegram /\ UNCHANGED terminal
  BY <1>1 DEF Finish, history
<1>3. /\ DataOK /\ i \in DOMAIN sessions /\ NumDevices \in Nat /\ Upto(i, NumDevices)
      /\ \A j \in DOMAIN sessions : SessionOK(j)
  BY <1>1, <1>2, TaskFacts DEF Knows, Working
<1>4. PICK e : e = [sessions[i] EXCEPT !.status = "DONE"]
  OBVIOUS
<1>5. /\ e \in Session /\ e.ids = sessions[i].ids /\ e.cursor = sessions[i].cursor
      /\ sessions' = [sessions EXCEPT ![i] = e]
  BY <1>2, <1>3, <1>4, SessionFacts DEF Session
<1>6. Upto(i, e.cursor)' /\ Upto(i, NumDevices)'
  BY <1>2, <1>3, <1>5, UptoStays DEF SessionOK
<1>7. PICK r \in Task : Goes(s, r) /\ Knows(s, r)
  BY <1>2, <1>3, PromptGoes
<1>8. dismissed \subseteq dismissed'
  BY <1>2
<1>9. QED
  BY <1>2, <1>3, <1>5, <1>6, <1>7, <1>8, UpdateKeeps

LEMMA NoteKeeps ==
    ASSUME SessionInv, NEW s \in Surfaces, Note(s)
    PROVE  SessionInv'
<1>1. PICK i : i = task[s].sid
  OBVIOUS
<1>2. /\ task[s].pc = "note" /\ sessions' = [sessions EXCEPT ![i].last = task[s].id]
      /\ Answer(s, 0) /\ labels' = labels /\ dismissed' = dismissed
      /\ UNCHANGED telegram /\ UNCHANGED terminal
  BY <1>1 DEF Note, history
<1>3. /\ DataOK /\ i \in DOMAIN sessions /\ NumDevices \in Nat /\ task[s].id \in 0..MaxMessages
      /\ task \in [Surfaces -> Task]
      /\ \A j \in DOMAIN sessions : SessionOK(j)
  BY <1>1, <1>2, TaskFacts DEF Knows, Working
<1>4. PICK e : e = [sessions[i] EXCEPT !.last = task[s].id]
  OBVIOUS
<1>5. /\ e \in Session /\ e.ids = sessions[i].ids /\ e.cursor = sessions[i].cursor
      /\ e.status = sessions[i].status /\ sessions' = [sessions EXCEPT ![i] = e]
  BY <1>2, <1>3, <1>4, SessionFacts DEF Session
<1>6. Upto(i, e.cursor)' /\ (e.status = "DONE" => Upto(i, NumDevices)')
  BY <1>2, <1>3, <1>5, UptoStays DEF SessionOK
<1>7. PICK r \in Task : Goes(s, r) /\ Knows(s, r)
  BY <1>2, <1>3, AnswerGoes, AnsweredKnows
<1>8. dismissed \subseteq dismissed'
  BY <1>2
<1>9. QED
  BY <1>2, <1>3, <1>5, <1>6, <1>7, <1>8, UpdateKeeps

LEMMA HandleKeeps ==
    ASSUME SessionInv, NEW s \in Surfaces, Handle(s)
    PROVE  SessionInv'
BY ReplayKeeps, RouteKeeps, DirectKeeps, ExpireKeeps, ListKeeps, CreateKeeps, ExistingKeeps,
   SkipKeeps, CloseKeeps, ApplyKeeps, AdvanceKeeps, MoveKeeps, FinishKeeps, NoteKeeps DEF Handle

-----------------------------------------------------------------------------
\* Telegram, the command loop, the terminal, the clock.

\* A step of the chat surface beside its handlers leaves the database alone.
LEMMA LoopKeeps ==
    ASSUME SessionInv, NEW r \in Task, Goes("chat", r), Knows("chat", r)', QueueOK',
           UNCHANGED <<database, dismissed>>, UNCHANGED terminal
    PROVE  SessionInv'
<1>1. DataOK' /\ Keeps /\ (\A i \in DOMAIN sessions : SessionOK(i))'
  BY NothingWritten DEF SessionInv
<1>2. SurfacesOK'
  BY DEF SessionInv, SurfacesOK, Goes, terminal
<1>3. ASSUME NEW s \in Surfaces
      PROVE  Knows(s, task[s])'
  <2>1. CASE s = "chat"
    <3>1. task'[s] = r
      BY <2>1 DEF Goes
    <3>2. QED
      BY <2>1, <3>1, Zenon DEF Knows
  <2>2. CASE s # "chat"
    <3>1. s = "cli" /\ task'[s] = task[s] /\ Knows(s, task[s])
      BY <2>2 DEF SessionInv, Surfaces, Goes
    <3>2. labels' = labels /\ sessions' = sessions /\ dismissed' = dismissed
      BY DEF database
    <3>3. QED
      BY <3>1, <3>2 DEF Knows, Upto, DealtWith, DeviceAt
  <2>3. QED
    BY <2>1, <2>2
<1>4. QED
  BY <1>1, <1>2, <1>3 DEF SessionInv

LEMMA LinesAreLines ==
    ASSUME NEW line \in Lines
    PROVE  /\ line \in [kind : AllKinds \cup {"replay"}, meant : 0..NumDevices]
           /\ line.kind # "replay"
           /\ line.kind \in {"label", "unlabel"} => line.meant \in Devices
<1>1. NumDevices \in Nat /\ Kinds \subseteq AllKinds
  BY InitAssumption DEF AllKinds
<1>2. \A kind \in Kinds : kind # "replay" /\ kind \in AllKinds
  BY <1>1 DEF AllKinds
<1>3. line \in [kind : Kinds, meant : 0..NumDevices]
  BY <1>1 DEF Lines, Devices
<1>4. line.kind \in {"label", "unlabel"} => line.meant \in Devices
  BY DEF Lines
<1>5. QED
  BY <1>2, <1>3, <1>4

LEMMA SendKeeps ==
    ASSUME SessionInv, NEW line \in Lines, Send(line)
    PROVE  SessionInv'
<1>1. /\ inbox' = Append(inbox, line) /\ acked + Len(inbox) < MaxMessages /\ Len(inbox) < MaxBatch
      /\ acked' = acked /\ batch' = batch /\ labels' = labels /\ sessions' = sessions
      /\ task' = task /\ bound' = bound /\ printed' = printed /\ dismissed' = dismissed
  BY DEF Send, database, terminal, history
<1>2. QueueOK'
  <2>1. inbox \in Seq(Lines) /\ Len(inbox) \in Nat
    BY LenProperties DEF SessionInv, QueueOK
  <2>2. inbox' \in Seq(Lines) /\ Len(inbox') = Len(inbox) + 1
    BY <1>1, <2>1, AppendProperties
  <2>3. MaxMessages \in Nat /\ MaxBatch \in Nat
    BY InitAssumption
  <2>4. QED
    BY <1>1, <2>1, <2>2, <2>3 DEF SessionInv, QueueOK
<1>3. DataOK' /\ SurfacesOK'
  BY <1>1 DEF SessionInv, DataOK, SurfacesOK
<1>4. Keeps /\ (\A i \in DOMAIN sessions : SessionOK(i))'
  BY <1>1, NothingWritten DEF SessionInv, database
<1>5. ASSUME NEW s \in Surfaces
      PROVE  Knows(s, task[s])'
  <2>1. PICK t \in Task : t = task[s]
    BY TaskFacts
  <2>2. Knows(s, t)'
    BY <1>1, <1>4, <2>1, TaskFacts, KnowledgeStays
  <2>3. QED
    BY <1>1, <2>1, <2>2 DEF Knows
<1>6. QED
  BY <1>2, <1>3, <1>4, <1>5 DEF SessionInv

LEMMA PollKeeps ==
    ASSUME SessionInv, Poll
    PROVE  SessionInv'
<1>1. /\ task["chat"].pc = "idle" /\ batch.handled = batch.fetched
      /\ acked' = acked + batch.handled
      /\ inbox' = SubSeq(inbox, batch.handled + 1, Len(inbox))
      /\ batch' = [fetched |-> Len(inbox'), handled |-> 0]
      /\ UNCHANGED <<database, dismissed>> /\ UNCHANGED terminal /\ task' = task
  BY DEF Poll, history
<1>2. QueueOK'
  <2>1. /\ inbox \in Seq(Lines) /\ Len(inbox) \in Nat /\ acked \in Nat
        /\ batch.handled \in Nat /\ batch.handled <= Len(inbox)
        /\ acked + Len(inbox) <= MaxMessages /\ Len(inbox) <= MaxBatch
    BY <1>1, LenProperties DEF SessionInv, QueueOK
  <2>2. \A n \in (batch.handled + 1)..Len(inbox) : inbox[n] \in Lines
    BY <2>1, ElementOfSeq
  <2>3. /\ inbox' \in Seq(Lines)
        /\ Len(inbox') = IF batch.handled + 1 <= Len(inbox)
                         THEN Len(inbox) - (batch.handled + 1) + 1 ELSE 0
    BY <1>1, <2>1, <2>2, SubSeqProperties
  <2>4. Len(inbox') = Len(inbox) - batch.handled
    BY <2>1, <2>3
  <2>5. MaxMessages \in Nat /\ MaxBatch \in Nat
    BY InitAssumption
  <2>6. Len(inbox') \in Nat /\ Len(inbox') <= MaxBatch /\ acked' \in Nat
        /\ acked' + Len(inbox') <= MaxMessages
    <3>1. PICK n, h : n = Len(inbox) /\ h = batch.handled
      OBVIOUS
    <3>2. Len(inbox') = n - h /\ acked' = acked + h
      BY <1>1, <2>4, <3>1
    <3>3. n \in Nat /\ h \in Nat /\ h <= n /\ acked + n <= MaxMessages /\ n <= MaxBatch
      BY <2>1, <3>1
    <3>4. QED
      BY <2>1, <2>5, <3>2, <3>3
  <2>7. batch' \in [fetched : Nat, handled : Nat] /\ batch'.handled <= batch'.fetched
        /\ batch'.fetched <= Len(inbox')
    <3>1. PICK n : n = Len(inbox')
      OBVIOUS
    <3>2. n \in Nat /\ batch' = [fetched |-> n, handled |-> 0]
      BY <1>1, <2>6, <3>1
    <3>3. QED
      BY <3>1, <3>2
  <2>8. QED
    BY <2>3, <2>6, <2>7 DEF QueueOK
<1>3. PICK r : r = task["chat"]
  OBVIOUS
<1>4. "chat" \in Surfaces
  BY DEF Surfaces
<1>5. r \in Task /\ r.pc = "idle" /\ r.id = 0
  BY <1>1, <1>3, <1>4, TaskFacts DEF Knows
<1>6. Goes("chat", r)
  BY <1>1, <1>3, <1>4, TaskFacts DEF Goes
<1>7. Knows("chat", r)'
  BY <1>5 DEF Knows, Working, Reading
<1>8. QED
  BY <1>1, <1>2, <1>5, <1>6, <1>7, LoopKeeps

LEMMA YieldKeeps ==
    ASSUME SessionInv, Yield
    PROVE  SessionInv'
<1>1. "chat" \in Surfaces
  BY DEF Surfaces
<1>2. /\ task \in [Surfaces -> Task] /\ task["chat"] \in Task
      /\ inbox \in Seq(Lines) /\ Len(inbox) \in Nat /\ acked \in Nat /\ MaxMessages \in Nat
      /\ batch.handled \in Nat /\ batch.fetched \in Nat /\ batch.fetched <= Len(inbox)
      /\ acked + Len(inbox) <= MaxMessages
  BY <1>1, TaskFacts, LenProperties DEF SessionInv, QueueOK
<1>3. PICK line, id : line = inbox[batch.handled + 1] /\ id = acked + batch.handled + 1
  OBVIOUS
<1>4. /\ task["chat"].pc = "idle" /\ batch.handled < batch.fetched
      /\ task' = [task EXCEPT !["chat"].pc = "replay", !["chat"].line = line, !["chat"].id = id]
      /\ UNCHANGED <<database, telegram, dismissed>> /\ UNCHANGED terminal
  BY <1>3 DEF Yield, history
<1>5. line \in Lines /\ id \in 0..MaxMessages
  <2>1. batch.handled + 1 \in 1..Len(inbox)
    BY <1>2, <1>4
  <2>2. QED
    BY <1>2, <1>3, <1>4, <2>1, ElementOfSeq
<1>6. /\ line \in [kind : AllKinds \cup {"replay"}, meant : 0..NumDevices]
      /\ line.kind # "replay" /\ (line.kind \in {"label", "unlabel"} => line.meant \in Devices)
  BY <1>5, LinesAreLines
<1>7. PICK r : r = [task["chat"] EXCEPT !.pc = "replay", !.line = line, !.id = id]
  OBVIOUS
<1>8. r \in Task /\ r.pc = "replay" /\ r.line = line /\ r.id = id
  BY <1>2, <1>5, <1>6, <1>7 DEF Task
<1>9. task' = [task EXCEPT !["chat"] = r]
  BY <1>1, <1>2, <1>4, <1>7 DEF Task
<1>10. Goes("chat", r)
  BY <1>1, <1>2, <1>8, <1>9, TaskStep
<1>11. Knows("chat", r)
  BY <1>3, <1>4, <1>6, <1>8 DEF Knows, Working, Reading
<1>12. bound' \in {0} \cup Devices /\ printed' \in {0} \cup Devices
  BY <1>4 DEF terminal, SessionInv, SurfacesOK
<1>13. QED
  BY <1>1, <1>4, <1>8, <1>10, <1>11, <1>12, ReadingStep

LEMMA LoopStepsKeep ==
    ASSUME SessionInv, ChatReply \/ Crash \/ Restart
    PROVE  SessionInv'
<1>1. "chat" \in Surfaces
  BY DEF Surfaces
<1>2. /\ task \in [Surfaces -> Task] /\ task["chat"] \in Task /\ Knows("chat", task["chat"])
  BY <1>1, TaskFacts
<1>3. PICK pc : pc = IF Crash THEN "down" ELSE "idle"
  OBVIOUS
<1>4. task' = [task EXCEPT !["chat"] = Resting(pc)] /\ pc \in {"down", "idle"}
  BY <1>3 DEF ChatReply, Crash, Restart
<1>5. PICK r : r = Resting(pc)
  OBVIOUS
<1>6. r \in Task /\ r.pc = pc /\ r.id = 0 /\ r.line.kind = "init"
  BY <1>4, <1>5, RestingIsATask DEF Resting
<1>7. Goes("chat", r)
  BY <1>1, <1>2, <1>4, <1>5, <1>6, TaskStep
<1>8. Knows("chat", r)'
  BY <1>4, <1>6 DEF Knows, Working, Reading
<1>9. UNCHANGED <<database, dismissed>> /\ UNCHANGED terminal /\ UNCHANGED <<inbox, acked>>
  BY DEF ChatReply, Crash, Restart, telegram, history
<1>10. QueueOK'
  <2>1. /\ inbox \in Seq(Lines) /\ Len(inbox) \in Nat /\ batch \in [fetched : Nat, handled : Nat]
        /\ batch.fetched <= Len(inbox) /\ batch.handled <= batch.fetched
    BY LenProperties DEF SessionInv, QueueOK
  <2>2. /\ batch' \in [fetched : Nat, handled : Nat] /\ batch'.fetched <= Len(inbox)
        /\ batch'.handled <= batch'.fetched
    <3>1. CASE ChatReply
      <4>1. batch.handled < batch.fetched /\ batch' = [batch EXCEPT !.handled = @ + 1]
        BY <1>2, <3>1 DEF ChatReply, Knows
      <4>2. QED
        BY <2>1, <4>1
    <3>2. CASE Crash
      BY <2>1, <3>2 DEF Crash
    <3>3. CASE Restart
      BY <2>1, <3>3 DEF Restart, telegram
    <3>4. QED
      BY <3>1, <3>2, <3>3
  <2>3. QED
    BY <1>9, <2>2 DEF SessionInv, QueueOK
<1>11. QED
  BY <1>6, <1>7, <1>8, <1>9, <1>10, LoopKeeps

LEMMA CliStepsKeep ==
    ASSUME SessionInv, CliStart \/ CliLook \/ CliStop \/ \E line \in Lines : CliRead(line)
    PROVE  SessionInv'
<1>1. "cli" \in Surfaces
  BY DEF Surfaces
<1>2. /\ task \in [Surfaces -> Task] /\ task["cli"] \in Task /\ Knows("cli", task["cli"])
      /\ task["cli"].id = 0 /\ DataOK /\ NumDevices \in Nat
  BY <1>1, TaskFacts DEF Knows
<1>3. bound \in {0} \cup Devices /\ printed \in {0} \cup Devices
  BY DEF SessionInv, SurfacesOK
<1>4. CASE CliStart
  <2>1. /\ UNCHANGED <<database, telegram, dismissed>>
        /\ bound' = bound /\ printed' = printed
        /\ task["cli"].pc = "down" /\ task' = [task EXCEPT !["cli"].pc = "route"]
    BY <1>4 DEF CliStart, terminal, history
  <2>2. PICK r : r = [task["cli"] EXCEPT !.pc = "route"]
    OBVIOUS
  <2>3. r \in Task /\ r.pc = "route" /\ r.id = 0 /\ r.line = task["cli"].line
    <3>1. task["cli"] \in Task /\ task["cli"].id = 0
      BY <1>2
    <3>2. PICK t : t = task["cli"]
      OBVIOUS
    <3>3. t \in Task /\ t.id = 0 /\ r = [t EXCEPT !.pc = "route"]
      BY <2>2, <3>1, <3>2
    <3>4. QED
      BY <3>2, <3>3 DEF Task
  <2>4. Goes("cli", r)
    BY <1>1, <1>2, <2>1, <2>2, <2>3, TaskStep
  <2>5. task["cli"].line.kind = "init"
    BY <1>2, <2>1 DEF Knows
  <2>6. Knows("cli", r)
    BY <2>3, <2>5 DEF Knows, Working, Reading
  <2>7. QED
    BY <1>1, <1>3, <2>1, <2>3, <2>4, <2>6, ReadingStep
<1>5. CASE CliStop
  BY <1>5, CliEndKeeps DEF CliStop, history
<1>6. CASE CliLook
  <2>1. UNCHANGED <<database, telegram, dismissed>>
    BY <1>6 DEF CliLook, history
  <2>2. CASE CliEnd
    BY <2>1, <2>2, CliEndKeeps
  <2>3. ASSUME NEW i \in DOMAIN sessions, bound' = DeviceAt(i, sessions[i].cursor),
               printed' = task["cli"].prompt,
               task' = [task EXCEPT !["cli"] = Resting("read")]
        PROVE  SessionInv'
    <3>1. bound' \in {0} \cup Devices
      <4>1. sessions[i].cursor \in Nat
        BY <1>2, SessionFacts
      <4>2. QED
        BY <1>2, <2>3, <4>1, PositionFacts
    <3>2. printed' \in {0} \cup Devices
      BY <1>2, <2>3 DEF Task, Devices
    <3>3. PICK r : r = Resting("read")
      OBVIOUS
    <3>4. r \in Task /\ r.pc = "read" /\ r.id = 0
      BY <3>3, RestingIsATask DEF Resting
    <3>5. Goes("cli", r)
      BY <1>1, <1>2, <2>3, <3>3, <3>4, TaskStep
    <3>6. Knows("cli", r)
      BY <3>4 DEF Knows, Working, Reading
    <3>7. QED
      BY <1>1, <2>1, <3>1, <3>2, <3>4, <3>5, <3>6, ReadingStep
  <2>4. QED
    BY <1>6, <2>2, <2>3 DEF CliLook, Active
<1>7. ASSUME NEW line \in Lines, CliRead(line)
      PROVE  SessionInv'
  <2>1. PICK l : l = IF line.kind = "name" THEN [line EXCEPT !.meant = printed] ELSE line
    OBVIOUS
  <2>2. /\ UNCHANGED <<database, telegram, dismissed>>
        /\ bound' = bound /\ printed' = printed
        /\ task' = [task EXCEPT !["cli"].pc = "route", !["cli"].line = l]
    BY <1>7, <2>1 DEF CliRead, history
  <2>3. printed \in 0..NumDevices
    BY <1>2, <1>3 DEF Devices
  <2>4. /\ l \in [kind : AllKinds \cup {"replay"}, meant : 0..NumDevices]
        /\ l.kind # "replay" /\ (l.kind \in {"label", "unlabel"} => l.meant \in Devices)
    BY <2>1, <2>3, LinesAreLines
  <2>5. PICK r : r = [task["cli"] EXCEPT !.pc = "route", !.line = l]
    OBVIOUS
  <2>6. r \in Task /\ r.pc = "route" /\ r.id = 0 /\ r.line = l
    <3>1. task["cli"] \in Task /\ task["cli"].id = 0
      BY <1>2
    <3>2. l \in [kind : AllKinds \cup {"replay"}, meant : 0..NumDevices]
      BY <2>4
    <3>3. PICK t : t = task["cli"]
      OBVIOUS
    <3>4. r = [pc |-> "route", line |-> l, id |-> t.id, sid |-> t.sid, cursor |-> t.cursor,
               next |-> t.next, ids |-> t.ids, prompt |-> t.prompt]
      BY <2>5, <3>1, <3>3 DEF Task
    <3>5. /\ t.id \in 0..MaxMessages /\ t.sid \in 0..MaxSessions /\ t.cursor \in 0..NumDevices
          /\ t.next \in 0..NumDevices /\ t.ids \in Seq(Devices) /\ t.prompt \in 0..NumDevices
          /\ t.id = 0
      BY <3>1, <3>3 DEF Task
    <3>6. QED
      BY <3>2, <3>4, <3>5 DEF Task
  <2>7. task' = [task EXCEPT !["cli"] = r]
    BY <1>1, <1>2, <2>2, <2>5 DEF Task
  <2>8. Goes("cli", r)
    BY <1>1, <1>2, <2>6, <2>7, TaskStep
  <2>9. Knows("cli", r)
    BY <2>4, <2>6 DEF Knows, Working, Reading
  <2>10. QED
    BY <1>1, <1>3, <2>2, <2>6, <2>8, <2>9, ReadingStep
<1>8. QED
  BY <1>4, <1>5, <1>6, <1>7

LEMMA TimeBoxKeeps ==
    ASSUME SessionInv, NEW i \in DOMAIN sessions, TimeBoxPasses(i)
    PROVE  SessionInv'
<1>1. /\ sessions' = [sessions EXCEPT ![i].due = TRUE]
      /\ labels' = labels /\ dismissed' = dismissed /\ task' = task
      /\ UNCHANGED telegram /\ UNCHANGED terminal
  BY DEF TimeBoxPasses, history
<1>2. PICK s \in Surfaces : s = "cli"
  BY DEF Surfaces
<1>3. /\ task \in [Surfaces -> Task] /\ task[s] \in Task /\ Knows(s, task[s]) /\ DataOK
      /\ SessionOK(i)
  BY TaskFacts
<1>4. PICK e : e = [sessions[i] EXCEPT !.due = TRUE]
  OBVIOUS
<1>5. /\ e \in Session /\ e.ids = sessions[i].ids /\ e.cursor = sessions[i].cursor
      /\ e.status = sessions[i].status /\ sessions' = [sessions EXCEPT ![i] = e]
  BY <1>1, <1>3, <1>4, SessionFacts DEF Session
<1>6. Upto(i, e.cursor)' /\ (e.status = "DONE" => Upto(i, NumDevices)')
  BY <1>1, <1>3, <1>5, UptoStays DEF SessionOK
<1>7. PICK r : r = task[s]
  OBVIOUS
<1>8. r \in Task /\ Goes(s, r) /\ Knows(s, r)
  BY <1>1, <1>3, <1>7 DEF Goes
<1>9. dismissed \subseteq dismissed'
  BY <1>1
<1>10. QED
  BY <1>1, <1>5, <1>6, <1>8, <1>9, UpdateKeeps

LEMMA SessionInitKeeps ==
    ASSUME SessionInit
    PROVE  SessionInv
<1>1. NumDevices \in Nat \ {0} /\ MaxMessages \in Nat /\ MaxBatch \in Nat /\ MaxSessions \in Nat
  BY InitAssumption
<1>2. /\ << >> \in Seq(Session) /\ << >> \in Seq(Lines) /\ Len(<< >>) = 0
      /\ DOMAIN << >> = {}
  BY EmptySeq
<1>3. DataOK /\ QueueOK
  BY <1>1, <1>2 DEF SessionInit, DataOK, QueueOK, Labels
<1>4. \A s \in Surfaces : /\ task[s] \in Task /\ task[s].id = 0 /\ task[s].line.kind = "init"
                          /\ task[s].pc = IF s = "chat" THEN "idle" ELSE "down"
  <2>1. ASSUME NEW s \in Surfaces
        PROVE  /\ task[s] \in Task /\ task[s].id = 0 /\ task[s].line.kind = "init"
               /\ task[s].pc = IF s = "chat" THEN "idle" ELSE "down"
    <3>1. PICK pc \in {"idle", "down"} : pc = IF s = "chat" THEN "idle" ELSE "down"
      OBVIOUS
    <3>2. task[s] = Resting(pc)
      BY <3>1 DEF SessionInit
    <3>3. QED
      BY <3>1, <3>2, RestingIsATask DEF Resting
  <2>2. QED
    BY <2>1
<1>5. SurfacesOK
  BY <1>4 DEF SessionInit, SurfacesOK
<1>6. \A s \in Surfaces : Knows(s, task[s])
  BY <1>4 DEF Knows, Working, Reading
<1>7. \A i \in DOMAIN sessions : SessionOK(i)
  BY <1>2 DEF SessionInit
<1>8. QED
  BY <1>3, <1>5, <1>6, <1>7 DEF SessionInv

LEMMA SessionNextKeeps ==
    ASSUME SessionInv, [SessionNext]_sessionVars
    PROVE  SessionInv'
<1>1. CASE UNCHANGED sessionVars
  <2>1. /\ inbox' = inbox /\ acked' = acked /\ batch' = batch /\ labels' = labels
        /\ sessions' = sessions /\ task' = task /\ bound' = bound /\ printed' = printed
        /\ dismissed' = dismissed
    BY <1>1 DEF sessionVars, database, telegram, terminal, history
  <2>2. DataOK' /\ QueueOK' /\ SurfacesOK'
    BY <2>1 DEF SessionInv, DataOK, QueueOK, SurfacesOK
  <2>3. Keeps /\ (\A i \in DOMAIN sessions : SessionOK(i))'
    BY <2>1, NothingWritten DEF SessionInv, database
  <2>4. ASSUME NEW s \in Surfaces
        PROVE  Knows(s, task[s])'
    <3>1. PICK t \in Task : t = task[s]
      BY TaskFacts
    <3>2. UNCHANGED <<acked, batch>>
      BY <1>1 DEF sessionVars, telegram
    <3>3. Knows(s, t)'
      BY <2>3, <3>1, <3>2, TaskFacts, KnowledgeStays
    <3>4. QED
      BY <2>1, <3>1, <3>3 DEF Knows
  <2>5. QED
    BY <2>2, <2>3, <2>4 DEF SessionInv
<1>2. CASE Chat
  <2>1. "chat" \in Surfaces
    BY DEF Surfaces
  <2>2. QED
    BY <1>2, <2>1, PollKeeps, YieldKeeps, HandleKeeps, LoopStepsKeep DEF Chat
<1>3. CASE Cli
  <2>1. "cli" \in Surfaces
    BY DEF Surfaces
  <2>2. QED
    BY <1>3, <2>1, HandleKeeps, CliStepsKeep DEF Cli
<1>4. CASE (\E line \in Lines : Send(line)) \/ Crash \/ Restart
  BY <1>4, SendKeeps, LoopStepsKeep
<1>5. CASE \E i \in DOMAIN sessions : TimeBoxPasses(i)
  BY <1>5, TimeBoxKeeps
<1>6. QED
  BY <1>1, <1>2, <1>3, <1>4, <1>5 DEF SessionNext

\* Every state of a run satisfies the inductive invariant: what a handler does
\* with a session it read some statements ago is still right of it
\* (init.py, both surfaces).
THEOREM SessionInvariance == SessionSpec => []SessionInv
BY SessionInitKeeps, SessionNextKeeps, PTL DEF SessionSpec

\* Labels, sessions, the queue at Telegram and both surfaces keep their types
\* (init.py, telegram.commands).
THEOREM SessionTypeCorrect == SessionSpec => []SessionTypeOK
<1>1. SessionInv => SessionTypeOK
  <2>1. SUFFICES ASSUME SessionInv PROVE SessionTypeOK
    OBVIOUS
  <2>2. \A i \in DOMAIN sessions : sessions[i] \in Session
    BY <2>1, SessionFacts DEF SessionInv
  <2>3. Len(inbox) \in Nat /\ acked \in 0..MaxMessages /\ batch.handled \in 0..batch.fetched
    <3>1. Len(inbox) \in Nat
      BY <2>1, LenProperties DEF SessionInv, QueueOK
    <3>2. MaxMessages \in Nat
      BY InitAssumption
    <3>3. QED
      BY <2>1, <3>1, <3>2 DEF SessionInv, QueueOK
  <2>4. QED
    BY <2>1, <2>2, <2>3 DEF SessionTypeOK, SessionInv, DataOK, QueueOK, SurfacesOK
<1>2. QED
  BY <1>1, SessionInvariance, PTL

\* No device of a snapshot is left behind unnamed without the operator's word,
\* for any snapshot, any lines on either surface and any interleaving of their
\* statements, crashes and redeliveries (init.py).
THEOREM NobodyIsForgotten == SessionSpec => []NobodyIsPassedOver
<1>1. SessionInv => NobodyIsPassedOver
  <2>1. SUFFICES ASSUME SessionInv, NEW i \in DOMAIN sessions,
                        NEW p \in 0..(Len(sessions[i].ids) - 1),
                        p < sessions[i].cursor \/ sessions[i].status = "DONE"
                 PROVE  DealtWith(i, p)
    BY DEF NobodyIsPassedOver, DealtWith
  <2>2. Len(sessions[i].ids) \in 0..NumDevices /\ SessionOK(i) /\ NumDevices \in Nat
    BY <2>1, SessionFacts, InitAssumption DEF SessionInv
  <2>3. p < NumDevices
    BY <2>1, <2>2
  <2>4. QED
    BY <2>1, <2>2, <2>3 DEF SessionOK, Upto
<1>2. QED
  BY <1>1, SessionInvariance, PTL

-----------------------------------------------------------------------------
\* What a step may do to a label.

\* A label changes by a command that names the device, or by the handler that
\* applies to the live cursor of a session within its time-box.
LEMMA HowLabelsChange ==
    ASSUME SessionInv, [SessionNext]_sessionVars, NEW d \in Devices, labels'[d] # labels[d]
    PROVE  \/ /\ task["chat"].pc = "direct" /\ task["chat"].line.meant = d
              /\ labels'[d] \in {<<"chat", d>>, Ignored, Unlabeled}
              /\ bound' = bound
           \/ \E s \in Surfaces, i \in Active :
                 /\ ~Stale(i) /\ ~Mismatch(s, i) /\ labels[d] = Unlabeled
                 /\ d = DeviceAt(i, sessions[i].cursor)
                 /\ \/ labels'[d] = Ignored
                    \/ \E meant \in 0..NumDevices : labels'[d] = <<s, meant>>
<1>1. labels \in [Devices -> Labels]
  BY DEF SessionInv, DataOK
<1>2. PICK s \in Surfaces : Direct(s) \/ Apply(s)
  <2>1. ASSUME NEW s \in Surfaces, Handle(s)
        PROVE  Direct(s) \/ Apply(s)
    BY <2>1, Zenon DEF Handle, Replay, Route, Expire, List, Create, Existing, Skip, Close, Advance,
                       Move, Finish, Note, database
  <2>2. ~UNCHANGED labels
    OBVIOUS
  <2>3. ~UNCHANGED sessionVars
    BY <2>2 DEF sessionVars, database
  <2>4. "chat" \in Surfaces /\ "cli" \in Surfaces
    BY DEF Surfaces
  <2>5. CASE Chat
    BY <2>1, <2>2, <2>4, <2>5 DEF Chat, Poll, Yield, ChatReply, database
  <2>6. CASE Cli
    BY <2>1, <2>2, <2>4, <2>6 DEF Cli, CliStart, CliLook, CliStop, CliRead, database
  <2>7. QED
    BY <2>2, <2>3, <2>5, <2>6 DEF SessionNext, Send, Crash, Restart, TimeBoxPasses, database
<1>3. task[s].line.meant \in 0..NumDevices /\ Knows(s, task[s])
  BY TaskFacts
<1>4. CASE Direct(s)
  <2>1. s = "chat"
    BY <1>3, <1>4 DEF Direct, Knows, Surfaces
  <2>2. PICK new \in {<<s, task[s].line.meant>>, Ignored, Unlabeled} :
          labels' = [labels EXCEPT ![task[s].line.meant] = new]
    BY <1>4 DEF Direct
  <2>3. task[s].line.meant = d /\ labels'[d] = new
    BY <1>1, <2>2
  <2>4. QED
    BY <1>4, <2>1, <2>2, <2>3 DEF Direct, terminal
<1>5. CASE Apply(s)
  <2>1. PICK i \in Active : ~Stale(i) /\ ~Mismatch(s, i) /\ Label(s, i)
    BY <1>5 DEF Apply, database
  <2>2. PICK c, new : /\ c = DeviceAt(i, sessions[i].cursor)
                      /\ new = IF task[s].line.kind = "ignore" THEN Ignored
                               ELSE <<s, task[s].line.meant>>
    OBVIOUS
  <2>3. labels' = IF c # 0 /\ labels[c] = Unlabeled THEN [labels EXCEPT ![c] = new] ELSE labels
    BY <2>1, <2>2 DEF Label
  <2>4. c = d /\ labels[d] = Unlabeled /\ labels'[d] = new
    BY <1>1, <2>3
  <2>5. QED
    BY <1>3, <2>1, <2>2, <2>4
<1>6. QED
  BY <1>2, <1>4, <1>5

\* A label that is there is changed only by a command that names the device,
\* however stale the session a handler of either surface works from
\* (_apply_current).
THEOREM LabelsStay == SessionSpec => LabelsAreNotOverwritten
<1>1. SessionInv /\ [SessionNext]_sessionVars =>
         [\A d \in Devices : labels[d] # Unlabeled /\ labels'[d] # labels[d] =>
             task["chat"].pc = "direct" /\ task["chat"].line.meant = d]_sessionVars
  BY HowLabelsChange
<1>2. QED
  BY <1>1, SessionInvariance, PTL DEF SessionSpec, LabelsAreNotOverwritten

\* Past its time-box a session names nothing, whichever clock its handler read
\* before the transaction (_require_active, _apply_current).
THEOREM ExpiredIsOver == SessionSpec => ExpiredNamesNothing
<1>1. SessionInv /\ [SessionNext]_sessionVars =>
         [\A d \in Devices : labels'[d] # labels[d] =>
             \/ task["chat"].pc = "direct"
             \/ \E i \in Active : ~sessions[i].due]_sessionVars
  <2>1. SUFFICES ASSUME SessionInv, [SessionNext]_sessionVars,
                        NEW d \in Devices, labels'[d] # labels[d], task["chat"].pc # "direct"
                 PROVE  \E i \in Active : ~sessions[i].due
    OBVIOUS
  <2>2. QED
    BY <2>1, HowLabelsChange DEF Stale
<1>2. QED
  BY <1>1, SessionInvariance, PTL DEF SessionSpec, ExpiredNamesNothing

\* A name typed on the terminal goes to the device the CLI bound before it read
\* the line, whatever chat does meanwhile (run_cli_session, _expected_mismatch).
THEOREM CliNamesTheBound == SessionSpec => CliNamesWhatItBound
<1>1. SessionInv /\ [SessionNext]_sessionVars =>
         [\A d \in Devices : bound # 0 /\ labels'[d] # labels[d] /\ labels'[d][1] = "cli"
             => d = bound]_sessionVars
  <2>1. SUFFICES ASSUME SessionInv, [SessionNext]_sessionVars, NEW d \in Devices, bound # 0,
                        labels'[d] # labels[d], labels'[d][1] = "cli"
                 PROVE  d = bound
    OBVIOUS
  <2>2. labels'[d] \notin {<<"chat", d>>, Ignored, Unlabeled}
    BY <2>1 DEF Ignored, Unlabeled
  <2>3. PICK s \in Surfaces, i \in Active, meant \in 0..NumDevices :
          /\ ~Mismatch(s, i) /\ d = DeviceAt(i, sessions[i].cursor) /\ labels'[d] = <<s, meant>>
    BY <2>1, <2>2, HowLabelsChange
  <2>4. s = "cli"
    BY <2>1, <2>3
  <2>5. QED
    BY <2>1, <2>3, <2>4 DEF Mismatch
<1>2. QED
  BY <1>1, SessionInvariance, PTL DEF SessionSpec, CliNamesWhatItBound

-----------------------------------------------------------------------------
\* An update acts only on a session that does not remember it.

\* The update that chat handles, or is to handle next.
Handling == acked + batch.handled + 1

\* Past its duplicate check a handler of chat can reach no session that remembers
\* the update: not through the sessions ACTIVE now, not through the one it read.
ActInv ==
    LET chat == task["chat"]
    IN  /\ chat.pc \in {"route", "current", "apply"} =>
              \A i \in Active : sessions[i].last # Handling
        /\ chat.pc = "skip" => sessions[chat.sid].last # Handling

\* No step makes a session ACTIVE again, and a session comes to remember no update
\* but the one with this id (0: none), a new session none.
Moves(id) ==
    /\ DOMAIN sessions \subseteq DOMAIN sessions'
    /\ \A i \in DOMAIN sessions :
          /\ sessions'[i].status = "ACTIVE" => sessions[i].status = "ACTIVE"
          /\ sessions'[i].last \in {sessions[i].last, id}
    /\ \A i \in DOMAIN sessions' \ DOMAIN sessions : sessions'[i].last = 0

LEMMA AtHand ==
    ASSUME SessionInv
    PROVE  /\ Handling \in Nat \ {0}
           /\ task["cli"].id = 0
           /\ task["chat"].pc \notin {"idle", "down", "reply"} => task["chat"].id = Handling
<1>1. "chat" \in Surfaces /\ "cli" \in Surfaces
  BY DEF Surfaces
<1>2. Knows("chat", task["chat"]) /\ Knows("cli", task["cli"])
  BY <1>1 DEF SessionInv
<1>3. acked \in Nat /\ batch.handled \in Nat
  BY DEF SessionInv, QueueOK
<1>4. QED
  BY <1>2, <1>3 DEF Knows, Handling

LEMMA SessionReplaced ==
    ASSUME DataOK, NEW i \in DOMAIN sessions, NEW e, sessions' = [sessions EXCEPT ![i] = e],
           e.status = "ACTIVE" => sessions[i].status = "ACTIVE",
           NEW id, e.last \in {sessions[i].last, id}
    PROVE  Moves(id) /\ sessions'[i] = e
<1>1. DOMAIN sessions' = DOMAIN sessions
  OBVIOUS
<1>2. \A j \in DOMAIN sessions : sessions'[j] = IF j = i THEN e ELSE sessions[j]
  OBVIOUS
<1>3. QED
  BY <1>1, <1>2 DEF Moves

\* How a handler's step changes the sessions, and when it acts.
LEMMA HandlerActs ==
    ASSUME SessionInv, NEW s \in Surfaces, Handle(s)
    PROVE  /\ Moves(task[s].id) /\ UNCHANGED telegram
           /\ \/ used' = used
              \/ \E i \in DOMAIN sessions, position \in Nat :
                    /\ s = "chat" /\ used' = used \cup {<<task[s].id, i, position>>}
                    /\ sessions'[i].last = task[s].id
                    /\ \/ task[s].pc = "skip" /\ i = task[s].sid
                       \/ task[s].pc = "apply" /\ i \in Active
<1>1. DataOK /\ Knows(s, task[s]) /\ task[s].cursor \in Nat
  BY TaskFacts
<1>2. UNCHANGED telegram
  BY Zenon DEF Handle, Replay, Route, Direct, Expire, List, Create, Existing, Skip, Close, Apply,
               Advance, Move, Finish, Note
<1>3. ASSUME sessions' = sessions PROVE Moves(task[s].id)
  BY <1>3 DEF Moves
<1>4. CASE Replay(s) \/ Route(s) \/ Direct(s) \/ List(s) \/ Existing(s) \/ Advance(s)
  BY <1>2, <1>3, <1>4 DEF Replay, Route, Direct, List, Existing, Advance, database, history
<1>5. PICK i : i = task[s].sid
  OBVIOUS
<1>6. CASE Expire(s)
  <2>1. i \in DOMAIN sessions /\ used' = used
    BY <1>1, <1>5, <1>6 DEF Expire, Knows, Working, history
  <2>2. PICK e : e = [sessions[i] EXCEPT !.status = "EXPIRED"]
    OBVIOUS
  <2>3. e.status = "EXPIRED" /\ e.last = sessions[i].last /\ sessions' = [sessions EXCEPT ![i] = e]
    BY <1>1, <1>5, <1>6, <2>1, <2>2, SessionFacts DEF Expire, Session
  <2>4. QED
    BY <1>1, <1>2, <2>1, <2>3, SessionReplaced DEF Moves
<1>7. CASE Create(s)
  <2>1. used' = used
    BY <1>7 DEF Create, history
  <2>2. CASE sessions' = sessions
    BY <1>2, <1>3, <2>1, <2>2
  <2>3. ASSUME NEW e \in Session, e.last = 0, sessions' = Append(sessions, e)
        PROVE  Moves(task[s].id)
    <3>1. sessions \in Seq(Session) /\ Len(sessions) \in Nat /\ DOMAIN sessions = 1..Len(sessions)
      BY <1>1, LenProperties DEF DataOK
    <3>2. /\ sessions' \in Seq(Session) /\ Len(sessions') = Len(sessions) + 1
          /\ \A j \in 1..Len(sessions) : sessions'[j] = sessions[j]
          /\ sessions'[Len(sessions) + 1] = e
      BY <2>3, <3>1, AppendProperties
    <3>3. DOMAIN sessions' = 1..Len(sessions')
      BY <3>2, LenProperties
    <3>4. DOMAIN sessions' \ DOMAIN sessions = {Len(sessions) + 1}
      BY <3>1, <3>2, <3>3
    <3>5. QED
      BY <2>3, <3>1, <3>2, <3>3, <3>4 DEF Moves
  <2>4. [status |-> "ACTIVE", cursor |-> 0, ids |-> task[s].ids, last |-> 0, due |-> FALSE] \in Session
    BY TaskFacts DEF Session
  <2>5. QED
    BY <1>2, <1>7, <2>1, <2>2, <2>3, <2>4 DEF Create
<1>8. CASE Skip(s)
  <2>1. /\ i \in DOMAIN sessions /\ task[s].pc = "skip"
        /\ sessions' = [sessions EXCEPT ![i].cursor = Following(task[s].cursor),
                                        ![i].last = Remembered(s, i)]
        /\ Acts(s, i, task[s].cursor)
    BY <1>1, <1>5, <1>8 DEF Skip, Knows, Working
  <2>2. PICK e : e = [sessions[i] EXCEPT !.cursor = Following(task[s].cursor),
                                         !.last = Remembered(s, i)]
    OBVIOUS
  <2>3. /\ e.status = sessions[i].status /\ e.last = Remembered(s, i)
        /\ sessions' = [sessions EXCEPT ![i] = e]
    BY <1>1, <2>1, <2>2, SessionFacts DEF Session
  <2>4. Remembered(s, i) = IF task[s].id = 0 THEN sessions[i].last ELSE task[s].id
    BY DEF Remembered
  <2>5. Moves(task[s].id) /\ sessions'[i] = e
    <3>1. e.last \in {sessions[i].last, task[s].id}
      BY <2>3, <2>4
    <3>2. e.status = "ACTIVE" => sessions[i].status = "ACTIVE"
      BY <2>3
    <3>3. QED
      BY <1>1, <2>1, <2>3, <3>1, <3>2, SessionReplaced DEF Moves
  <2>6. CASE task[s].id # 0
    <3>1. used' = used \cup {<<task[s].id, i, task[s].cursor>>} /\ s = "chat"
      BY <1>1, <2>1, <2>6 DEF Acts, Knows, Surfaces
    <3>2. QED
      BY <1>1, <1>2, <1>5, <2>1, <2>3, <2>4, <2>5, <2>6, <3>1
  <2>7. CASE task[s].id = 0
    <3>1. used' = used
      BY <2>1, <2>7 DEF Acts
    <3>2. QED
      BY <1>2, <2>5, <3>1
  <2>8. QED
    BY <2>6, <2>7
<1>9. CASE Close(s)
  <2>1. /\ i \in DOMAIN sessions /\ task[s].pc = "close" /\ used' = used
        /\ sessions' = [sessions EXCEPT
              ![i].status = IF task[s].line.kind = "done" THEN "DONE" ELSE "CANCELLED",
              ![i].last = Remembered(s, i)]
    BY <1>1, <1>5, <1>9 DEF Close, Knows, Working
  <2>2. PICK e : e = [sessions[i] EXCEPT
              !.status = IF task[s].line.kind = "done" THEN "DONE" ELSE "CANCELLED",
              !.last = Remembered(s, i)]
    OBVIOUS
  <2>3. /\ e.status # "ACTIVE" /\ e.last = Remembered(s, i)
        /\ sessions' = [sessions EXCEPT ![i] = e]
    BY <1>1, <2>1, <2>2, SessionFacts DEF Session
  <2>4. Remembered(s, i) \in {task[s].id, sessions[i].last}
    BY DEF Remembered
  <2>5. Moves(task[s].id)
    <3>1. e.status = "ACTIVE" => sessions[i].status = "ACTIVE"
      BY <2>3
    <3>2. e.last \in {sessions[i].last, task[s].id}
      BY <2>3, <2>4
    <3>3. QED
      BY <1>1, <2>1, <2>3, <3>1, <3>2, SessionReplaced DEF Moves
  <2>6. QED
    BY <1>2, <2>1, <2>5
<1>10. CASE Apply(s)
  <2>1. task[s].pc = "apply"
    BY <1>10 DEF Apply
  <2>2. CASE UNCHANGED <<database, used>>
    BY <1>2, <1>3, <2>2 DEF database
  <2>3. CASE \E j \in Active : /\ sessions' = [sessions EXCEPT ![j].status = "EXPIRED"]
                               /\ used' = used
    <3>1. PICK j \in DOMAIN sessions : sessions' = [sessions EXCEPT ![j].status = "EXPIRED"]
      BY <2>3 DEF Active
    <3>2. PICK e : e = [sessions[j] EXCEPT !.status = "EXPIRED"]
      OBVIOUS
    <3>3. e.status = "EXPIRED" /\ e.last = sessions[j].last /\ sessions' = [sessions EXCEPT ![j] = e]
      BY <1>1, <3>1, <3>2, SessionFacts DEF Session
    <3>4. QED
      BY <1>1, <1>2, <2>3, <3>3, SessionReplaced DEF Moves
  <2>4. ASSUME NEW j \in Active, NEW from, NEW names, NEW last,
               last \in {sessions[j].last, task[s].id},
               NEW to, sessions' = [sessions EXCEPT ![j].status = to.status, ![j].cursor = to.cursor,
                                                    ![j].last = last]
        PROVE  Moves(task[s].id) /\ sessions'[j].last = last
    <3>1. j \in DOMAIN sessions /\ sessions[j].status = "ACTIVE"
      BY DEF Active
    <3>2. PICK e : e = [sessions[j] EXCEPT !.status = to.status, !.cursor = to.cursor, !.last = last]
      OBVIOUS
    <3>3. e.last = last /\ sessions' = [sessions EXCEPT ![j] = e]
      BY <1>1, <2>4, <3>1, <3>2, SessionFacts DEF Session
    <3>4. QED
      BY <1>1, <2>4, <3>1, <3>3, SessionReplaced DEF Moves
  <2>5. CASE \E j \in Active : /\ AnswerAdvanced(s, j, sessions[j].cursor, labels, sessions[j].last)
                               /\ used' = used
    <3>1. PICK j \in Active : AnswerAdvanced(s, j, sessions[j].cursor, labels, sessions[j].last)
      BY <2>5
    <3>2. PICK to : to = Advanced(j, sessions[j].cursor, labels)
      OBVIOUS
    <3>3. sessions' = [sessions EXCEPT ![j].status = to.status, ![j].cursor = to.cursor,
                                       ![j].last = sessions[j].last]
      BY <3>1, <3>2 DEF AnswerAdvanced
    <3>4. QED
      BY <1>2, <2>4, <2>5, <3>3
  <2>6. CASE \E j \in Active : Label(s, j)
    <3>1. PICK j \in Active : Label(s, j)
      BY <2>6
    <3>2. PICK position : position = sessions[j].cursor
      OBVIOUS
    <3>3. PICK from : from = IF DeviceAt(j, position) = 0 THEN position ELSE position + 1
      OBVIOUS
    <3>4. PICK to, last : to = Advanced(j, from, labels') /\ last = Remembered(s, j)
      OBVIOUS
    <3>5. sessions' = [sessions EXCEPT ![j].status = to.status, ![j].cursor = to.cursor,
                                       ![j].last = last]
      BY <3>1, <3>2, <3>3, <3>4 DEF Label, AnswerAdvanced
    <3>6. Acts(s, j, position)
      BY <3>1, <3>2 DEF Label
    <3>7. j \in DOMAIN sessions
      BY DEF Active
    <3>8. last = IF task[s].id = 0 THEN sessions[j].last ELSE task[s].id
      BY <3>4 DEF Remembered
    <3>9. Moves(task[s].id) /\ sessions'[j].last = last
      BY <2>4, <3>5, <3>8
    <3>10. position \in Nat
      BY <1>1, <3>2, <3>7, SessionFacts
    <3>11. CASE task[s].id # 0
      <4>1. used' = used \cup {<<task[s].id, j, position>>} /\ s = "chat"
        BY <1>1, <3>6, <3>11 DEF Acts, Knows, Surfaces
      <4>2. QED
        BY <1>2, <2>1, <3>7, <3>8, <3>9, <3>10, <3>11, <4>1
    <3>12. CASE task[s].id = 0
      <4>1. used' = used
        BY <3>6, <3>12 DEF Acts
      <4>2. QED
        BY <1>2, <3>9, <4>1
    <3>13. QED
      BY <3>11, <3>12
  <2>7. QED
    BY <1>10, <2>2, <2>3, <2>5, <2>6 DEF Apply
<1>11. CASE Move(s)
  <2>1. /\ i \in DOMAIN sessions /\ used' = used
        /\ sessions' = [sessions EXCEPT ![i].cursor = task[s].next]
    BY <1>1, <1>5, <1>11 DEF Move, Knows, Working, history
  <2>2. PICK e : e = [sessions[i] EXCEPT !.cursor = task[s].next]
    OBVIOUS
  <2>3. /\ e.status = sessions[i].status /\ e.last = sessions[i].last
        /\ sessions' = [sessions EXCEPT ![i] = e]
    BY <1>1, <2>1, <2>2, SessionFacts DEF Session
  <2>4. e.status = "ACTIVE" => sessions[i].status = "ACTIVE"
    BY <2>3
  <2>5. e.last \in {sessions[i].last, task[s].id}
    BY <2>3
  <2>6. Moves(task[s].id)
    BY <1>1, <2>1, <2>3, <2>4, <2>5, SessionReplaced DEF Moves
  <2>7. QED
    BY <1>2, <2>1, <2>6
<1>12. CASE Finish(s)
  <2>1. /\ i \in DOMAIN sessions /\ used' = used
        /\ sessions' = [sessions EXCEPT ![i].status = "DONE"]
    BY <1>1, <1>5, <1>12 DEF Finish, Knows, Working, history
  <2>2. PICK e : e = [sessions[i] EXCEPT !.status = "DONE"]
    OBVIOUS
  <2>3. /\ e.status = "DONE" /\ e.last = sessions[i].last
        /\ sessions' = [sessions EXCEPT ![i] = e]
    BY <1>1, <2>1, <2>2, SessionFacts DEF Session
  <2>4. e.status = "ACTIVE" => sessions[i].status = "ACTIVE"
    BY <2>3
  <2>5. e.last \in {sessions[i].last, task[s].id}
    BY <2>3
  <2>6. Moves(task[s].id)
    BY <1>1, <2>1, <2>3, <2>4, <2>5, SessionReplaced DEF Moves
  <2>7. QED
    BY <1>2, <2>1, <2>6
<1>13. CASE Note(s)
  <2>1. /\ i \in DOMAIN sessions /\ used' = used /\ task[s].pc = "note" /\ task[s].id # 0
        /\ sessions' = [sessions EXCEPT ![i].last = task[s].id]
    BY <1>1, <1>5, <1>13 DEF Note, Knows, Working, history
  <2>2. PICK e : e = [sessions[i] EXCEPT !.last = task[s].id]
    OBVIOUS
  <2>3. /\ e.status = sessions[i].status /\ e.last = task[s].id
        /\ sessions' = [sessions EXCEPT ![i] = e]
    BY <1>1, <2>1, <2>2, SessionFacts DEF Session
  <2>4. e.status = "ACTIVE" => sessions[i].status = "ACTIVE"
    BY <2>3
  <2>5. e.last \in {sessions[i].last, task[s].id}
    BY <2>3
  <2>6. Moves(task[s].id)
    BY <1>1, <2>1, <2>3, <2>4, <2>5, SessionReplaced DEF Moves
  <2>7. QED
    BY <1>2, <2>1, <2>6
<1>14. QED
  BY <1>4, <1>6, <1>7, <1>8, <1>9, <1>10, <1>11, <1>12, <1>13 DEF Handle

\* Where a handler's statement goes next.
LEMMA WhereTo ==
    ASSUME task \in [Surfaces -> Task], NEW s \in Surfaces
    PROVE  /\ \A prompt : Answer(s, prompt) => task'[s].pc = "reply"
           /\ StartOver(s) => task'[s].pc = "list"
           /\ \A pc : Goto(s, pc) => task'[s].pc = pc
           /\ \A i, pc : See(s, i, pc) => task'[s].pc = pc /\ task'[s].sid = i
<1>1. task[s] \in Task
  OBVIOUS
<1>2. ASSUME NEW prompt, Answer(s, prompt) PROVE task'[s].pc = "reply"
  BY <1>2 DEF Answer, Resting
<1>3. ASSUME StartOver(s) PROVE task'[s].pc = "list"
  BY <1>3 DEF StartOver, Resting
<1>4. ASSUME NEW pc, Goto(s, pc) PROVE task'[s].pc = pc
  BY <1>1, <1>4 DEF Goto, Task
<1>5. ASSUME NEW i, NEW pc, See(s, i, pc) PROVE task'[s].pc = pc /\ task'[s].sid = i
  BY <1>1, <1>5 DEF See, Seen, Task
<1>6. QED
  BY <1>2, <1>3, <1>4, <1>5

Ahead == {"route", "current", "apply", "skip"}

\* Between the duplicate check and the act a handler of chat only reads, and it
\* goes on to a session that was ACTIVE when it read it.
LEMMA ChatGoesOn ==
    ASSUME SessionInv, NEW s \in Surfaces, Handle(s)
    PROVE  \/ s = "cli" /\ task'["chat"] = task["chat"]
           \/ s = "chat" /\ task'["chat"].pc \notin Ahead
           \/ /\ s = "chat" /\ UNCHANGED <<sessions, used>>
              /\ \/ /\ task["chat"].pc = "replay" /\ task'["chat"].pc = "route"
                    /\ \A i \in Active : task["chat"].id = 0 \/ sessions[i].last # task["chat"].id
                 \/ /\ task["chat"].pc \in {"route", "current"}
                    /\ \/ task'["chat"].pc \in {"current", "apply"}
                       \/ task'["chat"].pc = "skip" /\ task'["chat"].sid \in Active
<1>1. task \in [Surfaces -> Task] /\ task[s] \in Task
  BY TaskFacts
<1>2. CASE s = "cli"
  <2>1. "chat" \in Surfaces
    BY DEF Surfaces
  <2>2. task'["chat"] = task["chat"]
    <3>0. /\ \A prompt : Answer(s, prompt) => task'["chat"] = task["chat"]
          /\ StartOver(s) => task'["chat"] = task["chat"]
          /\ \A pc : Goto(s, pc) => task'["chat"] = task["chat"]
          /\ \A i, pc : See(s, i, pc) => task'["chat"] = task["chat"]
      BY <1>1, <1>2, <2>1 DEF Answer, StartOver, Goto, See, Seen
    <3>1. CASE Replay(s)
      <4>1. ASSUME NEW i, NEW pc, task' = [Seen(s, i, pc) EXCEPT ![s].line.kind = "replay"]
            PROVE  task'["chat"] = task["chat"]
        BY <1>1, <1>2, <2>1, <4>1 DEF Seen
      <4>2. QED
        BY <3>0, <3>1, <4>1 DEF Replay
    <3>2. CASE Route(s)
      BY <3>0, <3>2, Zenon DEF Route, ForSession, WithoutSession, Elsewhere
    <3>3. CASE Direct(s) \/ Expire(s) \/ List(s)
      BY <1>1, <1>2, <2>1, <3>0, <3>3 DEF Direct, Expire, List
    <3>4. CASE Create(s) \/ Existing(s)
      BY <1>1, <1>2, <2>1, <3>0, <3>4 DEF Create, Existing, CliEnd
    <3>5. CASE Skip(s) \/ Close(s)
      BY <1>1, <1>2, <2>1, <3>0, <3>5 DEF Skip, Close
    <3>6. CASE Apply(s)
      BY <3>0, <3>6, Zenon DEF Apply, AnswerAdvanced, Label
    <3>7. CASE Advance(s) \/ Move(s)
      BY <1>1, <1>2, <2>1, <3>0, <3>7 DEF Advance, Move, Prompt
    <3>8. CASE Finish(s) \/ Note(s)
      BY <1>1, <1>2, <2>1, <3>0, <3>8 DEF Finish, Note, Prompt
    <3>9. QED
      BY <3>1, <3>2, <3>3, <3>4, <3>5, <3>6, <3>7, <3>8, Zenon DEF Handle
  <2>3. QED
    BY <1>2, <2>2
<1>3. CASE s = "chat"
  <2>1. /\ \A prompt : Answer(s, prompt) => task'[s].pc \notin Ahead
        /\ StartOver(s) => task'[s].pc \notin Ahead
        /\ \A pc : Goto(s, pc) => task'[s].pc = pc
        /\ \A i, pc : See(s, i, pc) => task'[s].pc = pc /\ task'[s].sid = i
    BY <1>1, WhereTo DEF Ahead
  <2>2. CASE Replay(s)
    <3>1. ASSUME NEW i, NEW pc \in {"expire", "advance"},
                 task' = [Seen(s, i, pc) EXCEPT ![s].line.kind = "replay"]
          PROVE  task'[s].pc = pc
      BY <1>1, <3>1 DEF Seen, Task
    <3>2. CASE task'[s].pc \in {"expire", "advance"}
      BY <1>3, <3>2 DEF Ahead
    <3>3. CASE /\ \A i \in Active : task[s].id = 0 \/ sessions[i].last # task[s].id
               /\ Goto(s, "route")
      BY <1>3, <2>1, <2>2, <3>3 DEF Replay, Ahead, database, history
    <3>4. QED
      BY <2>2, <3>1, <3>2, <3>3 DEF Replay
  <2>3. CASE Route(s)
    <3>1. task[s].pc \in {"route", "current"} /\ UNCHANGED <<sessions, used>>
      BY <2>3 DEF Route, database, history
    <3>2. CASE Elsewhere(s) \/ WithoutSession(s, task[s].line)
      BY <1>3, <2>1, <3>2 DEF Elsewhere, WithoutSession, Ahead
    <3>3. CASE Goto(s, "current")
      BY <1>3, <2>1, <3>1, <3>3
    <3>4. CASE \E i \in Active : See(s, i, "expire") \/ ForSession(s, i, task[s].line)
      BY <1>3, <2>1, <3>1, <3>4 DEF ForSession, Ahead
    <3>5. QED
      BY <2>3, <3>2, <3>3, <3>4 DEF Route
  <2>4. CASE Direct(s) \/ Expire(s) \/ Existing(s) \/ Close(s)
    BY <1>3, <2>1, <2>4 DEF Direct, Expire, Existing, Close, Ahead
  <2>5. CASE List(s)
    <3>1. ASSUME NEW ids, task' = [task EXCEPT ![s].pc = "create", ![s].ids = ids]
          PROVE  task'[s].pc = "create"
      BY <1>1, <3>1 DEF Task
    <3>2. QED
      BY <1>3, <2>1, <2>5, <3>1 DEF List, Ahead
  <2>6. CASE Create(s)
    <3>1. CASE Answer(s, 0)
      BY <1>3, <2>1, <3>1
    <3>2. CASE task' = [task EXCEPT ![s].pc = "advance", ![s].sid = Len(sessions) + 1,
                                    ![s].cursor = 0, ![s].next = 0, ![s].ids = << >>]
      <4>1. task'[s].pc = "advance"
        BY <1>1, <3>2 DEF Task
      <4>2. QED
        BY <1>3, <4>1 DEF Ahead
    <3>3. CASE task' = [task EXCEPT ![s].pc = "existing", ![s].ids = << >>]
      <4>1. task'[s].pc = "existing"
        BY <1>1, <3>3 DEF Task
      <4>2. QED
        BY <1>3, <4>1 DEF Ahead
    <3>4. QED
      BY <2>6, <3>1, <3>2, <3>3 DEF Create
  <2>7. CASE Skip(s)
    <3>1. PICK to : task' = [task EXCEPT ![s].pc = "advance", ![s].cursor = to, ![s].next = to]
      BY <2>7 DEF Skip
    <3>2. task'[s].pc = "advance"
      BY <1>1, <3>1 DEF Task
    <3>3. QED
      BY <1>3, <3>2 DEF Ahead
  <2>8. CASE Apply(s)
    <3>1. \E prompt : Answer(s, prompt)
      BY <2>8, Zenon DEF Apply, AnswerAdvanced, Label
    <3>2. QED
      BY <1>3, <2>1, <3>1
  <2>9. CASE Advance(s)
    <3>1. ASSUME NEW n, task' = [task EXCEPT ![s].pc = "move", ![s].next = n]
          PROVE  task'[s].pc = "move"
      BY <1>1, <3>1 DEF Task
    <3>2. ASSUME task' = [task EXCEPT ![s].pc = "note"] PROVE task'[s].pc = "note"
      BY <1>1, <3>2 DEF Task
    <3>3. QED
      BY <1>3, <2>1, <2>9, <3>1, <3>2 DEF Advance, Prompt, Ahead
  <2>10. CASE Move(s) \/ Finish(s) \/ Note(s)
    <3>1. ASSUME task' = [task EXCEPT ![s].pc = "note"] PROVE task'[s].pc = "note"
      BY <1>1, <3>1 DEF Task
    <3>2. QED
      BY <1>3, <2>1, <2>10, <3>1 DEF Move, Finish, Note, Prompt, Ahead
  <2>11. QED
    BY <2>2, <2>3, <2>4, <2>5, <2>6, <2>7, <2>8, <2>9, <2>10 DEF Handle
<1>4. QED
  BY <1>2, <1>3 DEF Surfaces

\* A step that leaves chat where it is, or takes it elsewhere than to an act.
LEMMA StaysUnremembered ==
    ASSUME SessionInv, ActInv, Moves(0), UNCHANGED telegram, task'["chat"] = task["chat"]
    PROVE  ActInv'
<1>1. Handling' = Handling /\ Handling # 0
  BY AtHand DEF Handling, telegram
<1>2. \A i \in DOMAIN sessions : sessions[i].last # Handling => sessions'[i].last # Handling
  BY <1>1 DEF Moves
<1>3. ASSUME task["chat"].pc \in {"route", "current", "apply"}, NEW i \in Active'
      PROVE  sessions'[i].last # Handling
  <2>1. i \in DOMAIN sessions' /\ sessions'[i].status = "ACTIVE"
    BY DEF Active
  <2>2. CASE i \in DOMAIN sessions
    BY <1>2, <1>3, <2>1, <2>2 DEF ActInv, Active, Moves
  <2>3. CASE i \notin DOMAIN sessions
    BY <1>1, <2>1, <2>3 DEF Moves
  <2>4. QED
    BY <2>2, <2>3
<1>4. ASSUME task["chat"].pc = "skip"
      PROVE  sessions'[task["chat"].sid].last # Handling
  <2>1. task["chat"].sid \in DOMAIN sessions
    <3>1. Knows("chat", task["chat"])
      BY DEF SessionInv, Surfaces
    <3>2. QED
      BY <1>4, <3>1 DEF Knows, Working
  <2>2. QED
    BY <1>2, <1>4, <2>1 DEF ActInv
<1>5. QED
  BY <1>1, <1>3, <1>4 DEF ActInv

LEMMA ElsewhereUnremembered ==
    ASSUME task'["chat"].pc \notin Ahead
    PROVE  ActInv'
BY DEF ActInv, Ahead

LEMMA HandleUnremembered ==
    ASSUME SessionInv, ActInv, NEW s \in Surfaces, Handle(s)
    PROVE  ActInv'
<1>1. Moves(task[s].id) /\ UNCHANGED telegram /\ Handling' = Handling
  BY HandlerActs DEF Handling, telegram
<1>2. CASE s = "cli" /\ task'["chat"] = task["chat"]
  BY <1>1, <1>2, AtHand, StaysUnremembered
<1>3. CASE task'["chat"].pc \notin Ahead
  BY <1>3, ElsewhereUnremembered
<1>4. CASE /\ s = "chat" /\ sessions' = sessions
           /\ task["chat"].pc = "replay" /\ task'["chat"].pc = "route"
           /\ \A i \in Active : task["chat"].id = 0 \/ sessions[i].last # task["chat"].id
  <2>1. \A i \in Active : sessions[i].last # Handling
    BY <1>4, AtHand
  <2>2. QED
    BY <1>1, <1>4, <2>1 DEF ActInv, Active
<1>5. CASE /\ s = "chat" /\ sessions' = sessions
           /\ task["chat"].pc \in {"route", "current"}
           /\ \/ task'["chat"].pc \in {"current", "apply"}
              \/ task'["chat"].pc = "skip" /\ task'["chat"].sid \in Active
  <2>1. \A i \in Active : sessions[i].last # Handling
    BY <1>5 DEF ActInv
  <2>2. QED
    BY <1>1, <1>5, <2>1 DEF ActInv, Active
<1>6. QED
  BY <1>2, <1>3, <1>4, <1>5, ChatGoesOn

\* The queue at Telegram, the loop and the terminal.
LEMMA OthersUnremembered ==
    ASSUME SessionInv, ActInv, SessionNext, \A s \in Surfaces : ~Handle(s)
    PROVE  ActInv' /\ used' = used
<1>1. used' = used
  <2>1. "chat" \in Surfaces /\ "cli" \in Surfaces
    BY DEF Surfaces
  <2>2. CASE Chat
    BY <2>1, <2>2 DEF Chat, Poll, Yield, ChatReply, history
  <2>3. CASE Cli
    BY <2>1, <2>3 DEF Cli, CliStart, CliLook, CliStop, CliRead, history
  <2>4. QED
    BY <2>2, <2>3 DEF SessionNext, Send, Crash, Restart, TimeBoxPasses, history
<1>2. task \in [Surfaces -> Task] /\ "chat" \in Surfaces /\ "cli" \in Surfaces
  BY TaskFacts DEF Surfaces
<1>3. ASSUME sessions' = sessions PROVE Moves(0)
  BY <1>3 DEF Moves
<1>4. CASE Poll
  <2>1. task'["chat"].pc \notin Ahead
    BY <1>4 DEF Poll, Ahead
  <2>2. QED
    BY <1>1, <2>1, ElsewhereUnremembered
<1>5. CASE Yield
  <2>1. PICK line, id : task' = [task EXCEPT !["chat"].pc = "replay", !["chat"].line = line,
                                             !["chat"].id = id]
    BY <1>5 DEF Yield
  <2>2. task'["chat"].pc = "replay"
    BY <1>2, <2>1 DEF Task
  <2>3. task'["chat"].pc \notin Ahead
    BY <2>2 DEF Ahead
  <2>4. QED
    BY <1>1, <2>3, ElsewhereUnremembered
<1>6. CASE ChatReply \/ Crash \/ Restart
  <2>1. task'["chat"].pc \in {"idle", "down"}
    BY <1>2, <1>6 DEF ChatReply, Crash, Restart, Resting
  <2>2. task'["chat"].pc \notin Ahead
    BY <2>1 DEF Ahead
  <2>3. QED
    BY <1>1, <2>2, ElsewhereUnremembered
<1>7. CASE \E line \in Lines : Send(line)
  <2>1. sessions' = sessions /\ task' = task /\ Handling' = Handling
    BY <1>7 DEF Send, database, Handling
  <2>2. QED
    BY <1>1, <2>1 DEF ActInv, Active
<1>8. CASE CliStart \/ CliLook \/ CliStop \/ \E line \in Lines : CliRead(line)
  <2>1. task'["chat"] = task["chat"]
    BY <1>2, <1>8 DEF CliStart, CliLook, CliStop, CliRead, CliEnd
  <2>2. sessions' = sessions /\ UNCHANGED telegram
    BY <1>8 DEF CliStart, CliLook, CliStop, CliRead, database
  <2>3. Moves(0)
    BY <1>3, <2>2
  <2>4. QED
    BY <1>1, <2>1, <2>2, <2>3, StaysUnremembered
<1>9. CASE \E i \in DOMAIN sessions : TimeBoxPasses(i)
  <2>1. PICK i \in DOMAIN sessions : TimeBoxPasses(i)
    BY <1>9
  <2>2. PICK e : e = [sessions[i] EXCEPT !.due = TRUE]
    OBVIOUS
  <2>3. /\ sessions' = [sessions EXCEPT ![i] = e]
        /\ e.status = sessions[i].status /\ e.last = sessions[i].last
        /\ task' = task /\ UNCHANGED telegram /\ DataOK
    BY <2>1, <2>2, TaskFacts, <1>2, SessionFacts DEF TimeBoxPasses, Session
  <2>4. e.last \in {sessions[i].last, 0}
    BY <2>3
  <2>5. e.status = "ACTIVE" => sessions[i].status = "ACTIVE"
    BY <2>3
  <2>6. Moves(0)
    BY <2>3, <2>4, <2>5, SessionReplaced DEF Moves
  <2>7. QED
    BY <1>1, <2>3, <2>6, StaysUnremembered
<1>10. QED
  BY <1>1, <1>2, <1>4, <1>5, <1>6, <1>7, <1>8, <1>9 DEF SessionNext, Chat, Cli

\* For batches of any size, an update acts on a session only while it is
\* unconfirmed and the session does not remember it, and then the session does,
\* however often it is redelivered and whatever the terminal did since the
\* handler looked (_replay_if_duplicate, last_message_id).
THEOREM UnrememberedActs == SessionSpec => OnlyUnrememberedUpdatesAct
<1> DEFINE Fresh(a) == /\ a[1] = acked + batch.handled + 1
                       /\ sessions[a[2]].last # a[1] /\ sessions'[a[2]].last = a[1]
<1>1. SessionInit => ActInv
  BY DEF SessionInit, Resting, Surfaces, ActInv
<1>2. SessionInv /\ ActInv /\ [SessionNext]_sessionVars => ActInv'
  <2>1. SUFFICES ASSUME SessionInv, ActInv, [SessionNext]_sessionVars PROVE ActInv'
    OBVIOUS
  <2>2. CASE UNCHANGED sessionVars
    BY <2>1, <2>2 DEF sessionVars, database, telegram, ActInv, Active, Handling
  <2>3. CASE \E s \in Surfaces : Handle(s)
    BY <2>1, <2>3, HandleUnremembered
  <2>4. QED
    BY <2>1, <2>2, <2>3, OthersUnremembered
<1>3. SessionInv /\ ActInv /\ [SessionNext]_sessionVars => [\A a \in used' \ used : Fresh(a)]_sessionVars
  <2>1. SUFFICES ASSUME SessionInv, ActInv, SessionNext, NEW a \in used' \ used PROVE Fresh(a)
    OBVIOUS
  <2>2. PICK s \in Surfaces : Handle(s)
    BY <2>1, OthersUnremembered
  <2>3. PICK i \in DOMAIN sessions, position \in Nat :
          /\ s = "chat" /\ used' = used \cup {<<task[s].id, i, position>>}
          /\ sessions'[i].last = task[s].id
          /\ \/ task[s].pc = "skip" /\ i = task[s].sid
             \/ task[s].pc = "apply" /\ i \in Active
    BY <2>1, <2>2, HandlerActs
  <2>4. task["chat"].id = Handling
    BY <2>1, <2>3, AtHand
  <2>5. sessions[i].last # Handling
    BY <2>1, <2>3 DEF ActInv
  <2>6. a = <<Handling, i, position>>
    BY <2>1, <2>3, <2>4
  <2>7. QED
    BY <2>3, <2>4, <2>5, <2>6 DEF Handling
<1>4. QED
  BY <1>1, <1>2, <1>3, SessionInvariance, PTL DEF SessionSpec, OnlyUnrememberedUpdatesAct

=============================================================================
