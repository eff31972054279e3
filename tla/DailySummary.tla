---------------------------- MODULE DailySummary ----------------------------
(***************************************************************************)
(* The daily digest (summary.py) beside the scan loop that fills the       *)
(* tables it reads. Both take SQLite's write lock for their transaction.   *)
(* What matters is which stamp a row carries and when it commits: an       *)
(* observation is stamped when the advertisement was heard, before its     *)
(* cycle asks for the lock; a presence transition is stamped under it.     *)
(*                                                                         *)
(* Time is a count of instants, DayLength to the UTC day. Each cycle hears *)
(* one advertisement and records one transition, named by the cycle.       *)
(***************************************************************************)
EXTENDS Integers, Sequences

CONSTANTS
    DayLength,
    Hour,           \* hour_utc, in instants of the day
    Horizon,        \* bound: the last instant of the model
    MaxCycles,      \* bound: scan cycles
    MaxStepsBack    \* bound: how often the wall clock is set back

ASSUME SummaryAssumption ==
    /\ DayLength \in Nat \ {0} /\ Hour \in 0..(DayLength - 1)
    /\ Horizon \in Nat /\ Horizon >= DayLength
    /\ MaxCycles \in Nat /\ MaxStepsBack \in Nat

VARIABLES
    now,            \* time.time()
    stepsBack,      \* how often it was set back so far
    lock,           \* who holds the write lock
    scan,           \* the scan loop: where it is, its cycle, its stamps
    observations,   \* committed <<cycle, observed_at>>
    transitions,    \* committed <<cycle, occurred_at>>
    summary,        \* the summary task: where it is, its now under the lock
    marker,         \* daily_summary.last_sent (Never: unset)
    digests         \* the digests enqueued

vars == <<now, stepsBack, lock, scan, observations, transitions, summary, marker, digests>>
tables == <<observations, transitions, marker, digests>>

Never   == -DayLength - 1
Instant == 0..Horizon
Date(t) == t \div DayLength
Rows    == (1..MaxCycles) \X Instant

\* The two tasks between their rounds.
Idle(cycle) == [pc |-> "idle", cycle |-> cycle, heard |-> 0, decided |-> 0]
Asleep      == [pc |-> "idle", at |-> 0]

\* is_due: the hour has come and the last digest was on an earlier day. Mutants:
\* any digest but one at this very moment; the exact hour only.
IsDueAgain(t, last)  == t % DayLength >= Hour /\ (last = Never \/ t > last)
IsDueOnTime(t, last) == t % DayLength = Hour /\ (last = Never \/ Date(t) > Date(last))
IsDue(t, last)       == t % DayLength >= Hour /\ (last = Never \/ Date(t) > Date(last))

-----------------------------------------------------------------------------
\* run_cycle, as far as it stamps and commits rows.

Scan ==
    /\ scan.pc = "idle" /\ scan.cycle < MaxCycles
    /\ scan' = [pc |-> "scanned", cycle |-> scan.cycle + 1, heard |-> now, decided |-> now]
    /\ UNCHANGED <<now, stepsBack, lock, summary, tables>>

ScanBegin ==
    /\ scan.pc = "scanned" /\ lock = "free"
    /\ lock' = "scan" /\ scan' = [scan EXCEPT !.pc = "resolving"]
    /\ UNCHANGED <<now, stepsBack, summary, tables>>

\* Mutant: the transitions get the cycle's stamp from before the lock.
ScanDecideEarly ==
    /\ scan.pc = "resolving"
    /\ scan' = [scan EXCEPT !.pc = "writing"]
    /\ UNCHANGED <<now, stepsBack, lock, summary, tables>>

\* occurred_at = iso_utc(now())
ScanDecide ==
    /\ scan.pc = "resolving"
    /\ scan' = [scan EXCEPT !.pc = "writing", !.decided = now]
    /\ UNCHANGED <<now, stepsBack, lock, summary, tables>>

ScanCommit ==
    /\ scan.pc = "writing"
    /\ observations' = observations \cup {<<scan.cycle, scan.heard>>}
    /\ transitions' = transitions \cup {<<scan.cycle, scan.decided>>}
    /\ scan' = Idle(scan.cycle) /\ lock' = "free"
    /\ UNCHANGED <<now, stepsBack, summary, marker, digests>>

-----------------------------------------------------------------------------
\* tick

\* The peek without the lock.
Peek ==
    /\ summary.pc = "idle" /\ IsDue(now, marker)
    /\ summary' = [summary EXCEPT !.pc = "due"]
    /\ UNCHANGED <<now, stepsBack, lock, scan, tables>>

\* Under the lock: now and the marker are read again.
DigestBegin ==
    /\ summary.pc = "due" /\ lock = "free"
    /\ lock' = "summary" /\ summary' = [pc |-> "checking", at |-> now]
    /\ UNCHANGED <<now, stepsBack, scan, tables>>

DigestSkip ==
    /\ summary.pc = "checking" /\ ~IsDue(summary.at, marker)
    /\ summary' = Asleep /\ lock' = "free"
    /\ UNCHANGED <<now, stepsBack, scan, tables>>

\* Mutant: the window is open at both ends.
BetweenExclusive(rows, start, end) == {r \in rows : start < r[2] /\ r[2] < end}
Between(rows, start, end) == {r \in rows : start <= r[2] /\ r[2] < end}

\* The digest covers [last_sent, now), the first one a day.
Start(at) == IF marker = Never THEN at - DayLength ELSE marker

\* render_summary, enqueue, the marker, COMMIT.
DigestCommit ==
    /\ summary.pc = "checking" /\ IsDue(summary.at, marker)
    /\ LET end == summary.at
           start == Start(end)
       IN  /\ digests' = Append(digests,
                  [start |-> start, end |-> end,
                   seen |-> Between(observations, start, end),
                   roster |-> Between(transitions, start, end)])
           /\ marker' = end
    /\ summary' = Asleep /\ lock' = "free"
    /\ UNCHANGED <<now, stepsBack, scan, observations, transitions>>

-----------------------------------------------------------------------------

Tick ==
    /\ now < Horizon /\ now' = now + 1
    /\ UNCHANGED <<stepsBack, lock, scan, summary, tables>>

ClockSteppedBack(t) ==
    /\ stepsBack < MaxStepsBack /\ t < now
    /\ now' = t /\ stepsBack' = stepsBack + 1
    /\ UNCHANGED <<lock, scan, summary, tables>>

\* The daemon dies and is started again: open transactions are rolled back.
Die ==
    /\ scan.pc # "idle" \/ summary.pc # "idle"
    /\ scan' = Idle(scan.cycle) /\ summary' = Asleep
    /\ lock' = "free"
    /\ UNCHANGED <<now, stepsBack, tables>>

Init ==
    /\ now \in 0..(DayLength - 1) /\ stepsBack = 0 /\ lock = "free"
    /\ scan = Idle(0)
    /\ observations = {} /\ transitions = {}
    /\ summary = Asleep /\ marker = Never /\ digests = << >>

Cycle  == Scan \/ ScanBegin \/ ScanDecide \/ ScanCommit
Digest == Peek \/ DigestBegin \/ DigestSkip \/ DigestCommit

Next == Cycle \/ Digest \/ Tick \/ Die \/ \E t \in Instant : ClockSteppedBack(t)

\* Both tasks run while the daemon does. The scan loop holds the lock for a
\* fraction of its interval and SQLite retries BEGIN meanwhile (busy_timeout),
\* so a task that keeps asking gets the lock.
Spec == Init /\ [][Next]_vars /\ WF_vars(Cycle) /\ WF_vars(Digest) /\ SF_vars(DigestBegin)

-----------------------------------------------------------------------------

Digests == DOMAIN digests

TypeOK ==
    /\ now \in Instant /\ stepsBack \in 0..MaxStepsBack
    /\ scan \in [pc: {"idle", "scanned", "resolving", "writing"}, cycle: 0..MaxCycles,
                 heard: Instant, decided: Instant]
    /\ scan.pc # "idle" => scan.cycle >= 1
    /\ summary \in [pc: {"idle", "due", "checking"}, at: Instant]
    /\ lock \in {"free", "scan", "summary"}
    /\ lock = "scan" <=> scan.pc \in {"resolving", "writing"}
    /\ lock = "summary" <=> summary.pc = "checking"
    /\ observations \subseteq Rows /\ transitions \subseteq Rows
    /\ marker \in {Never} \cup Instant
    /\ digests \in Seq([start: (-DayLength)..Horizon, end: Instant,
                        seen: SUBSET Rows, roster: SUBSET Rows])

\* "Once per UTC day": through restarts between the peek and the commit, waits
\* for the lock across midnight and a clock that is set back (is_due, tick).
OneDigestPerDay ==
    \A m, n \in Digests : m < n => Date(digests[m].end) < Date(digests[n].end)

\* As long as the clock is not set back, every transition on record before the
\* marker is in exactly one digest's roster (occurred_at is stamped under the
\* lock, the window's end too).
TransitionsAreReportedOnce ==
    stepsBack = 0 /\ marker # Never =>
        \A t \in transitions : digests[1].start <= t[2] /\ t[2] < marker =>
            \E n \in Digests : \A m \in Digests : t \in digests[m].roster <=> m = n

\* The snapshot is taken under the lock lest "observations stamped with
\* advertisement time would otherwise fall before last_sent and vanish from the
\* next digest" (tick): every observation on record before the marker was seen.
ObservationsAreReported ==
    stepsBack = 0 /\ marker # Never =>
        \A o \in observations : digests[1].start <= o[2] /\ o[2] < marker =>
            \E n \in Digests : o \in digests[n].seen

\* What the lock does give: an observation that vanished was stamped before the
\* digest and committed by the one cycle that was in flight then.
OnlyTheCycleInFlightVanishes ==
    stepsBack = 0 => \A n \in Digests :
        LET missed == {o \in observations :
                           /\ digests[n].start <= o[2] /\ o[2] < digests[n].end
                           /\ o \notin digests[n].seen}
        IN  \A o, p \in missed : o = p

\* Past the hour, the day's digest is sent once the daemon stays up, unless the
\* day ends or the clock is set back first (run_summary_loop).
DigestIsSent ==
    <>[][~Die]_vars => \A day \in 0..Date(Horizon) :
        LET owed == /\ Date(now) = day /\ now % DayLength >= Hour
                    /\ marker = Never \/ Date(marker) < day
        IN  owed ~> ~owed

=============================================================================
