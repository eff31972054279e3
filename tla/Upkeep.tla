------------------------------- MODULE Upkeep -------------------------------
(***************************************************************************)
(* What the scan loop does once a UTC day after a commit: it prunes the    *)
(* band counts (WindowBandCountRepository) and rebuilds what the inside    *)
(* detector leaves out, the familiar set and the operator's own rotating   *)
(* gear (familiar.py, inside.py). The markers of "done today" are in the   *)
(* database, the sets in memory; the boot builds the sets as well.         *)
(*                                                                         *)
(* Every statement is a step: the process may die between any two, and     *)
(* other connections label and unlabel devices meanwhile. Time is a count  *)
(* of instants, DayLength to the UTC day, and does not go back. A cycle's  *)
(* own transaction takes no time.                                          *)
(***************************************************************************)
EXTENDS Integers, FiniteSets

CONSTANTS
    Devices,        \* device ids
    Stable,         \* those whose addresses are public or static
    MinDays,        \* FAMILIAR_MIN_DAYS
    MaxPool,        \* FAMILIAR_MAX_DEVICES
    Retention,      \* _WINDOW_BAND_COUNT_RETENTION_DAYS
    DayLength,
    Horizon,        \* bound: the last instant of the model
    MaxCycles,      \* bound: scan cycles
    MaxLabelings    \* bound: labels set or removed

ASSUME UpkeepAssumption ==
    /\ Devices \subseteq Nat /\ IsFiniteSet(Devices) /\ Stable \subseteq Devices
    /\ {MinDays, MaxPool, Retention, DayLength} \subseteq Nat \ {0}
    /\ {Horizon, MaxCycles, MaxLabelings} \subseteq Nat

VARIABLES
    now,            \* time.time()
    cycles,         \* scan cycles so far
    labelings,      \* labels set or removed so far
    label,          \* per device: whether it has one; history: since which day
    observations,   \* <<device, day>>
    counts,         \* window_band_counts: observed_at
    retained,       \* window_band_counts.last_retention (Never: unset)
    refreshed,      \* familiar.last_refresh
    familiar,       \* FamiliarSet
    gear,           \* own_rotating_gear
    job             \* the scan loop: where it is, its locals, the last now of each duty

others == <<labelings, label>>
tables == <<observations, counts>>
markers == <<retained, refreshed>>
sets == <<familiar, gear>>
vars == <<now, cycles, others, tables, markers, sets, job>>

Never == -1
Day(t) == t \div DayLength

\* A process before its sets are built, and the loop between two cycles.
Booting == [pc |-> "labels", boot |-> TRUE, read |-> {}, retain |-> Never, refresh |-> Never]
At(pc) == job' = [job EXCEPT !.pc = pc]

IsDue(marker) == marker = Never \/ Day(marker) # Day(now)

-----------------------------------------------------------------------------
\* The queries.

Labeled == {d \in Devices : label[d].on}

Days(d) == Cardinality({o \in observations : o[1] = d})

\* list_devices_by_distinct_days: most days first, then the smaller id.
Before(d, e) == Days(d) > Days(e) \/ (Days(d) = Days(e) /\ d < e)

Pool(labeled) ==
    LET seen == {d \in Devices \ labeled : Days(d) >= MinDays}
    IN  {d \in seen : Cardinality({e \in seen : Before(e, d)}) < MaxPool}

\* list_unlabeled_rpa_ids_coobserved_with
SeenTogether(d, e) == \E o \in observations : o[1] = d /\ <<e, o[2]>> \in observations

Shards(anchors) ==
    {d \in Devices \ (Labeled \cup Stable) : \E a \in anchors : SeenTogether(d, a)}

-----------------------------------------------------------------------------
\* run_cycle's transaction, as far as the upkeep reads it, and the look at the
\* marker that follows it (run_retention_if_due).
Cycle ==
    /\ job.pc = "idle" /\ cycles < MaxCycles /\ cycles' = cycles + 1
    /\ \E heard \in SUBSET Devices :
          observations' = observations \cup {<<d, Day(now)>> : d \in heard}
    /\ counts' = counts \cup {now}
    /\ job' = [job EXCEPT !.pc = IF IsDue(retained) THEN "delete" ELSE "refresh", !.retain = now]
    /\ UNCHANGED <<now, others, markers, sets>>

\* _retention_cutoff
Cutoff(t) == t - Retention * DayLength

\* Mutant: the marker is set first.
DeleteMarked ==
    /\ job.pc = "delete"
    /\ \/ retained # job.retain /\ retained' = job.retain /\ UNCHANGED <<counts, job>>
       \/ /\ retained = job.retain
          /\ counts' = {t \in counts : t >= Cutoff(job.retain)}
          /\ At("stamp") /\ UNCHANGED retained
    /\ UNCHANGED <<now, cycles, others, observations, refreshed, sets>>

\* Rows are deleted by the now of that look, and the marker is set to it.
Delete ==
    /\ job.pc = "delete"
    /\ counts' = {t \in counts : t >= Cutoff(job.retain)}
    /\ At("stamp")
    /\ UNCHANGED <<now, cycles, others, observations, markers, sets>>

Stamp ==
    /\ job.pc = "stamp" /\ retained' = job.retain /\ At("refresh")
    /\ UNCHANGED <<now, cycles, others, tables, refreshed, sets>>

\* refresh_if_due
Refresh ==
    /\ job.pc = "refresh"
    /\ job' = [job EXCEPT !.pc = IF IsDue(refreshed) THEN "labels" ELSE "idle", !.refresh = now]
    /\ UNCHANGED <<now, cycles, others, tables, markers, sets>>

\* build_familiar_device_ids: two queries, ...
ReadLabels ==
    /\ job.pc = "labels" /\ job' = [job EXCEPT !.pc = "pool", !.read = Labeled]
    /\ UNCHANGED <<now, cycles, others, tables, markers, sets>>

\* ... then the set is replaced.
Build ==
    /\ job.pc = "pool"
    /\ familiar' = job.read \cup Pool(job.read)
    /\ job' = [job EXCEPT !.pc = IF job.boot THEN "anchors" ELSE "mark", !.read = {}]
    /\ UNCHANGED <<now, cycles, others, tables, markers, gear>>

Mark ==
    /\ job.pc = "mark" /\ refreshed' = job.refresh /\ At("anchors")
    /\ UNCHANGED <<now, cycles, others, tables, retained, sets>>

\* build_own_rotating_gear_device_ids: two queries, then the set is replaced.
ReadAnchors ==
    /\ job.pc = "anchors" /\ job' = [job EXCEPT !.pc = "shards", !.read = Labeled]
    /\ UNCHANGED <<now, cycles, others, tables, markers, sets>>

\* Mutant: the gear is built at boot only.
ReplaceAtBoot ==
    /\ job.pc = "shards"
    /\ gear' = IF job.boot THEN Shards(job.read) ELSE gear
    /\ job' = [job EXCEPT !.pc = "idle", !.boot = FALSE, !.read = {}]
    /\ UNCHANGED <<now, cycles, others, tables, markers, familiar>>

Replace ==
    /\ job.pc = "shards"
    /\ gear' = Shards(job.read)
    /\ job' = [job EXCEPT !.pc = "idle", !.boot = FALSE, !.read = {}]
    /\ UNCHANGED <<now, cycles, others, tables, markers, familiar>>

\* Mutant: the sets wait for the first refresh that is due.
DieUnbuilt ==
    /\ familiar' = {} /\ gear' = {}
    /\ job' = [Booting EXCEPT !.pc = "idle", !.boot = FALSE]
    /\ UNCHANGED <<now, cycles, others, tables, markers>>

\* A statement fails or the daemon is killed, and it is started again.
Die ==
    /\ familiar' = {} /\ gear' = {} /\ job' = Booting
    /\ UNCHANGED <<now, cycles, others, tables, markers>>

-----------------------------------------------------------------------------
\* Around the scan loop.

\* Another connection names a device or removes its label.
Relabel(d) ==
    /\ labelings < MaxLabelings /\ labelings' = labelings + 1
    /\ label' = [label EXCEPT ![d] = [on |-> ~@.on, since |-> Day(now)]]
    /\ UNCHANGED <<now, cycles, tables, markers, sets, job>>

Tick ==
    /\ now < Horizon /\ now' = now + 1
    /\ UNCHANGED <<cycles, others, tables, markers, sets, job>>

Init ==
    /\ now = 0 /\ cycles = 0 /\ labelings = 0
    /\ label = [d \in Devices |-> [on |-> FALSE, since |-> Never]]
    /\ observations = {} /\ counts = {} /\ retained = Never /\ refreshed = Never
    /\ familiar = {} /\ gear = {} /\ job = Booting

Next ==
    \/ Cycle \/ Delete \/ Stamp
    \/ Refresh \/ ReadLabels \/ Build \/ Mark \/ ReadAnchors \/ Replace
    \/ Die \/ Tick
    \/ \E d \in Devices : Relabel(d)

Spec == Init /\ [][Next]_vars

-----------------------------------------------------------------------------

\* Between two cycles, after this process has been through the upkeep.
Kept == job.pc = "idle" /\ job.retain # Never

\* "Seven-day rolling fallback ... plus one day buffer", pruned "at most once per
\* UTC day": after a cycle no row is older than the retention and the day until
\* the next pruning, wherever the process died between the pruning and its
\* marker.
CountsAreRecent ==
    Kept => \A t \in counts : t > job.retain - (Retention + 1) * DayLength

\* What a rebuild on the day of the last refresh must find, whenever in it.
SettledBy(d, on) == label[d].on = on /\ label[d].since < Day(job.refresh)
SeenBy(d) == {o[2] : o \in {q \in observations : q[1] = d /\ q[2] < Day(job.refresh)}}

\* "Startup + once per UTC day" (docs/familiar.md): the marker outlives the
\* process and the set does not. After a cycle the set has every device that has
\* had a label since an earlier day, and every device that was seen on MinDays
\* earlier days, if the pool has room for all such devices.
FamiliarIsCurrent ==
    Kept =>
        /\ \A d \in Devices : SettledBy(d, TRUE) => d \in familiar
        /\ Cardinality({d \in Devices : Days(d) >= MinDays}) <= MaxPool =>
              \A d \in Devices : Cardinality(SeenBy(d)) >= MinDays => d \in familiar

\* The gear is rebuilt with the familiar set, though it has no marker: after a
\* cycle it has every rotating device without a label that was seen, on an
\* earlier day, on the day of a device with one (build_own_rotating_gear_device_ids).
GearIsCurrent ==
    Kept =>
        \A d \in Devices \ Stable, a \in Devices :
            /\ SettledBy(d, FALSE) /\ SettledBy(a, TRUE)
            /\ SeenBy(d) \cap SeenBy(a) # {}
            => d \in gear

=============================================================================
