# blesentry in TLA+

blesentry listens for Bluetooth advertisements, decides which devices are
around, and tells one operator about it over Telegram. It is one asyncio daemon
around a SQLite database, plus a terminal command (`blesentry init`) that works
on the same database. This directory holds TLA+ models of its core, TLC
configurations that check them on small instances, and TLAPS proofs of the
safety properties those configurations check, with one exception (see "Only
model-checked"). Paths below are relative to `src/src/blesentry/`.

Check a configuration with `tlc -config MCPresence.cfg MCPresence`, a proof
module with `tlapm PresenceProofs.tla`.

## The system

| part | state | operations | promises |
|---|---|---|---|
| scan cycle (`loop.py`) | the open transaction | `run_cycle`, `run_loop` | all rows of a window commit together or not at all; after a rollback the process ends |
| fusion resolver (`resolver.py`, devices and device_aliases in `storage/repository.py`) | key cache, window of recent appearances, staged additions; tables | `resolve`, `commit`, `abort`, `seed` | a key stays with its device; distinct stable addresses are never fused; memory is bounded |
| presence tracker (`presence.py`) | a record per device: state, hits, misses, cooldown | `update` once per window | debounced arrivals and departures, one visit per stay, silent devices forgotten |
| unknown-device alerter (`alerts.py`) | none | `handle` inside the cycle | an alert exactly for arrivals of unlabeled devices |
| detectors (`detection/`) | tracks, streak, CUSUM and baseline, fire-once memory | `observe` inside the cycle | one alert per visit, dwell or episode; samples from before a corrected clock do not train the baseline |
| upkeep: familiar set, own gear, retention (`detection/familiar.py`, `detection/inside.py`, `repository.py`) | two sets in memory, two markers in the database | after a commit, once a day; the sets at boot too | pruned and rebuilt on every UTC day with a cycle, wherever the process died |
| outbox and drain (`drain.py`, `OutboxRepository`) | a row per message: status, attempts, next attempt | `enqueue`, `drain_once`, `run_drain` | strict FIFO, at least once, never dropped except when refused |
| Telegram notifier (`notifier/`) | update offset, in memory | `send`, `commands` | verdict per send; at-least-once updates |
| bulk-label session (`init.py`, `InitSessionRepository`) | session row: status, snapshot, cursor, deadline, last message | handlers of chat and CLI | each device of the snapshot is offered once; nothing named by accident |
| chat commands (`commands.py`) | none | a handler per command | one reply per update |
| daily summary (`summary.py`) | the last_sent marker | `tick`, `run_summary_loop` | one digest a day, contiguous windows |
| migrations (`apply_migrations` in `storage/database.py`) | the schema and `schema_migrations` | every start of the daemon and of `init` | the schema is what the rows say; nobody starts over an edited script |
| connections (`transaction` in `storage/database.py`) | per task a connection with a thread, its requests and its open transaction | BEGIN, statements, COMMIT or ROLLBACK | whole units of work, also when the task is cancelled |
| daemon (`cli.py`, the systemd unit) | the main coroutine, its tasks, the SIGTERM handler | `_run_daemon`, `_run_supervised` | when one task ends, all end; connections are closed; a failure is restarted |
| scanner, config, replay and evaluation tools | | | see "Not modelled" |

How the parts interact. The scan loop, the drain, the summary and the command
loop are tasks of one event loop with separate SQLite connections; what they
share is the database. The scan loop writes in one `BEGIN IMMEDIATE`
transaction per window, and so do the digest and the naming of a device; every
other handler of the label session is a series of autocommitted statements. All
messages go through the outbox, whose only consumer is the drain.

What is hard: memory that is changed inside a transaction and outlives its
rollback (resolver, tracker, detectors); SQLite handing out the id of a row that
was rolled back a second time; two surfaces on one session with no transaction
around them; redelivered updates; sends with unknown outcome; clocks that step;
rows stamped before the lock and committed after it; bounded caches that forget;
markers that outlive the memory they are about; tasks that are cancelled while a
thread works for them; several processes that migrate one database.
`PROJECT.json` lists each such place with its line under "hazards".

## Modules

| module | models | composed with |
|---|---|---|
| `Presence` | `presence.py`: `Update` is one call of `update`; `Hit` and `Miss` are `_maybe_present` and `_maybe_absent` with the counters of `update`, `ShouldPrune` the pruning | |
| `Visits` | what presence promises, without counters: who is here, who has been announced | `PresenceRefinement` maps `Presence` to it |
| `Outbox` | the table, `drain_once` as `TakeHead`, send and reply, settle or reschedule; `run_drain`'s waits; channel, clock, crash | |
| `Delivery` | what the outbox promises: an ordered queue delivered at least once | `OutboxRefinement` maps `Outbox` to it |
| `ScanCycle` | `run_cycle` from scan to publish, founding keys, the tracker (an instance of `Presence`'s operators), the alerter, a second writer that labels, failure, crash, restart | uses `Presence` |
| `Resolver` | every branch of `resolve`, with fusion scores, aliases and their cap, `commit`, `abort`, `seed`, over both tables | |
| `InitSession` | both surfaces, one step per database statement; Telegram's queue and the offset; crash; the time-box | |
| `DailySummary` | `tick` and the stamps of the scan loop's rows, around one write lock | |
| `Window`, `Approach`, `Inside`, `Crowd` | what a detector is handed, and the three detectors | extended by `Detection` |
| `Detection` | the cycle around the configured detector: observe, enqueue, commit, rebuild of the familiar set, failure and restart | |
| `Upkeep` | `run_retention_if_due`, `refresh_if_due` and the two rebuilds, a statement at a time, with the boot, labels from elsewhere and deaths | |
| `Migrations` | `apply_migrations` in several processes, deploys, failing statements, kills | extended by `Daemon` |
| `Daemon` | `_run_daemon` and `_run_supervised` as the main coroutine; per task its unit, its thread's requests and its transaction; signals, the exit code, systemd | extends `Migrations`, whose runner "daemon" is its boot |
| `PresenceProofs`, `OutboxProofs`, `ScanCycleProofs`, `ResolverProofs`, `DetectionProofs`, `UpkeepProofs`, `DaemonProofs`, `OperatorProofs` | proofs | the first two extend the refinement modules, `DaemonProofs` is about `Migrations` too, `OperatorProofs` about `DailySummary` and `InitSession`, the others about the component of their name |
| `MCPresence`, `MCResolver`, `MCDetection`, `MCDaemon` | values of constants for TLC | |

Correspondence. An action is a handler, or the part of it up to the next point
where another task or process can act. Those points are: each database statement
outside a transaction (`InitSession`), `BEGIN IMMEDIATE` and `COMMIT`
(`ScanCycle`, `DailySummary`, `Detection`), each statement after a commit
(`Upkeep`), the send and its reply (`Outbox`), each request to a connection's
thread (`Daemon`), and every place where the process may die. `map` in
`PROJECT.json` names the lines each definition stands for.

What is abstracted. Signal strengths are kept to what thresholds tell apart;
names to who typed them for which device; appearances to the fields that scoring
compares, in twentieths of the score; wall-clock times to the time left
(`Outbox`) or to instants of a day (`DailySummary`); window indexes to ages
(`Approach`); the standardized excess of a crowd window to any of a few values
(`Crowd`), because EWMA and MAD on floats are out of reach; a unit of work to its
number of statements (`Daemon`); a migration script and its checksum to one value.
In `Daemon` a step of a thread executes a request and carries the waiting task on
to its next one; a transaction within a transaction joins it, as
`in_transaction` makes it do. Closing a connection does not fail, and a cancelled
`connect()` leaves nothing. A second SIGTERM, or one during the close, kills at
once, because the handler is gone by then; SIGINT is not modelled. systemd starts
the process again after exit code 1 and SIGKILL, not after 0 and SIGTERM. In
`Upkeep` a cycle's own transaction takes no time and the clock is never set back.
Variables marked "history" in a module are read by properties only.

## Runs

| run | instance | shows |
|---|---|---|
| Presence | 2 devices, cooldown 4, pruning after 3, thresholds 2 | the tracker is `Visits`; records are flipped in time; silent devices are forgotten, steady ones found |
| Outbox | 2 messages, backoff 1 to 2, waits to 2 | the outbox is `Delivery`; delivered rows were received; only refused or unusable ones fail; repeats are explained; settled is final; a healed channel empties the queue |
| ScanCycle | 2 keys, cache of 1, all thresholds 1 | observations and cache entries name the right device after rollbacks that reuse ids; tracker and event log agree; alerts match arrivals; a steady device gets a PRESENT after the last failure and keeps it |
| Resolver | 4 appearances of rotating devices, window 2, cache 3, 1 alias each | no cycle runs into a ValueError; memory agrees with the tables; only pruned keys split; a restart remembers every device the window has room for |
| InitSession | 2 devices, 1 message, 2 sessions, one entry typed at the terminal, six commands | no device is passed over; labels are not overwritten; a handler of an old session cannot name through a new one; a redelivered update acts once; every update is confirmed |
| DailySummary | days of 3 instants, 6 of them, 2 cycles, one clock step | one digest a day, no transition lost or reported twice, at most the cycle in flight vanishes, the digest is sent |
| Detection | 3 addresses, room for 2 tracks, fading after 2, streaks of 2, CUSUM to 3, cold start of 2 | one alert per visit; no silence without an alert on record; no sample from before a re-anchoring of the clock trains the baseline; an episode keeps its tier |
| Upkeep | 2 devices, one rotating, days of 2 instants, 3 days, 3 cycles, one label, pool of 1 | after a cycle the counts, the familiar set and the gear are current, wherever the process died |
| Daemon | scan loop, drain and command loop, `init` beside them, a release of one script, one deploy, one fault, units of 2 statements | schema and bookkeeping agree; the daemon starts on its schema; commits are whole units; exits are clean; only one kind of task outlives the others; a failed daemon comes back |
| ResolverTwins, InitRedelivery, DaemonHalf | small instances of the same modules | violated, see "Findings" |

Why the bounds are enough. Each is the least at which the interesting thing can
happen and be followed by another: two messages for FIFO, a third window after
pruning inside a cooldown, one key more than the cache and one alias more than
the cap, one address more than the track table, a second digest on the next
day, a second session after an expired one, a day's upkeep after a death in
another's, a second statement for a unit to be torn, a second file for a runner
to be overtaken. In `InitSession` updates come one at a time, because with two
in a batch `UpdatesActOnce` fails: InitRedelivery is that run; the terminal only
names there, since what it skips or ends the chat skips and ends as well. One
fault and one deploy are enough in `Daemon` for each of its failures to meet a
healthy rest, and a kill counts as one. `ApproachWindows` is 2 instead of 8: the
rising predicate then holds for one far and one adjacent sample, and eviction,
fading and fire-once, which the properties are about, do not look inside it.
`Cooldown` is 0 in `ScanCycle`: with a cooldown, a device that returns while
muted is PRESENT in memory and has no row, by the design of the mute. Names of
bounds that the code does not have are marked "bound" where they are declared:
`HitCap`, `MaxWait`, `MaxRows`, `AttemptCap`, `MaxMessages`, `MaxBatch`,
`MaxTyped`, `MaxSessions`, `MaxLegacy`, `Horizon`, `MaxCycles`, `MaxLabelings`,
`MaxStepsBack`, `MaxCusum`, `MaxBackfill`, `MaxFiles`, `MaxDeploys`,
`MaxFaults`. `DailySummary` stops at its horizon and DaemonHalf at a daemon that
is through, so deadlock is not checked there; everywhere else it is.

Fairness. `Presence`: a window always follows, as the loop is periodic.
`Outbox`: the drain's steps, time, and the restart by systemd; nothing of the
channel, which liveness assumes to be up in its premise. `ScanCycle`: the loop
of a live process, with the end of failures a premise. `InitSession`: the
command loop of a live daemon, and nothing of the terminal. `DailySummary`: both
tasks, and strong fairness of the digest's `BEGIN IMMEDIATE`, because SQLite
retries it for `busy_timeout` while a cycle holds the lock for a fraction of its
interval. `Daemon`: the main coroutine and systemd, each connection's thread, a
migration of another process once it is in its script (the statements of one
`executescript`), and strong fairness of taking the write lock, for the same
reason as above. `Detection`, `Resolver` and `Upkeep` claim no liveness and
assume no fairness.

## Proofs

`PresenceProofs`, from `PresenceAssumption` (the constructor's checks), for every
set of devices and every threshold. The inductive invariant is
`TypeOK /\ RecordsConsistent`: the second says that no record stands where
`update` would already have flipped it, which the refinement needs to know that
a device is announced in the window its counter reaches the threshold. Theorems:
`TypeCorrect`, `ConsistentRecords`, `Refinement` (`Presence` implements
`Visits`: the cooldown left is the time `Visits` says a device has been away,
and what pruning deletes is what `Visits` cannot tell from a new device).

`OutboxProofs`, from `OutboxAssumption`, for every number of messages and every
backoff. The inductive invariant adds to `TypeOK`: the row in hand is the head
(`JobIsHead`), rows behind the head are untried (`TriedInTurn`), a verdict tells
what happened to the row (`VerdictIsTrue`), an outcome still owed is marked so
(`OwedIsUnsettled`), and the three guarantees themselves. FIFO does not follow
from the table alone, as the drain works from an id it read earlier. Theorems:
`TypeCorrect`, `Fifo`, `NoLostMessage`, `NeverDrops`, `RepeatsExcused`,
`Finality`, `Refinement`.

`DetectionProofs`, from `WindowAssumption` and `ApproachAssumption`, for any
addresses, readings, table size and fading, and any number of windows in a
track (the code's 8 among them). The inductive invariant `IInv` has three parts:

* `Accounted`: between cycles, what a detector is silent about has been told;
  inside one, the alerts staged in the open transaction count as well. Without
  the second half `Commit` would have nothing to hand on. It gives
  `NothingIsSilenced`.
* `CrowdInv`: nothing stale is held for the baseline between two windows, because
  the window that makes held samples stale is the one that empties the queue
  (`HeldIsCurrent`), within an episode too; and the tier of a running episode is
  the tier in use. They give `CurrentTraining` and `TierKept`.
* `ApproachInv`: the age of a track is the silence of its address, and an
  address whose visit lasts is in the fire-once set. The step for eviction needs
  that a table with room evicts nobody (`NoVictims`) and that fading cannot make
  it overflow. It gives `OnePerVisit`.

A second invariant, `MemoryIsBounded`, is inductive beside it: at most
`max_addresses` tracks of `APPROACH_WINDOWS` samples, and nobody in the
fire-once set without a track. What makes room is not the eviction but the
admission: of n free places at most n are given away, because under a strict
total order no two addresses have equally many before them (`FirstOfBound`, by
an injection into 0..n - 1; `LouderIsAnOrder`). It gives
`DetectorMemoryIsBounded`, for which there is no run.

`ScanCycleProofs`, for any keys, thresholds and cache size. The invariant is
`CycleTypeOK /\ Attributed /\ Matched /\ Alerting`. `Attributed` says it twice,
of what is staged over the open transaction's tables and of what is cached over
the committed ones: only so does a rollback leave nothing that names a row it
took back. `Matched` speaks of the log as the cycle will leave it while it is
deciding, because the tracker is ahead of the log until the commit; after a
failure it claims nothing, as the process ends. Theorems: `AttributedForGood`,
`TrackerAgrees`, `AlertsCommitWithArrivals`.

`ResolverProofs`, from `ResolverAssumption`, for any appearances and scores and
any sizes of the window, the cache and the alias cap. What memory says of a key
is `Right` of a state of the tables if the device is there, the tables give the
key to no other one, and to this one unless its alias was pruned (then, and only
then, the key is excused). The cache and the answers of earlier cycles are right
of two states (`Agree`): of the open transaction's tables, which this cycle
looks at, and of the saved ones, which a rollback brings back while the cache
stays. What is staged and answered in this cycle is right of the first
(`StagedOK`). The window may still name the device a key had, until the key is
staged anew (`WindowOK`). So no row `resolve` records can meet a key of another
device, which is `NeverRefused`; `OnlyPrunedSplit` follows an answer through
eviction, rollback and restart; `SeedKeepsDevices` counts the entries of a
seeded window. Theorems: `Invariance`, `TypeCorrect`, `NeverRefused`,
`MemoryIsRight`, `OnlyPrunedSplit`, `SeedKeepsDevices`.

`UpkeepProofs`, from `UpkeepAssumption`, for any devices, pool and retention.
What a rebuild owes for a day D is what was so before D (`FamiliarFor`,
`GearFor`), and a step only adds labels and rows of today (`Written`), so a set
that serves a day goes on serving it (`StillServes`). The invariant says which
days are served at each point of the job: the marker's as soon as this process
has a set, even if an earlier process set the marker (`FamiliarOK`); the gear's a
few statements later (`GearOK`); and that labels read in the first query of a
rebuild are still as old as the stamps (`ReadOK`). `CountsOK` says that the
marker never claims rows which are still there. Counting (`DaysBound`,
`PoolHasAll`) uses the library's facts about finite sets. Theorems:
`CountsStayRecent`, `FamiliarStaysCurrent`, `GearStaysCurrent`.

`DaemonProofs`, its first part, about `Migrations` from `MigrationsAssumption`,
for any processes, scripts and deploys. `MigrationInv` is the tables' types,
`SchemaIsRecorded`, and for each runner `InStep`: what it has read is recorded
up to the script it is in, and from its first write to its COMMIT it holds the
lock, so the version it found missing under the lock is still missing when it is
recorded. Theorems: `MigrationsAreRecorded`, `RunnersStartOnTheirSchema`.

`DaemonProofs`, its second part, from `DaemonAssumption`, for any connections,
statements per unit and faults. `Unit` lists, for each place a task can be at,
what its thread still has to do, what is in the open transaction and who has the
lock: a task that has ended may have left a BEGIN, a COMMIT, or a ROLLBACK, and
nothing else. That is why nothing half done is committed or left. `MainOK` ties
the tasks to the main coroutine, `OnOpen` work and locks to open connections. A
step of a migration is one of `Migrations` with the daemon as a runner, so its
lemmas are used as they are. Theorems: `UnitsAreWhole`, `NothingIsAbandoned`,
`ExitsAreClean`, `DaemonsSchemaIsRecorded`, `DaemonStartsOnItsSchema`,
`DaemonRefinesRunners`.

The last one is a refinement: `Daemon` implements `Migrations`, with a lock
that a task's connection holds mapped to a free one (`Holder`). Every step of the
daemon is for the runners one of four kinds (`StepKinds`): a step of a runner, a
deploy, none at all, or the end of the daemon's runner with its process
(`RunnerDies`). The last kind is `Leave`, or a stutter if the runner was at rest
already; for that the invariant must add that a runner at rest has nothing left
in its locals (`RestIsBlank`) and that one without a script holds no lock
(`OnOpen`). So what is proved of `Migrations` alone holds in the daemon too.

`OperatorProofs`, its first part, about `DailySummary` from `SummaryAssumption`,
for days, hours and horizons of any length. `DigestsOK` (each digest on a later
day, the last one's end is the marker) holds for any clock and gives
`DigestsAreOfDifferentDays`. While the clock has not been set back, `StampsOK`
(what is read or stamped under the lock is not before the marker), `WindowsOK`
(the windows cover the time up to the marker without gap or overlap),
`RostersOK` and `MissesOK` hold as well. The roster of a digest stays the
transitions of its window because a later one is stamped under the lock, after
the marker. An observation is stamped before it: a cycle in flight may add one
to a window that is closed, and then is no longer in flight. They give
`TransitionsReported` and `OneCycleVanishes`.

`OperatorProofs`, its second part, about `InitSession` from `InitAssumption`,
for any devices, sessions, updates and lines typed. A handler reads a session in
one statement and writes it in a later one, and meanwhile the other surface may
have moved the cursor, closed the session or labelled its devices; so the
invariant `SessionInv` says not what is true of the session but what the handler
still `Knows`: the session is there, and the positions before the place it is to
write stay dealt with, which no step of anybody undoes (`Keeps`). That is why a
cursor written from a stale read may send the operator back but never past a
device (`NobodyIsForgotten`). `HowLabelsChange` is the lemma behind the three
action properties: a label changes by a command that names its device, or by the
one transaction that reads the live cursor, the clock, the bound device and the
label together. `ActInv` carries the duplicate check to the act it guards, some
statements later: a handler past it can reach no session that remembers its
update, neither through those ACTIVE by then nor through the one it read, because
the terminal, which is all that works in between, notes no update (`Moves`) and
starts sessions that remember none. It gives `UnrememberedActs`, for batches of
any size: an update acts only while it is unconfirmed, only on a session that
does not remember it, and is remembered from then on. So it can act again on that
session, but only after another update was handled there. That this does happen
is what InitRedelivery shows; `InitBatches.cfg` has TLC look at the theorem's
property for the same batches of two. Theorems: `SessionInvariance`,
`SessionTypeCorrect`, `NobodyIsForgotten`, `LabelsStay`, `ExpiredIsOver`,
`CliNamesTheBound`, `UnrememberedActs`.

Only model-checked: `UpdatesActOnce`, which is true of batches of one update and
no theorem of the program (`UnrememberedActs` is what holds of any), and liveness
(`Settles`, `Heals`, `OnlyASurvivorLingers` and the like), which is out of the
prover's reach, as is induction over data. The order
of a snapshot and of the resolver's window is therefore written by rank
(`InIdOrder`, `InOrder`, `At`: the n-th is the one with n - 1 before it), not by
recursion; that such an order reaches every element is proved by counting
(`RanksAreReached`).

## Findings

* `resolver.py:385`: seeded appearances have no address type, so after a
  restart the veto that keeps identical twins on distinct stable addresses apart
  is off (run ResolverTwins).
* `init.py:263`: a session remembers one message id; when two handled updates
  of a batch are redelivered, the first acts again (run InitRedelivery).
* `commands.py:292`: when the ROLLBACK after a cancellation fails, the command
  loop takes it for a failed command and lives on, and the supervisor waits for
  it for good (run DaemonHalf). `OnlyASurvivorLingers` shows that nothing else
  keeps the daemon half running.

Two configurations reproduce smaller disagreements and are no part of the runs
above, as a run beside them bounds what they show:

* `InitPrinted.cfg`, `init.py:404`: the CLI binds the device at the cursor of a
  second read, not the one it printed. (`CliNamesWhatItBound` is what holds.)
* `DailyVanish.cfg`, `summary.py:201`: advertisements heard before a digest's
  transaction and committed after it are in no digest, although the comment there
  says the lock prevents this. (`OnlyTheCycleInFlightVanishes` bounds it.)

Seen while modelling, without a run:

* The retention runs "at most once per UTC day" while nothing fails; a crash
  between the deletion and the marker repeats it. It deletes the same rows.
* A task that is cancelled while it awaits BEGIN leaves an open, empty
  transaction on its connection until the close, although the docstring of
  `transaction` says that cancellation never abandons one.
  (`NothingHalfDoneIsLeft` is worded for that; `CleanExit` shows that it is gone
  in the end.)
* docs/crowd-baseline.md says of windows with an untrusted clock that "Rolling
  is always updated on the live path", but `finish_window`
  (`crowd_baseline.py:195`) returns before `_update`, and the queue of held
  samples has no cap while that lasts. When the first trusted window comes with a
  correction of the clock, what was queued since boot is not discarded, as it is
  by a later correction, but backfilled with the stamps of the wrong clock:
  `_trusted_step_would_reanchor` has nothing to compare with yet. ADR 0008 has it
  so ("queued until wall clock is NTP-confirmed; then backfilled in order").
  `NothingStaleTrains` excepts these samples ("boot") and corrections too small
  to re-anchor. The scan loop never reports an untrusted clock, so only
  `CrowdDetector`'s own interface reaches it.

## Not modelled

The arithmetic of EWMA, MAD and z (floats); texts, prompts and parsing; the
replay and evaluation tools (offline, read only) and the features only they read;
the bleak adapter (it delivers advertisements, any set of them here);
configuration (validation without state); status, help, list and describe (they
change nothing another part reads); polling errors of Telegram and malformed
updates (dropped before they reach a handler); a manual downgrade of the schema;
SIGINT at the terminal; failures of `close()`.

## Plan

1. `ScanCycle` over `Resolver` instead of founding keys; a run with a cooldown.
2. `Upkeep` with a clock that is set back, and within the running daemon.
3. Proofs: what the refinements say of the composed system, as it is done for the
   daemon and `Migrations`: that the cycle runs `Presence`, with a tracker that
   is thrown away after a failure.
