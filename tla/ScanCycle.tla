------------------------------ MODULE ScanCycle ------------------------------
(***************************************************************************)
(* One scan cycle (run_cycle of loop.py) against the database, a second    *)
(* writer and faults. A cycle collects advertisements, then in ONE write   *)
(* transaction resolves each of them to a device, records the observation, *)
(* advances the presence tracker, records its transitions and enqueues the *)
(* alerts; only after the commit does the resolver publish what it staged. *)
(*                                                                         *)
(* Two memories outlive a rollback differently: the resolver stages until  *)
(* commit, the tracker is changed at once and must be thrown away. Devices *)
(* are numbered by SQLite rowid, so an id a rolled-back cycle handed out   *)
(* is handed out again, to whoever comes first.                            *)
(*                                                                         *)
(* Identity is the founding key only; aliases and fusion are not modelled  *)
(* here. Neither are the detectors and band counts, which add rows to the  *)
(* same transaction, nor the upkeep after it (retention, familiar set).    *)
(***************************************************************************)
EXTENDS Integers, Sequences, FiniteSets

CONSTANTS
    Keys,                                       \* fingerprint keys on the air
    Appear, Disappear, Cooldown, PruneAfter,    \* see Presence
    HitCap,
    MaxKeyCache                                 \* _MAX_KEY_CACHE

VARIABLES
    db,         \* the committed database
    txn,        \* the rows the open transaction added
    pc,         \* where the scan loop is, or "down"
    ads,        \* advertisements of the window not yet resolved
    heard,      \* best signal of each device resolved in this window
    cache,      \* resolver: _key_cache
    pending,    \* resolver: _pending_keys
    tracker,    \* the PresenceTracker's table
    settled     \* ids with a PRESENT committed since the tracker was made

vars == <<db, txn, pc, ads, heard, cache, pending, tracker, settled>>

Ids == 1..Cardinality(Keys)

P == INSTANCE Presence WITH Devices <- Ids, devices <- tracker,
                            transitions <- txn.events

Advertisements == Keys \X {"weak", "strong"}

Nobody == [d \in Ids |-> "unheard"]
NoEvents == [d \in Ids |-> P!NoTransition]
Forgotten == [k \in {} |-> 0]
FreshTracker == [d \in {} |-> P!NewDevice]

NoTxn == [known |-> << >>, observed |-> {}, events |-> NoEvents, alerts |-> {}]

\* The tables a cycle sees in its transaction: its own rows on top of the rest.
Known == db.known \o txn.known
IdsKnown == 1..Len(Known)

\* BEGIN IMMEDIATE: one writer at a time.
LockedByFirstWrite == FALSE        \* mutant: BEGIN DEFERRED
Locked == pc \in {"resolving", "deciding"}

-----------------------------------------------------------------------------
\* The cycle.

Scan(heardOnAir) ==
    /\ pc = "idle"
    /\ ads' = heardOnAir /\ heard' = Nobody
    /\ pc' = "scanned"
    /\ UNCHANGED <<db, txn, cache, pending, tracker, settled>>

Begin ==
    /\ pc = "scanned"
    /\ pc' = "resolving" /\ txn' = NoTxn
    /\ UNCHANGED <<db, ads, heard, cache, pending, tracker, settled>>

\* DeviceResolver.resolve: the cache, then what this cycle staged, then the
\* devices table, then a new row.
Lookup(k) ==
    IF k \in DOMAIN cache THEN cache[k]
    ELSE IF k \in DOMAIN pending THEN pending[k]
    ELSE IF \E d \in IdsKnown : Known[d] = k
         THEN CHOOSE d \in IdsKnown : Known[d] = k
         ELSE Len(Known) + 1

Louder(old, new) == IF old = "strong" THEN old ELSE new

\* One turn of the resolve-and-append loop.
Resolve(ad) ==
    /\ pc = "resolving" /\ ad \in ads
    /\ LET k == ad[1]
           d == Lookup(k)
       IN  /\ pending' = IF k \in DOMAIN cache THEN pending
                         ELSE [x \in DOMAIN pending \cup {k} |->
                                  IF x = k THEN d ELSE pending[x]]
           /\ txn' = [txn EXCEPT
                         !.known = IF d > Len(Known) THEN Append(@, k) ELSE @,
                         !.observed = @ \cup {<<k, d>>}]
           /\ heard' = [heard EXCEPT ![d] = Louder(@, ad[2])]
    /\ ads' = ads \ {ad}
    /\ UNCHANGED <<db, pc, cache, tracker, settled>>

\* Every advertisement is in: advance the tracker (in memory, at once), record
\* its transitions and ask about the unlabeled arrivals (UnknownDeviceAlerter).
Decide ==
    /\ pc = "resolving" /\ ads = {}
    /\ LET events == P!WindowTransitions(tracker, heard)
       IN  txn' = [txn EXCEPT
                      !.events = events,
                      !.alerts = {d \in Ids : events[d] = "PRESENT" /\ d \notin db.labeled}]
    /\ tracker' = P!AfterWindow(tracker, heard)
    /\ pc' = "deciding"
    /\ UNCHANGED <<db, ads, heard, cache, pending, settled>>

\* Mutant: departures are not recorded.
CommitArrivals ==
    /\ pc = "deciding"
    /\ db' = [known |-> Known,
              labeled |-> db.labeled,
              latest |-> [d \in Ids |-> IF txn.events[d] # "PRESENT"
                                        THEN db.latest[d] ELSE txn.events[d]],
              observed |-> db.observed \cup txn.observed]
    /\ settled' = settled \cup {d \in Ids : txn.events[d] = "PRESENT"}
    /\ pc' = "committed" /\ txn' = NoTxn
    /\ UNCHANGED <<ads, heard, cache, pending, tracker>>

Commit ==
    /\ pc = "deciding"
    /\ db' = [known |-> Known,
              labeled |-> db.labeled,
              latest |-> [d \in Ids |-> IF txn.events[d] = P!NoTransition
                                        THEN db.latest[d] ELSE txn.events[d]],
              observed |-> db.observed \cup txn.observed]
    /\ settled' = settled \cup {d \in Ids : txn.events[d] = "PRESENT"}
    /\ pc' = "committed" /\ txn' = NoTxn
    /\ UNCHANGED <<ads, heard, cache, pending, tracker>>

\* DeviceResolver.commit: a full cache is emptied first.
Publish ==
    /\ pc = "committed"
    /\ LET kept == IF Cardinality(DOMAIN cache) + Cardinality(DOMAIN pending) > MaxKeyCache
                   THEN Forgotten ELSE cache
       IN  cache' = [k \in DOMAIN kept \cup DOMAIN pending |->
                        IF k \in DOMAIN pending THEN pending[k] ELSE kept[k]]
    /\ pending' = Forgotten
    /\ pc' = "idle"
    /\ UNCHANGED <<db, txn, ads, heard, tracker, settled>>

-----------------------------------------------------------------------------
\* Failures.

\* Mutant: no DeviceResolver.abort.
FailKeepsStaged ==
    /\ Locked
    /\ txn' = NoTxn /\ pc' = "failed"
    /\ UNCHANGED <<db, ads, heard, cache, pending, tracker, settled>>

\* Anything in the transaction raises: ROLLBACK, DeviceResolver.abort, re-raise.
Fail ==
    /\ Locked
    /\ txn' = NoTxn /\ pending' = Forgotten /\ pc' = "failed"
    /\ UNCHANGED <<db, ads, heard, cache, tracker, settled>>

\* Mutant: the tracker survives the rollback.
CarryOnTracking ==
    /\ pc = "failed"
    /\ settled' = {}
    /\ pc' = "idle"
    /\ UNCHANGED <<db, txn, ads, heard, cache, pending, tracker>>

\* A caller that catches it and goes on scanning keeps the resolver and must
\* discard the tracker (the contract of run_cycle).
CarryOn ==
    /\ pc = "failed"
    /\ tracker' = FreshTracker /\ settled' = {}
    /\ pc' = "idle"
    /\ UNCHANGED <<db, txn, ads, heard, cache, pending>>

\* The process dies (run_loop does not catch; power; SIGKILL): SQLite rolls the
\* open transaction back, every memory is lost.
Die ==
    /\ pc # "down"
    /\ pc' = "down" /\ txn' = NoTxn /\ ads' = {} /\ heard' = Nobody
    /\ cache' = Forgotten /\ pending' = Forgotten
    /\ tracker' = FreshTracker /\ settled' = {}
    /\ UNCHANGED db

\* Restart: seed() warms the cache with founding keys, as many as fit.
Restart(warm) ==
    /\ pc = "down"
    /\ warm \subseteq 1..Len(db.known) /\ Cardinality(warm) <= MaxKeyCache
    /\ cache' = [k \in {db.known[d] : d \in warm} |->
                    CHOOSE d \in warm : db.known[d] = k]
    /\ pc' = "idle"
    /\ UNCHANGED <<db, txn, ads, heard, pending, tracker, settled>>

\* The operator labels a device from chat or with the init command, on another
\* connection: whenever the write lock is free, the daemon running or not.
Label(d) ==
    /\ ~Locked
    /\ d \in 1..Len(db.known) /\ d \notin db.labeled
    /\ db' = [db EXCEPT !.labeled = @ \cup {d}]
    /\ UNCHANGED <<txn, pc, ads, heard, cache, pending, tracker, settled>>

-----------------------------------------------------------------------------

Init ==
    /\ db = [known |-> << >>, labeled |-> {}, latest |-> NoEvents,
             observed |-> {}]
    /\ txn = NoTxn /\ pc = "idle" /\ ads = {} /\ heard = Nobody
    /\ cache = Forgotten /\ pending = Forgotten /\ tracker = FreshTracker
    /\ settled = {}

Cycle ==
    \/ \E onAir \in SUBSET Advertisements : Scan(onAir)
    \/ Begin
    \/ \E ad \in ads : Resolve(ad)
    \/ Decide \/ Commit \/ Publish

Next ==
    \/ Cycle
    \/ Fail \/ CarryOn \/ Die
    \/ \E warm \in SUBSET Ids : Restart(warm)
    \/ \E d \in Ids : Label(d)

Spec == Init /\ [][Next]_vars /\ WF_vars(Cycle)

-----------------------------------------------------------------------------

\* An observation is attributed to the device of the key it was heard under,
\* for good: no id of a rolled-back cycle, which the table hands out again,
\* survives in the cache or in a committed row (resolve, commit, abort).
ObservationsAreAttributed ==
    /\ \A o \in db.observed : o[2] \in 1..Len(db.known) /\ db.known[o[2]] = o[1]
    /\ \A k \in DOMAIN cache : cache[k] \in 1..Len(db.known) /\ db.known[cache[k]] = k

\* Between cycles the tracker and the event log agree on the open visits: a
\* visit the tracker will close is the latest event on record, and a PRESENT it
\* recorded is closed by nobody else. Holds across rollbacks because the
\* tracker never survives one (run_cycle).
TrackerMatchesLog ==
    pc \in {"idle", "scanned"} => \A d \in Ids :
        LET open == d \in DOMAIN tracker /\ tracker[d].present_emitted
        IN  /\ open => db.latest[d] = "PRESENT"
            /\ d \in settled /\ db.latest[d] = "PRESENT" => open

\* An alert and the arrival it is about commit together, and exactly for the
\* devices unlabeled at that moment: no label can slip in between the look at
\* the label and the commit (UnknownDeviceAlerter.handle, BEGIN IMMEDIATE).
AlertsMatchArrivals ==
    [][pc = "deciding" /\ pc' = "committed" =>
          \A d \in Ids :
             d \in txn.alerts <=> /\ db'.latest[d] = "PRESENT"
                                  /\ txn.events[d] = "PRESENT"
                                  /\ d \notin db'.labeled]_vars

\* Once the daemon has stopped failing, a device that keeps being heard well is
\* recorded as PRESENT anew and stays so, whatever happened before: the PRESENT
\* of a tracker that died or was thrown away does not count, nor one that an
\* ABSENT follows (run_loop, run_cycle). Without a cooldown: within one, a
\* return has no row.
SteadyDevicesAreRecorded ==
    \A k \in Keys :
        (/\ <>[](pc \notin {"failed", "down"})
         /\ <>[](pc = "scanned" => <<k, "strong">> \in ads))
        => <>[](\E d \in settled : db.known[d] = k /\ db.latest[d] = "PRESENT")

=============================================================================
