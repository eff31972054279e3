--------------------------- MODULE ScanCycleProofs ---------------------------
(***************************************************************************)
(* Proofs about ScanCycle, for any keys, thresholds and cache size: no     *)
(* observation goes to the device of another key, the tracker and the      *)
(* event log agree on the open visits, and alerts commit with the arrivals *)
(* they are about.                                                         *)
(***************************************************************************)
EXTENDS ScanCycle, SequenceTheorems, TLAPS

-----------------------------------------------------------------------------
\* The inductive invariant.

Database == [known: Seq(Keys), labeled: SUBSET Nat, latest: [Ids -> P!Transitions],
             observed: SUBSET (Keys \X Nat)]

Transaction == [known: Seq(Keys), observed: SUBSET (Keys \X Nat),
                events: [Ids -> P!Transitions], alerts: SUBSET Ids]

CycleTypeOK ==
    /\ db \in Database /\ txn \in Transaction
    /\ pc \in {"idle", "scanned", "resolving", "deciding", "committed", "failed", "down"}
    /\ ads \subseteq Advertisements
    /\ ~Locked => txn = NoTxn

\* Row d of the devices table is the device of key k.
IsDeviceOf(known, k, d) == d \in 1..Len(known) /\ known[d] = k

\* What is staged is right in the open transaction, what is cached and what is
\* observed is right without it.
Attributed ==
    /\ \A o \in db.observed : IsDeviceOf(db.known, o[1], o[2])
    /\ \A o \in txn.observed : IsDeviceOf(Known, o[1], o[2])
    /\ \A k \in DOMAIN cache : IsDeviceOf(db.known, k, cache[k])
    /\ \A k \in DOMAIN pending : IsDeviceOf(Known, k, pending[k])

\* A record of the tracker: an absent device has no open visit.
Sound(s) ==
    /\ s.state \in {P!ABSENT, P!PRESENT} /\ s.present_emitted \in BOOLEAN
    /\ s.state = P!ABSENT => s.present_emitted = FALSE

Open(ds, d) == d \in DOMAIN ds /\ ds[d].present_emitted

\* The log as it will be: while the cycle is deciding, with its transitions.
Latest(d) ==
    IF pc = "deciding" /\ txn.events[d] # P!NoTransition THEN txn.events[d] ELSE db.latest[d]

Settled(d) == d \in settled \/ (pc = "deciding" /\ txn.events[d] = P!PRESENT)

Matched ==
    /\ \A d \in DOMAIN tracker : Sound(tracker[d])
    /\ pc # "failed" => \A d \in Ids :
          /\ Open(tracker, d) => Latest(d) = P!PRESENT
          /\ Settled(d) /\ Latest(d) = P!PRESENT => Open(tracker, d)

Alerting ==
    pc = "deciding" =>
        txn.alerts = {d \in Ids : txn.events[d] = P!PRESENT /\ d \notin db.labeled}

CycleInv == CycleTypeOK /\ Attributed /\ Matched /\ Alerting

-----------------------------------------------------------------------------
\* The tracker, one device at a time.

LEMMA Names ==
  P!ABSENT # P!PRESENT /\ P!ABSENT # P!NoTransition /\ P!PRESENT # P!NoTransition
BY DEF P!ABSENT, P!PRESENT, P!NoTransition

LEMMA NewIsSound == Sound(P!NewDevice) /\ P!NewDevice.present_emitted = FALSE
BY DEF Sound, P!NewDevice

\* What a window does to a record, and what it announces about it.
LEMMA HitFacts ==
  ASSUME NEW s, Sound(s)
  PROVE  /\ Sound(P!Hit(s)) /\ P!Announce(s, P!Hit(s)) \in P!Transitions \ {P!ABSENT}
         /\ P!Announce(s, P!Hit(s)) = P!PRESENT => P!Hit(s).present_emitted
         /\ P!Announce(s, P!Hit(s)) = P!NoTransition =>
               P!Hit(s).present_emitted = s.present_emitted
BY Names DEF Sound, P!Hit, P!Announce, P!Transitions

LEMMA MissFacts ==
  ASSUME NEW s, Sound(s)
  PROVE  /\ Sound(P!Miss(s)) /\ P!Announce(s, P!Miss(s)) \in P!Transitions \ {P!PRESENT}
         /\ P!Announce(s, P!Miss(s)) = P!ABSENT => ~P!Miss(s).present_emitted
         /\ P!Announce(s, P!Miss(s)) = P!NoTransition =>
               P!Miss(s).present_emitted = s.present_emitted
BY Names DEF Sound, P!Miss, P!Announce, P!Transitions

\* A window announces the changes of the open visits, all of them and no other;
\* pruning forgets no open visit.
LEMMA WindowFacts ==
  ASSUME NEW ds, NEW h, \A d \in DOMAIN ds : Sound(ds[d]), NEW d \in Ids
  PROVE  LET event == P!WindowTransitions(ds, h)[d]
             after == P!AfterWindow(ds, h)
         IN  /\ event \in P!Transitions
             /\ event = P!PRESENT => Open(after, d)
             /\ event = P!ABSENT => ~Open(after, d)
             /\ event = P!NoTransition => (Open(after, d) <=> Open(ds, d))
<1> DEFINE event == P!WindowTransitions(ds, h)[d]
           after == P!AfterWindow(ds, h)
           all == P!Tracked(ds, h)
           next == P!Stepped(ds, h, d)
<1>1. CASE d \notin DOMAIN all
  <2>1. event = P!NoTransition
    BY <1>1 DEF P!WindowTransitions
  <2>2. d \notin DOMAIN ds /\ d \notin DOMAIN after
    BY <1>1 DEF P!Tracked, P!AfterWindow
  <2>3. QED  BY <2>1, <2>2, Names DEF Open, P!Transitions
<1>2. CASE d \in DOMAIN all
  <2>1. Sound(all[d]) /\ (all[d].present_emitted <=> Open(ds, d))
    BY <1>2, NewIsSound DEF P!Tracked, Open
  <2>2. event = P!Announce(all[d], next)
    BY <1>2 DEF P!WindowTransitions
  <2>3. next = P!Hit(all[d]) \/ next = P!Miss(all[d])
    BY DEF P!Stepped
  <2>4. Sound(next) /\ event \in P!Transitions
        /\ (event = P!PRESENT => next.present_emitted)
        /\ (event = P!ABSENT => ~next.present_emitted)
        /\ (event = P!NoTransition => next.present_emitted = all[d].present_emitted)
    BY <2>1, <2>2, <2>3, HitFacts, MissFacts, Names
  <2>5. CASE d \in P!Pruned(ds, h)
    <3>1. event = P!NoTransition /\ next.state = P!ABSENT
      BY <2>5 DEF P!Pruned, P!ShouldPrune
    <3>2. d \notin DOMAIN after
      BY <2>5 DEF P!AfterWindow
    <3>3. QED  BY <2>1, <2>4, <3>1, <3>2, Names DEF Open, Sound
  <2>6. CASE d \notin P!Pruned(ds, h)
    <3>1. d \in DOMAIN after /\ after[d] = next
      BY <1>2, <2>6 DEF P!AfterWindow
    <3>2. QED  BY <2>1, <2>4, <3>1, Names DEF Open
  <2>7. QED  BY <2>5, <2>6
<1>3. QED  BY <1>1, <1>2

LEMMA AfterIsSound ==
  ASSUME NEW ds, NEW h, \A d \in DOMAIN ds : Sound(ds[d])
  PROVE  \A d \in DOMAIN P!AfterWindow(ds, h) : Sound(P!AfterWindow(ds, h)[d])
<1>1. \A d \in DOMAIN P!Tracked(ds, h) : Sound(P!Tracked(ds, h)[d])
  BY NewIsSound DEF P!Tracked
<1>2. \A d \in DOMAIN P!Tracked(ds, h) : Sound(P!Stepped(ds, h, d))
  BY <1>1, HitFacts, MissFacts DEF P!Stepped
<1>3. QED  BY <1>2 DEF P!AfterWindow

-----------------------------------------------------------------------------
\* The devices table.

\* Rows are only added, whatever the transaction adds.
LEMMA RowsKeep ==
  ASSUME NEW old \in Seq(Keys), NEW new \in Seq(Keys), NEW k, NEW d, IsDeviceOf(old, k, d)
  PROVE  IsDeviceOf(old \o new, k, d)
BY ConcatProperties DEF IsDeviceOf

LEMMA NewRow ==
  ASSUME NEW old \in Seq(Keys), NEW new \in Seq(Keys), NEW key \in Keys
  PROVE  /\ Append(new, key) \in Seq(Keys)
         /\ IsDeviceOf(old \o Append(new, key), key, Len(old \o new) + 1)
         /\ \A k, d : IsDeviceOf(old \o new, k, d) => IsDeviceOf(old \o Append(new, key), k, d)
<1>1. old \o Append(new, key) = Append(old \o new, key)
  <2>1. Append(new, key) = new \o <<key>> /\ <<key>> \in Seq(Keys)
    BY AppendIsConcat
  <2>2. old \o (new \o <<key>>) = (old \o new) \o <<key>>
    BY <2>1, ConcatAssociative
  <2>3. old \o new \in Seq(Keys)
    BY ConcatProperties
  <2>4. QED  BY <2>1, <2>2, <2>3, AppendIsConcat
<1>2. old \o new \in Seq(Keys)
  BY ConcatProperties
<1>3. QED  BY <1>1, <1>2, AppendProperties DEF IsDeviceOf

LEMMA TypeFacts ==
  ASSUME CycleTypeOK
  PROVE  /\ db.known \in Seq(Keys) /\ txn.known \in Seq(Keys) /\ Known \in Seq(Keys)
         /\ ~Locked => Known = db.known /\ txn.observed = {}
<1>1. db.known \in Seq(Keys) /\ txn.known \in Seq(Keys)
  BY DEF CycleTypeOK, Database, Transaction
<1>2. Known \in Seq(Keys)
  BY <1>1, ConcatProperties DEF Known
<1>3. ~Locked => txn.known = << >> /\ txn.observed = {}
  BY DEF CycleTypeOK, NoTxn
<1>4. db.known \o << >> = db.known
  BY <1>1, ConcatEmptySeq
<1>5. QED  BY <1>1, <1>2, <1>3, <1>4 DEF Known

\* The resolver finds the device of the key, or takes the next free row.
LEMMA LookupFacts ==
  ASSUME CycleTypeOK, Attributed, NEW k \in Keys
  PROVE  /\ Lookup(k) \in Nat
         /\ IsDeviceOf(Known, k, Lookup(k)) \/ Lookup(k) = Len(Known) + 1
<1>1. Known \in Seq(Keys) /\ Len(Known) \in Nat
  BY TypeFacts
<1>2. CASE k \in DOMAIN cache
  <2>1. IsDeviceOf(Known, k, cache[k])
    BY <1>2, RowsKeep, TypeFacts DEF Attributed, Known
  <2>2. QED  BY <1>1, <1>2, <2>1 DEF Lookup, IsDeviceOf
<1>3. CASE k \notin DOMAIN cache /\ k \in DOMAIN pending
  BY <1>1, <1>3 DEF Lookup, IsDeviceOf, Attributed
<1>4. CASE k \notin DOMAIN cache /\ k \notin DOMAIN pending /\ \E d \in IdsKnown : Known[d] = k
  <2> DEFINE found == CHOOSE d \in IdsKnown : Known[d] = k
  <2>1. found \in IdsKnown /\ Known[found] = k
    BY <1>4
  <2>2. Lookup(k) = found
    BY <1>4 DEF Lookup
  <2>3. QED  BY <1>1, <2>1, <2>2 DEF IsDeviceOf, IdsKnown
<1>5. CASE k \notin DOMAIN cache /\ k \notin DOMAIN pending /\ ~(\E d \in IdsKnown : Known[d] = k)
  BY <1>1, <1>5 DEF Lookup
<1>6. QED  BY <1>2, <1>3, <1>4, <1>5

-----------------------------------------------------------------------------
\* One lemma per step.

LEMMA QuietStep ==
  ASSUME CycleInv, (\E onAir \in SUBSET Advertisements : Scan(onAir)) \/ Begin
  PROVE  CycleInv'
<1>1. UNCHANGED <<db, cache, pending, tracker, settled>> /\ txn = NoTxn /\ txn' = NoTxn
  BY DEF Scan, Begin, CycleInv, CycleTypeOK, Locked
<1>2. CycleTypeOK'
  BY <1>1 DEF Scan, Begin, CycleInv, CycleTypeOK, Locked
<1>3. Attributed'
  BY <1>1 DEF CycleInv, Attributed, Known
<1>4. Matched'
  BY <1>1 DEF Scan, Begin, CycleInv, Matched, Latest, Settled
<1>5. Alerting'
  BY DEF Scan, Begin, Alerting
<1>6. QED  BY <1>2, <1>3, <1>4, <1>5 DEF CycleInv

LEMMA ResolveStep ==
  ASSUME CycleInv, NEW ad \in ads, Resolve(ad)
  PROVE  CycleInv'
<1> DEFINE k == ad[1]  d == Lookup(k)
           known == IF d > Len(Known) THEN Append(txn.known, k) ELSE txn.known
           observed == txn.observed \cup {<<k, d>>}
<1>1. /\ CycleTypeOK /\ Attributed /\ pc = "resolving" /\ pc' = "resolving" /\ k \in Keys
      /\ UNCHANGED <<db, cache, tracker, settled>> /\ txn \in Transaction
  BY DEF CycleInv, CycleTypeOK, Advertisements, Resolve
<1>2. txn' = [txn EXCEPT !.known = known, !.observed = observed]
  BY <1>1 DEF Resolve, Transaction
<1>3. /\ txn'.known = known /\ txn'.observed = observed
      /\ txn'.events = txn.events /\ txn'.alerts = txn.alerts
  BY <1>1, <1>2 DEF Transaction
<1>4. /\ known \in Seq(Keys) /\ d \in Nat /\ IsDeviceOf(db.known \o known, k, d)
      /\ \A l, e : IsDeviceOf(Known, l, e) => IsDeviceOf(db.known \o known, l, e)
  <2>1. d \in Nat /\ Len(Known) \in Nat
    BY <1>1, LookupFacts, TypeFacts
  <2>2. CASE d > Len(Known)
    <3>1. d = Len(Known) + 1
      BY <1>1, <2>2, LookupFacts DEF IsDeviceOf
    <3>2. QED  BY <1>1, <2>1, <2>2, <3>1, NewRow, TypeFacts DEF Known
  <2>3. CASE ~(d > Len(Known))
    <3>1. IsDeviceOf(Known, k, d)
      BY <1>1, <2>1, <2>3, LookupFacts
    <3>2. QED  BY <1>1, <2>1, <2>3, <3>1, TypeFacts DEF Known
  <2>4. QED  BY <2>2, <2>3
<1>5. txn' \in Transaction
  <2>1. observed \in SUBSET (Keys \X Nat)
    BY <1>1, <1>4 DEF Transaction
  <2> HIDE DEF known, observed
  <2>2. QED  BY <1>1, <1>2, <1>4, <2>1 DEF Transaction
<1>6. CycleTypeOK'
  BY <1>1, <1>5 DEF CycleTypeOK, Locked, Resolve
<1>7. Known' = db.known \o known
  BY <1>1, <1>3 DEF Known
<1>8. \A l \in DOMAIN pending' : IsDeviceOf(Known', l, pending'[l])
  BY <1>1, <1>4, <1>7 DEF Resolve, Attributed
<1>9. Attributed'
  <2>1. \A o \in txn'.observed : IsDeviceOf(Known', o[1], o[2])
    BY <1>1, <1>3, <1>4, <1>7 DEF Attributed
  <2>2. QED  BY <1>1, <1>8, <2>1 DEF Attributed
<1>10. Matched'
  BY <1>1 DEF CycleInv, Matched, Latest, Settled
<1>11. Alerting'
  BY <1>1 DEF Alerting
<1>12. QED  BY <1>6, <1>9, <1>10, <1>11 DEF CycleInv

LEMMA DecideStep ==
  ASSUME CycleInv, Decide
  PROVE  CycleInv'
<1> DEFINE events == P!WindowTransitions(tracker, heard)
           alerts == {d \in Ids : events[d] = P!PRESENT /\ d \notin db.labeled}
<1>1. /\ CycleTypeOK /\ txn \in Transaction /\ pc = "resolving" /\ pc' = "deciding"
      /\ txn' = [txn EXCEPT !.events = events, !.alerts = alerts]
      /\ tracker' = P!AfterWindow(tracker, heard)
      /\ UNCHANGED <<db, ads, heard, cache, pending, settled>>
      /\ \A d \in DOMAIN tracker : Sound(tracker[d])
  BY DEF CycleInv, CycleTypeOK, Matched, Decide, P!PRESENT
<1>2. \A d \in Ids :
         /\ events[d] \in P!Transitions
         /\ events[d] = P!PRESENT => Open(tracker', d)
         /\ events[d] = P!ABSENT => ~Open(tracker', d)
         /\ events[d] = P!NoTransition => (Open(tracker', d) <=> Open(tracker, d))
  BY <1>1, WindowFacts
<1>3. events \in [Ids -> P!Transitions]
  BY <1>2 DEF P!WindowTransitions
<1>4. /\ txn' \in Transaction /\ txn'.events = events /\ txn'.alerts = alerts
      /\ txn'.known = txn.known /\ txn'.observed = txn.observed
  <2>1. alerts \in SUBSET Ids
    OBVIOUS
  <2> HIDE DEF events, alerts
  <2>2. QED  BY <1>1, <1>3, <2>1 DEF Transaction
<1>5. CycleTypeOK'
  BY <1>1, <1>4 DEF CycleTypeOK, Locked
<1>6. Attributed'
  BY <1>1, <1>4 DEF CycleInv, Attributed, Known
<1>7. Matched'
  <2>1. \A d \in DOMAIN tracker' : Sound(tracker'[d])
    BY <1>1, AfterIsSound
  <2>2. ASSUME NEW d \in Ids
        PROVE  /\ Open(tracker', d) => Latest(d)' = P!PRESENT
               /\ Settled(d)' /\ Latest(d)' = P!PRESENT => Open(tracker', d)
    <3>1. Latest(d)' = IF events[d] # P!NoTransition THEN events[d] ELSE db.latest[d]
      BY <1>1, <1>4 DEF Latest
    <3>2. Settled(d)' <=> d \in settled \/ events[d] = P!PRESENT
      BY <1>1, <1>4 DEF Settled
    <3>3. /\ Open(tracker, d) => db.latest[d] = P!PRESENT
          /\ d \in settled /\ db.latest[d] = P!PRESENT => Open(tracker, d)
      BY <1>1 DEF CycleInv, Matched, Latest, Settled
    <3>4. events[d] \in {P!ABSENT, P!PRESENT, P!NoTransition}
      BY <1>2 DEF P!Transitions
    <3> HIDE DEF events
    <3>5. QED  BY <1>2, <3>1, <3>2, <3>3, <3>4, Names
  <2>3. QED  BY <1>1, <2>1, <2>2 DEF Matched
<1>8. Alerting'
  BY <1>1, <1>4 DEF Alerting
<1>9. QED  BY <1>5, <1>6, <1>7, <1>8 DEF CycleInv

LEMMA CommitStep ==
  ASSUME CycleInv, Commit
  PROVE  CycleInv'
<1> DEFINE latest == [d \in Ids |-> IF txn.events[d] = P!NoTransition
                                    THEN db.latest[d] ELSE txn.events[d]]
<1>1. /\ CycleTypeOK /\ Attributed /\ db \in Database /\ txn \in Transaction /\ pc = "deciding"
      /\ db' = [known |-> Known, labeled |-> db.labeled, latest |-> latest,
                observed |-> db.observed \cup txn.observed]
      /\ settled' = settled \cup {d \in Ids : txn.events[d] = P!PRESENT}
      /\ pc' = "committed" /\ txn' = NoTxn
      /\ UNCHANGED <<ads, heard, cache, pending, tracker>>
  BY DEF CycleInv, CycleTypeOK, Commit, P!PRESENT
<1>2. latest \in [Ids -> P!Transitions]
  BY <1>1 DEF Database, Transaction
<1>3. db' \in Database
  <2> HIDE DEF latest
  <2>1. QED  BY <1>1, <1>2, TypeFacts DEF Database, Transaction
<1>4. NoTxn \in Transaction
  <2>1. << >> \in Seq(Keys) /\ NoEvents \in [Ids -> P!Transitions]
    BY DEF NoEvents, P!Transitions
  <2>2. QED  BY <2>1 DEF NoTxn, Transaction
<1>5. CycleTypeOK'
  BY <1>1, <1>3, <1>4 DEF CycleTypeOK
<1>6. db'.known = Known /\ Known' = Known /\ txn'.observed = {}
  <2>1. db'.known = Known /\ txn'.known = << >> /\ txn'.observed = {}
    BY <1>1 DEF NoTxn
  <2>2. Known \o << >> = Known
    BY <1>1, TypeFacts, ConcatEmptySeq
  <2>3. QED  BY <2>1, <2>2 DEF Known
<1>7. Attributed'
  <2>1. \A o \in db.observed : IsDeviceOf(Known, o[1], o[2])
    BY <1>1, RowsKeep, TypeFacts DEF Attributed, Known
  <2>2. \A k \in DOMAIN cache : IsDeviceOf(Known, k, cache[k])
    BY <1>1, RowsKeep, TypeFacts DEF Attributed, Known
  <2>3. \A o \in db'.observed : IsDeviceOf(Known, o[1], o[2])
    BY <1>1, <2>1 DEF Attributed
  <2>4. QED  BY <1>1, <1>6, <2>2, <2>3 DEF Attributed
<1>8. Matched'
  <2>1. ASSUME NEW d \in Ids
        PROVE  Latest(d)' = Latest(d) /\ (Settled(d)' <=> Settled(d))
    BY <1>1 DEF Latest, Settled
  <2>2. QED  BY <1>1, <2>1 DEF CycleInv, Matched
<1>9. Alerting'
  BY <1>1 DEF Alerting
<1>10. QED  BY <1>5, <1>7, <1>8, <1>9 DEF CycleInv

LEMMA PublishStep ==
  ASSUME CycleInv, Publish
  PROVE  CycleInv'
<1>1. /\ CycleTypeOK /\ Attributed /\ pc = "committed" /\ pc' = "idle" /\ pending' = Forgotten
      /\ UNCHANGED <<db, txn, ads, heard, tracker, settled>>
  BY DEF CycleInv, Publish
<1>2. PICK kept \in {Forgotten, cache} :
         cache' = [k \in DOMAIN kept \cup DOMAIN pending |->
                      IF k \in DOMAIN pending THEN pending[k] ELSE kept[k]]
  BY DEF Publish
<1>3. Known = db.known /\ DOMAIN Forgotten = {}
  BY <1>1, TypeFacts DEF Locked, Forgotten
<1>4. Attributed'
  BY <1>1, <1>2, <1>3 DEF Attributed, Known
<1>5. CycleTypeOK'
  BY <1>1 DEF CycleTypeOK, Locked
<1>6. Matched'
  BY <1>1 DEF CycleInv, Matched, Latest, Settled
<1>7. QED  BY <1>1, <1>4, <1>5, <1>6 DEF CycleInv, Alerting

\* ROLLBACK, or the end of the process: what was staged is gone with the rows.
LEMMA RollbackStep ==
  ASSUME CycleInv, Fail \/ Die
  PROVE  CycleInv'
<1>1. /\ CycleTypeOK /\ Attributed /\ db' = db /\ txn' = NoTxn /\ ads' \subseteq Advertisements
      /\ pc' \in {"failed", "down"} /\ pending' = Forgotten /\ cache' \in {cache, Forgotten}
      /\ (pc' = "failed" /\ tracker' = tracker) \/ (tracker' = FreshTracker /\ settled' = {})
  BY DEF CycleInv, CycleTypeOK, Fail, Die
<1>2. DOMAIN Forgotten = {} /\ DOMAIN FreshTracker = {}
  BY DEF Forgotten, FreshTracker
<1>3. NoTxn \in Transaction /\ NoTxn.observed = {}
  <2>1. << >> \in Seq(Keys) /\ NoEvents \in [Ids -> P!Transitions]
    BY DEF NoEvents, P!Transitions
  <2>2. QED  BY <2>1 DEF NoTxn, Transaction
<1>4. CycleTypeOK'
  BY <1>1, <1>3 DEF CycleTypeOK
<1>5. Attributed'
  BY <1>1, <1>2, <1>3 DEF Attributed
<1>6. Matched'
  BY <1>1, <1>2 DEF CycleInv, Matched, Open, Settled
<1>7. QED  BY <1>1, <1>4, <1>5, <1>6 DEF CycleInv, Alerting

\* Going on after it, with a new tracker, or starting again, over the rows there
\* are.
LEMMA AfreshStep ==
  ASSUME CycleInv, CarryOn \/ \E warm \in SUBSET Ids : Restart(warm)
  PROVE  CycleInv'
<1>1. /\ CycleTypeOK /\ Attributed /\ ~Locked /\ UNCHANGED <<db, txn, ads, heard, pending>>
      /\ pc' = "idle"
  BY DEF CycleInv, CarryOn, Restart, Locked
<1>2. CycleTypeOK'
  BY <1>1 DEF CycleTypeOK, Locked
<1>3. Attributed'
  <2>1. \A k \in DOMAIN cache' : IsDeviceOf(db.known, k, cache'[k])
    <3>1. CASE CarryOn
      BY <1>1, <3>1 DEF CarryOn, Attributed
    <3>2. CASE \E warm \in SUBSET Ids : Restart(warm)
      <4>1. PICK warm \in SUBSET Ids : Restart(warm)
        BY <3>2
      <4>2. ASSUME NEW k \in DOMAIN cache' PROVE IsDeviceOf(db.known, k, cache'[k])
        <5> DEFINE found == CHOOSE d \in warm : db.known[d] = k
        <5>1. \E d \in warm : db.known[d] = k
          BY <4>1 DEF Restart
        <5>2. found \in warm /\ db.known[found] = k
          BY <5>1
        <5>3. cache'[k] = found /\ warm \subseteq 1..Len(db.known)
          BY <4>1 DEF Restart
        <5>4. QED  BY <5>2, <5>3 DEF IsDeviceOf
      <4>3. QED  BY <4>2
    <3>3. QED  BY <3>1, <3>2
  <2>2. QED  BY <1>1, <2>1 DEF Attributed, Known
<1>4. Matched'
  <2>1. CASE CarryOn
    BY <1>1, <2>1 DEF CarryOn, Matched, Open, Settled, FreshTracker
  <2>2. CASE \E warm \in SUBSET Ids : Restart(warm)
    BY <1>1, <2>2 DEF Restart, CycleInv, Matched, Latest, Settled
  <2>3. QED  BY <2>1, <2>2
<1>5. QED  BY <1>1, <1>2, <1>3, <1>4 DEF CycleInv, Alerting

LEMMA LabelStep ==
  ASSUME CycleInv, NEW d \in Ids, Label(d)
  PROVE  CycleInv'
<1>1. /\ CycleTypeOK /\ ~Locked /\ db' = [db EXCEPT !.labeled = @ \cup {d}] /\ d \in Nat
      /\ UNCHANGED <<txn, pc, ads, heard, cache, pending, tracker, settled>>
  BY TypeFacts DEF CycleInv, Label
<1>2. /\ db' \in Database /\ db'.known = db.known /\ db'.latest = db.latest
      /\ db'.observed = db.observed
  BY <1>1 DEF CycleTypeOK, Database
<1>3. CycleTypeOK'
  BY <1>1, <1>2 DEF CycleTypeOK, Locked
<1>4. Attributed'
  BY <1>1, <1>2 DEF CycleInv, Attributed, Known
<1>5. Matched'
  BY <1>1, <1>2 DEF CycleInv, Matched, Latest, Settled
<1>6. QED  BY <1>1, <1>3, <1>4, <1>5 DEF CycleInv, Alerting, Locked

-----------------------------------------------------------------------------

LEMMA CycleInitInv ==
  ASSUME Init
  PROVE  CycleInv
<1>1. << >> \in Seq(Keys) /\ Len(<< >>) = 0 /\ NoEvents \in [Ids -> P!Transitions]
  BY DEF NoEvents, P!Transitions
<1>2. DOMAIN Forgotten = {} /\ DOMAIN FreshTracker = {}
  BY DEF Forgotten, FreshTracker
<1>3. NoTxn \in Transaction /\ NoTxn.observed = {}
  BY <1>1 DEF NoTxn, Transaction
<1>4. db \in Database /\ db.observed = {}
  BY <1>1 DEF Init, Database
<1>5. CycleTypeOK
  BY <1>3, <1>4 DEF Init, CycleTypeOK
<1>6. Attributed
  BY <1>2, <1>3, <1>4 DEF Init, Attributed
<1>7. Matched
  BY <1>2 DEF Init, Matched, Open, Settled
<1>8. QED  BY <1>5, <1>6, <1>7 DEF Init, CycleInv, Alerting

LEMMA CycleStep ==
  ASSUME CycleInv, [Next]_vars
  PROVE  CycleInv'
<1>1. CASE UNCHANGED vars
  BY <1>1 DEF vars, CycleInv, CycleTypeOK, Locked, Attributed, Known, Matched, Latest, Settled,
              Alerting
<1>2. CASE Cycle
  BY <1>2, QuietStep, ResolveStep, DecideStep, CommitStep, PublishStep DEF Cycle
<1>3. CASE Fail \/ CarryOn \/ Die \/ \E warm \in SUBSET Ids : Restart(warm)
  BY <1>3, RollbackStep, AfreshStep
<1>4. CASE \E d \in Ids : Label(d)
  BY <1>4, LabelStep
<1>5. QED  BY <1>1, <1>2, <1>3, <1>4 DEF Next

LEMMA CycleInvariance == Spec => []CycleInv
<1>1. Init => CycleInv
  BY CycleInitInv
<1>2. CycleInv /\ [Next]_vars => CycleInv'
  BY CycleStep
<1>3. QED  BY <1>1, <1>2, PTL DEF Spec

\* For any number of keys, and whatever fails: no id that a rollback took back
\* stays in the cache or in a committed row.
THEOREM AttributedForGood == Spec => []ObservationsAreAttributed
<1>1. CycleInv => ObservationsAreAttributed
  BY DEF CycleInv, Attributed, IsDeviceOf, ObservationsAreAttributed
<1>2. QED  BY <1>1, CycleInvariance, PTL

\* For any thresholds, cooldown and pruning: the tracker and the event log agree
\* on the open visits between cycles.
THEOREM TrackerAgrees == Spec => []TrackerMatchesLog
<1>1. ASSUME CycleInv, pc \in {"idle", "scanned"}, NEW d \in Ids
      PROVE  /\ Open(tracker, d) => db.latest[d] = P!PRESENT
             /\ d \in settled /\ db.latest[d] = P!PRESENT => Open(tracker, d)
  BY <1>1 DEF CycleInv, Matched, Latest, Settled
<1>2. CycleInv => TrackerMatchesLog
  BY <1>1 DEF TrackerMatchesLog, Open, P!PRESENT
<1>3. QED  BY <1>2, CycleInvariance, PTL

\* An alert commits with its arrival, for a device without a label at that moment.
THEOREM AlertsCommitWithArrivals == Spec => AlertsMatchArrivals
<1> DEFINE Step == pc = "deciding" /\ pc' = "committed" =>
          \A d \in Ids :
             d \in txn.alerts <=> /\ db'.latest[d] = "PRESENT"
                                  /\ txn.events[d] = "PRESENT"
                                  /\ d \notin db'.labeled
<1>1. CycleInv /\ [Next]_vars => Step
  <2> SUFFICES ASSUME CycleInv, [Next]_vars, pc = "deciding", pc' = "committed", NEW d \in Ids
               PROVE  d \in txn.alerts <=> /\ db'.latest[d] = "PRESENT"
                                           /\ txn.events[d] = "PRESENT"
                                           /\ d \notin db'.labeled
    OBVIOUS
  <2>1. Commit
    BY DEF Next, vars, Cycle, Scan, Begin, Resolve, Decide, Publish, Fail, CarryOn, Die,
           Restart, Label
  <2>2. /\ db'.latest[d] = (IF txn.events[d] = P!NoTransition THEN db.latest[d] ELSE txn.events[d])
        /\ db'.labeled = db.labeled
    BY <2>1 DEF Commit
  <2>3. d \in txn.alerts <=> txn.events[d] = P!PRESENT /\ d \notin db.labeled
    BY DEF CycleInv, Alerting
  <2>4. QED  BY <2>2, <2>3, Names DEF P!PRESENT
<1>2. QED  BY <1>1, CycleInvariance, PTL DEF Spec, AlertsMatchArrivals

=============================================================================
