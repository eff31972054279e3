--------------------------- MODULE PresenceProofs ---------------------------
(***************************************************************************)
(* Proofs about Presence, for every set of devices and every threshold:    *)
(* type correctness, the consistency of the per-device records, and that   *)
(* the tracker implements Visits.                                          *)
(***************************************************************************)
EXTENDS PresenceRefinement, TLAPS

IInv == TypeOK /\ RecordsConsistent

-----------------------------------------------------------------------------
\* One device, one window.

LEMMA NewDeviceFacts == NewDevice \in DeviceState /\ Consistent(NewDevice)
  BY PresenceAssumption DEF NewDevice, DeviceState, Consistent, ABSENT, PRESENT

LEMMA FieldTypes ==
  ASSUME NEW s \in DeviceState
  PROVE  /\ s.state = ABSENT \/ s.state = PRESENT
         /\ s.hits \in 0..HitCap
         /\ s.misses \in Nat
         /\ s.cooldown_remaining \in 0..Cooldown
         /\ s.present_emitted \in BOOLEAN
  BY DEF DeviceState

LEMMA HitFacts ==
  ASSUME NEW s \in DeviceState, Consistent(s)
  PROVE  Hit(s) \in DeviceState /\ Consistent(Hit(s))
<1> DEFINE hits == Saturate(s.hits + 1)
           cooldown == CoolDown(s.cooldown_remaining)
           arrives == s.state = ABSENT /\ hits >= Appear
<1>1. hits \in 1..HitCap /\ cooldown \in 0..Cooldown
  <2>1. s.hits \in 0..HitCap /\ s.cooldown_remaining \in 0..Cooldown
    BY FieldTypes
  <2>2. QED  BY <2>1, PresenceAssumption DEF Saturate, CoolDown
<1>2. CASE arrives
  <2>1. Hit(s) = [state |-> PRESENT, hits |-> 0, misses |-> 0,
                  cooldown_remaining |-> cooldown,
                  present_emitted |-> (cooldown = 0)]
    BY <1>2 DEF Hit
  <2>2. (cooldown = 0) \in BOOLEAN
    OBVIOUS
  <2>3. QED
    BY <1>1, <2>1, <2>2, PresenceAssumption
       DEF DeviceState, Consistent, ABSENT, PRESENT
<1>3. CASE ~arrives
  <2>1. Hit(s) = [state |-> s.state, hits |-> hits, misses |-> 0,
                  cooldown_remaining |-> cooldown,
                  present_emitted |-> s.present_emitted]
    BY <1>3 DEF Hit
  <2>2. s.state = ABSENT => hits < Appear
    BY <1>1, <1>3, PresenceAssumption
  <2>3. QED
    BY <1>1, <2>1, <2>2, FieldTypes, PresenceAssumption
       DEF DeviceState, Consistent, ABSENT, PRESENT
<1>4. QED  BY <1>2, <1>3

LEMMA MissFacts ==
  ASSUME NEW s \in DeviceState, Consistent(s)
  PROVE  Miss(s) \in DeviceState /\ Consistent(Miss(s))
<1> DEFINE misses == s.misses + 1
           cooldown == CoolDown(s.cooldown_remaining)
           leaves == s.state = PRESENT /\ misses >= Disappear
<1>1. misses \in Nat /\ cooldown \in 0..Cooldown
  BY FieldTypes, PresenceAssumption DEF CoolDown
<1>2. CASE leaves
  <2>1. Miss(s) = [state |-> ABSENT, hits |-> 0, misses |-> misses,
                   cooldown_remaining |-> Cooldown, present_emitted |-> FALSE]
    BY <1>2 DEF Miss
  <2>2. QED
    BY <1>1, <2>1, PresenceAssumption
       DEF DeviceState, Consistent, ABSENT, PRESENT
<1>3. CASE ~leaves
  <2>1. Miss(s) = [state |-> s.state, hits |-> 0, misses |-> misses,
                   cooldown_remaining |-> cooldown,
                   present_emitted |-> s.present_emitted]
    BY <1>3 DEF Miss
  <2>2. s.state = PRESENT => misses < Disappear
    BY <1>1, <1>3, PresenceAssumption
  <2>3. QED
    BY <1>1, <2>1, <2>2, FieldTypes, PresenceAssumption
       DEF DeviceState, Consistent, ABSENT, PRESENT
<1>4. QED  BY <1>2, <1>3

-----------------------------------------------------------------------------
\* The table after a window: every device has the record Hit or Miss gives
\* it, or it was pruned.

LEMMA TrackedFacts ==
  ASSUME IInv, NEW h \in [Devices -> Signals]
  PROVE  /\ Seen(h) \subseteq Devices
         /\ DOMAIN Tracked(devices, h) \subseteq Devices
         /\ \A d \in DOMAIN Tracked(devices, h) :
               /\ Tracked(devices, h)[d] = Record(d)
               /\ Record(d) \in DeviceState
               /\ Consistent(Record(d))
  BY NewDeviceFacts DEF IInv, TypeOK, RecordsConsistent, Seen, Tracked, Record

LEMMA SteppedFacts ==
  ASSUME IInv, NEW h \in [Devices -> Signals],
         NEW d \in DOMAIN Tracked(devices, h)
  PROVE  /\ Stepped(devices, h, d) = IF d \in Seen(h) THEN Hit(Record(d))
                                                      ELSE Miss(Record(d))
         /\ Stepped(devices, h, d) \in DeviceState
         /\ Consistent(Stepped(devices, h, d))
<1>1. /\ Tracked(devices, h)[d] = Record(d)
      /\ Record(d) \in DeviceState
      /\ Consistent(Record(d))
  BY TrackedFacts
<1>2. CASE d \in Seen(h)
  BY <1>1, <1>2, HitFacts DEF Stepped
<1>3. CASE d \notin Seen(h)
  BY <1>1, <1>3, MissFacts DEF Stepped
<1>4. QED  BY <1>2, <1>3

-----------------------------------------------------------------------------

LEMMA InitIInv == Init => IInv
  BY PresenceAssumption
     DEF Init, IInv, TypeOK, RecordsConsistent, Signals, Transitions

LEMMA UpdateIInv ==
  ASSUME IInv, NEW h \in [Devices -> Signals], Update(h)
  PROVE  IInv'
<1>1. /\ DOMAIN devices' \subseteq DOMAIN Tracked(devices, h)
      /\ \A d \in DOMAIN devices' : devices'[d] = Stepped(devices, h, d)
  BY DEF Update, AfterWindow
<1>2. DOMAIN devices' \subseteq Devices
  BY <1>1, TrackedFacts
<1>3. \A d \in DOMAIN devices' : devices'[d] \in DeviceState /\ Consistent(devices'[d])
  BY <1>1, SteppedFacts
<1>4. heard' \in [Devices -> Signals]
  BY DEF Update
<1>5. transitions' \in [Devices -> Transitions]
  BY DEF Update, WindowTransitions, Announce, Transitions
<1>6. QED
  BY <1>2, <1>3, <1>4, <1>5 DEF IInv, TypeOK, RecordsConsistent

LEMMA StepIInv == IInv /\ [Next]_vars => IInv'
<1>1. IInv /\ Next => IInv'
  BY UpdateIInv DEF Next
<1>2. IInv /\ UNCHANGED vars => IInv'
  BY DEF IInv, TypeOK, RecordsConsistent, vars
<1>3. QED  BY <1>1, <1>2

\* The inductive invariant of the tracker.
THEOREM Invariance == Spec => []IInv
  BY InitIInv, StepIInv, PTL DEF Spec

\* Every record has its type, for all thresholds the constructor accepts.
THEOREM TypeCorrect == Spec => []TypeOK
<1>1. IInv => TypeOK
  BY DEF IInv
<1>2. QED  BY <1>1, Invariance, PTL

\* No departed device has an open visit, and neither counter passes the
\* threshold at which the state would have flipped.
THEOREM ConsistentRecords == Spec => []RecordsConsistent
<1>1. IInv => RecordsConsistent
  BY DEF IInv
<1>2. QED  BY <1>1, Invariance, PTL

-----------------------------------------------------------------------------
(***************************************************************************)
(* The refinement. AfterRecord(d, h) is the record d would have if nothing *)
(* were ever pruned; pruning changes none of the fields Visits can see.    *)
(***************************************************************************)

AfterRecord(d, h) == IF d \in Seen(h) THEN Hit(Record(d)) ELSE Miss(Record(d))

LEMMA RecordFacts ==
  ASSUME IInv, NEW d \in Devices
  PROVE  Record(d) \in DeviceState /\ Consistent(Record(d))
  BY NewDeviceFacts DEF IInv, TypeOK, RecordsConsistent, Record

LEMMA AfterRecordFacts ==
  ASSUME IInv, NEW d \in Devices, NEW h \in [Devices -> Signals]
  PROVE  AfterRecord(d, h) \in DeviceState /\ Consistent(AfterRecord(d, h))
<1>1. Record(d) \in DeviceState /\ Consistent(Record(d))
  BY RecordFacts
<1>2. QED  BY <1>1, HitFacts, MissFacts DEF AfterRecord

\* Two records Visits cannot tell apart.
Alike(r, t) ==
  /\ r.state = t.state
  /\ r.hits = t.hits
  /\ r.cooldown_remaining = t.cooldown_remaining
  /\ r.present_emitted = t.present_emitted
  /\ t.state = PRESENT => r.misses = t.misses

LEMMA PruningIsInvisible ==
  ASSUME IInv, NEW h \in [Devices -> Signals], Update(h), NEW d \in Devices
  PROVE  Alike(Record(d)', AfterRecord(d, h))
<1> DEFINE t == AfterRecord(d, h)
<1>1. t \in DeviceState /\ Consistent(t)
  BY AfterRecordFacts
<1>2. CASE d \in DOMAIN Tracked(devices, h) \ Pruned(devices, h)
  <2>1. Record(d)' = Stepped(devices, h, d)
    BY <1>2 DEF Update, AfterWindow, Record
  <2>2. Stepped(devices, h, d) = t
    BY <1>2, SteppedFacts DEF AfterRecord
  <2>3. QED  BY <2>1, <2>2 DEF Alike
<1>3. CASE d \in Pruned(devices, h)
  <2>1. d \in DOMAIN Tracked(devices, h) /\ d \notin Seen(h)
        /\ ShouldPrune(Stepped(devices, h, d))
    BY <1>3 DEF Pruned
  <2>2. Record(d)' = NewDevice
    BY <1>3 DEF Update, AfterWindow, Record
  <2>3. ShouldPrune(t) /\ t.hits = 0
    BY <2>1, SteppedFacts DEF AfterRecord, Miss
  <2>4. t.present_emitted = FALSE
    BY <1>1, <2>3, FieldTypes DEF ShouldPrune, Consistent
  <2>5. /\ t.state = NewDevice.state
        /\ t.hits = NewDevice.hits
        /\ t.cooldown_remaining = NewDevice.cooldown_remaining
        /\ t.state # PRESENT
    BY <2>3 DEF NewDevice, ShouldPrune, ABSENT, PRESENT
  <2>6. t.present_emitted = NewDevice.present_emitted
    BY <2>4 DEF NewDevice
  <2>7. QED
    BY <2>2, <2>5, <2>6, Zenon DEF Alike
<1>4. CASE d \notin DOMAIN Tracked(devices, h)
  <2>1. d \notin DOMAIN devices /\ d \notin Seen(h)
    BY <1>4 DEF Tracked
  <2>2. Record(d)' = NewDevice /\ t = Miss(NewDevice)
    BY <1>4, <2>1 DEF Update, AfterWindow, Record, AfterRecord
  <2>3. QED
    BY <2>2 DEF Alike, Miss, NewDevice, CoolDown, ABSENT, PRESENT
<1>5. QED  BY <1>2, <1>3, <1>4

LEMMA AnnouncementOf ==
  ASSUME IInv, NEW h \in [Devices -> Signals], Update(h), NEW d \in Devices
  PROVE  transitions'[d] = Announce(Record(d), AfterRecord(d, h))
<1>1. CASE d \in DOMAIN Tracked(devices, h)
  BY <1>1, TrackedFacts, SteppedFacts DEF Update, WindowTransitions, AfterRecord
<1>2. CASE d \notin DOMAIN Tracked(devices, h)
  <2>1. d \notin DOMAIN devices /\ d \notin Seen(h)
    BY <1>2 DEF Tracked
  <2>2. Record(d) = NewDevice /\ AfterRecord(d, h) = Miss(NewDevice)
    BY <2>1 DEF Record, AfterRecord
  <2>3. Announce(NewDevice, Miss(NewDevice)) = NoTransition
    BY DEF Announce, Miss, NewDevice, ABSENT, PRESENT
  <2>4. QED  BY <1>2, <2>2, <2>3 DEF Update, WindowTransitions
<1>3. QED  BY <1>1, <1>2

\* The three things a window can do to a device, as Visits sees them.
Arrives(d, h) ==
  d \in Seen(h) /\ Record(d).state = ABSENT /\ Record(d).hits + 1 >= Appear

Leaves(d, h) ==
  d \notin Seen(h) /\ Record(d).state = PRESENT /\ Record(d).misses + 1 >= Disappear

Cooled(d) == CoolDown(Record(d).cooldown_remaining)

LEMMA Arrival ==
  ASSUME IInv, NEW h \in [Devices -> Signals], Update(h),
         NEW d \in Devices, Arrives(d, h)
  PROVE  /\ Record(d)'.state = PRESENT
         /\ Record(d)'.misses = 0
         /\ Record(d)'.cooldown_remaining = Cooled(d)
         /\ Record(d)'.present_emitted <=> Cooled(d) = 0
         /\ transitions'[d] = IF Cooled(d) = 0 THEN PRESENT ELSE NoTransition
<1>1. Record(d) \in DeviceState
  BY RecordFacts
<1>2. Saturate(Record(d).hits + 1) >= Appear
  BY <1>1, PresenceAssumption DEF Saturate, Arrives, DeviceState
<1>3. AfterRecord(d, h) = [state |-> PRESENT, hits |-> 0, misses |-> 0,
                           cooldown_remaining |-> Cooled(d),
                           present_emitted |-> (Cooled(d) = 0)]
  BY <1>2 DEF AfterRecord, Hit, Arrives, Cooled
<1>4. AfterRecord(d, h).present_emitted <=> Cooled(d) = 0
  <2>1. AfterRecord(d, h).present_emitted = (Cooled(d) = 0)
    BY <1>3
  <2>2. QED  BY <2>1, Zenon
<1>5. Alike(Record(d)', AfterRecord(d, h))
  BY PruningIsInvisible
<1>6. transitions'[d] = Announce(Record(d), AfterRecord(d, h))
  BY AnnouncementOf
<1>7. /\ AfterRecord(d, h).state = PRESENT
      /\ AfterRecord(d, h).misses = 0
      /\ AfterRecord(d, h).cooldown_remaining = Cooled(d)
  BY <1>3
<1>8. Record(d).state = ABSENT /\ Record(d).state # PRESENT
  BY DEF Arrives, ABSENT, PRESENT
<1>9. transitions'[d] = IF Cooled(d) = 0 THEN PRESENT ELSE NoTransition
  BY <1>4, <1>6, <1>7, <1>8, Zenon DEF Announce
<1>10. QED  BY <1>4, <1>5, <1>7, <1>9, Zenon DEF Alike

LEMMA Departure ==
  ASSUME IInv, NEW h \in [Devices -> Signals], Update(h),
         NEW d \in Devices, Leaves(d, h)
  PROVE  /\ Record(d)'.state = ABSENT
         /\ Record(d)'.hits = 0
         /\ Record(d)'.cooldown_remaining = Cooldown
         /\ ~Record(d)'.present_emitted
         /\ transitions'[d] = IF Record(d).present_emitted THEN ABSENT
                                                           ELSE NoTransition
<1>1. AfterRecord(d, h) = [state |-> ABSENT, hits |-> 0,
                           misses |-> Record(d).misses + 1,
                           cooldown_remaining |-> Cooldown,
                           present_emitted |-> FALSE]
  BY DEF AfterRecord, Miss, Leaves
<1>2. Alike(Record(d)', AfterRecord(d, h))
  BY PruningIsInvisible
<1>3. transitions'[d] = Announce(Record(d), AfterRecord(d, h))
  BY AnnouncementOf
<1>4. transitions'[d] = IF Record(d).present_emitted THEN ABSENT ELSE NoTransition
  BY <1>1, <1>3 DEF Announce, Leaves, ABSENT, PRESENT
<1>5. QED  BY <1>1, <1>2, <1>4 DEF Alike

LEMMA NoCrossing ==
  ASSUME IInv, NEW h \in [Devices -> Signals], Update(h),
         NEW d \in Devices, ~Arrives(d, h), ~Leaves(d, h)
  PROVE  /\ Record(d)'.state = Record(d).state
         /\ Record(d).state = PRESENT =>
               Record(d)'.misses = IF d \in Seen(h) THEN 0 ELSE Record(d).misses + 1
         /\ Record(d).state = ABSENT =>
               Record(d)'.hits = IF d \in Seen(h) THEN Record(d).hits + 1 ELSE 0
         /\ Record(d)'.cooldown_remaining = Cooled(d)
         /\ Record(d)'.present_emitted = Record(d).present_emitted
         /\ transitions'[d] = NoTransition
<1> DEFINE s == Record(d)
           hits == Saturate(s.hits + 1)
<1>1. s \in DeviceState /\ Consistent(s)
  BY RecordFacts
<1>2. Alike(Record(d)', AfterRecord(d, h))
  BY PruningIsInvisible
<1>3. transitions'[d] = Announce(s, AfterRecord(d, h))
  BY AnnouncementOf
<1>4. CASE d \in Seen(h)
  <2>1. s.state = ABSENT => hits = s.hits + 1 /\ hits < Appear
    BY <1>1, <1>4, PresenceAssumption DEF Arrives, DeviceState, Saturate
  <2>2. ~(s.state = ABSENT /\ hits >= Appear)
    BY <1>1, <2>1, PresenceAssumption DEF DeviceState
  <2>3. AfterRecord(d, h) = [state |-> s.state, hits |-> hits, misses |-> 0,
                             cooldown_remaining |-> Cooled(d),
                             present_emitted |-> s.present_emitted]
    BY <1>4, <2>2 DEF AfterRecord, Hit, Cooled
  <2>4. transitions'[d] = NoTransition
    BY <1>3, <2>3 DEF Announce, ABSENT, PRESENT
  <2>5. QED  BY <1>2, <1>4, <2>1, <2>3, <2>4 DEF Alike
<1>5. CASE d \notin Seen(h)
  <2>1. ~(s.state = PRESENT /\ s.misses + 1 >= Disappear)
    BY <1>5 DEF Leaves
  <2>2. AfterRecord(d, h) = [state |-> s.state, hits |-> 0,
                             misses |-> s.misses + 1,
                             cooldown_remaining |-> Cooled(d),
                             present_emitted |-> s.present_emitted]
    BY <1>5, <2>1 DEF AfterRecord, Miss, Cooled
  <2>3. transitions'[d] = NoTransition
    BY <1>3, <2>2 DEF Announce, ABSENT, PRESENT
  <2>4. QED  BY <1>2, <1>5, <2>2, <2>3 DEF Alike
<1>6. QED  BY <1>4, <1>5

-----------------------------------------------------------------------------
\* A window of the tracker is a window of Visits, variable by variable.

LEMMA WindowStep ==
  ASSUME IInv, NEW h \in [Devices -> Signals], Update(h)
  PROVE  V!Window(Seen(h))
<1> DEFINE arrive  == {d \in Seen(h) \ hereBar : runBar[d] + 1 >= Appear}
           leave   == {d \in hereBar \ Seen(h) : runBar[d] + 1 >= Disappear}
           aged    == [d \in Devices |-> V!Older(awayBar[d])]
           greeted == {d \in arrive : aged[d] = Cooldown}
<1>1. Seen(h) \subseteq Devices
  BY DEF Seen
<1>2. \A d \in Devices : Record(d) \in DeviceState /\ Consistent(Record(d))
  BY RecordFacts
<1>3. \A d \in Devices : d \in hereBar <=> Record(d).state = PRESENT
  BY DEF hereBar
<1>4. \A d \in Devices : d \notin hereBar <=> Record(d).state = ABSENT
  BY <1>2, <1>3 DEF DeviceState, ABSENT, PRESENT
<1>5. \A d \in Devices : d \in arrive <=> Arrives(d, h)
  BY <1>3, <1>4 DEF Arrives, runBar
<1>6. \A d \in Devices : d \in leave <=> Leaves(d, h)
  BY <1>3, <1>4 DEF Leaves, runBar
<1>7. /\ arrive \subseteq Devices /\ leave \subseteq Devices
      /\ arrive \cap leave = {}
  BY <1>1 DEF hereBar
<1>8. \A d \in Devices : aged[d] = Cooldown - Cooled(d)
  <2>1. ASSUME NEW d \in Devices
        PROVE  aged[d] = Cooldown - Cooled(d)
    <3>1. Record(d).cooldown_remaining \in 0..Cooldown
      BY <1>2, FieldTypes
    <3>2. aged[d] = V!Older(Cooldown - Record(d).cooldown_remaining)
      BY DEF awayBar
    <3>3. QED
      BY <3>1, <3>2, PresenceAssumption DEF V!Older, Cooled, CoolDown
  <2>2. QED  BY <2>1
<1>9. \A d \in Devices : Cooled(d) = 0 <=> aged[d] = Cooldown
  <2>1. ASSUME NEW d \in Devices
        PROVE  Cooled(d) = 0 <=> aged[d] = Cooldown
    <3> HIDE DEF aged
    <3>1. Record(d).cooldown_remaining \in 0..Cooldown
      BY <1>2, FieldTypes
    <3>2. Cooled(d) \in Nat
      BY <3>1, PresenceAssumption DEF Cooled, CoolDown
    <3>3. aged[d] = Cooldown - Cooled(d)
      BY <1>8
    <3>4. QED  BY <3>2, <3>3, PresenceAssumption
  <2>2. QED  BY <2>1
<1>10. hereBar' = (hereBar \cup arrive) \ leave
  <2>1. \A d \in Devices : Record(d)'.state = PRESENT
                             <=> (d \in hereBar \cup arrive) /\ d \notin leave
    BY <1>3, <1>4, <1>5, <1>6, <1>7, Arrival, Departure, NoCrossing
       DEF ABSENT, PRESENT
  <2>2. QED  BY <1>7, <2>1 DEF hereBar
<1>11. runBar' =
         [d \in Devices |->
            IF d \in ((hereBar \ Seen(h)) \cup (Seen(h) \ hereBar)) \ (arrive \cup leave)
            THEN runBar[d] + 1 ELSE 0]
  <2>1. ASSUME NEW d \in Devices
        PROVE  (IF Record(d)'.state = PRESENT THEN Record(d)'.misses ELSE Record(d)'.hits)
               = IF d \in ((hereBar \ Seen(h)) \cup (Seen(h) \ hereBar)) \ (arrive \cup leave)
                 THEN runBar[d] + 1 ELSE 0
    <3>1. CASE Arrives(d, h)
      BY <1>5, <3>1, Arrival
    <3>2. CASE Leaves(d, h)
      BY <1>6, <3>2, Departure DEF ABSENT, PRESENT
    <3>3. CASE ~Arrives(d, h) /\ ~Leaves(d, h)
      BY <1>3, <1>4, <1>5, <1>6, <3>3, NoCrossing DEF runBar, ABSENT, PRESENT
    <3>4. QED  BY <3>1, <3>2, <3>3
  <2>2. QED  BY <2>1 DEF runBar
<1>12. awayBar' = [d \in Devices |-> IF d \in leave THEN 0 ELSE aged[d]]
  <2>1. ASSUME NEW d \in Devices
        PROVE  Cooldown - Record(d)'.cooldown_remaining
               = IF d \in leave THEN 0 ELSE aged[d]
    BY <1>5, <1>6, <1>7, <1>8, Arrival, Departure, NoCrossing, PresenceAssumption
  <2>2. QED  BY <2>1 DEF awayBar
<1>13. announcedBar' = (announcedBar \cup greeted) \ leave
  <2>1. \A d \in Devices : d \in announcedBar <=> Record(d).present_emitted
    BY Zenon DEF announcedBar
  <2>2. \A d \in Devices : ~Record(d).present_emitted \/ Record(d).state = PRESENT
    BY <1>2 DEF Consistent, DeviceState
  <2>3. ASSUME NEW d \in Devices
        PROVE  Record(d)'.present_emitted <=>
                 (d \in announcedBar \/ d \in greeted) /\ d \notin leave
    <3>1. CASE Arrives(d, h)
      <4>1. d \in arrive /\ d \notin leave
        BY <1>5, <1>7, <3>1
      <4>2. Record(d)'.present_emitted <=> Cooled(d) = 0
        BY <3>1, Arrival, Zenon
      <4>3. d \notin announcedBar
        BY <2>1, <2>2, <3>1 DEF Arrives, ABSENT, PRESENT
      <4>4. QED  BY <1>9, <4>1, <4>2, <4>3, Zenon
    <3>2. CASE Leaves(d, h)
      BY <1>6, <3>2, Departure, Zenon
    <3>3. CASE ~Arrives(d, h) /\ ~Leaves(d, h)
      <4>1. d \notin greeted /\ d \notin leave
        BY <1>5, <1>6, <3>3
      <4>2. Record(d)'.present_emitted = Record(d).present_emitted
        BY <3>3, NoCrossing, Zenon
      <4>3. QED  BY <2>1, <4>1, <4>2, Zenon
    <3>4. QED  BY <3>1, <3>2, <3>3, Zenon
  <2>4. announcedBar' = {d \in Devices : Record(d)'.present_emitted}
    BY Zenon DEF announcedBar
  <2>5. greeted \subseteq Devices /\ announcedBar \subseteq Devices
    BY <1>7 DEF announcedBar
  <2>6. QED  BY <2>3, <2>4, <2>5, Zenon
<1>14. transitions' =
         [d \in Devices |-> IF d \in greeted THEN "PRESENT"
                            ELSE IF d \in leave \cap announcedBar THEN "ABSENT"
                            ELSE "none"]
  <2>1. ASSUME NEW d \in Devices
        PROVE  transitions'[d] = IF d \in greeted THEN "PRESENT"
                                 ELSE IF d \in leave \cap announcedBar THEN "ABSENT"
                                 ELSE "none"
    <3>1. d \in announcedBar <=> Record(d).present_emitted
      BY Zenon DEF announcedBar
    <3>2. CASE Arrives(d, h)
      BY <1>5, <1>7, <1>9, <3>2, Arrival, Zenon DEF PRESENT, NoTransition
    <3>3. CASE Leaves(d, h)
      BY <1>6, <1>7, <3>1, <3>3, Departure, Zenon DEF ABSENT, NoTransition
    <3>4. CASE ~Arrives(d, h) /\ ~Leaves(d, h)
      BY <1>5, <1>6, <3>4, NoCrossing, Zenon DEF NoTransition
    <3>5. QED  BY <3>2, <3>3, <3>4
  <2>2. DOMAIN transitions' = Devices /\ transitions' = [d \in Devices |-> transitions'[d]]
    BY DEF Update, WindowTransitions
  <2>3. QED  BY <2>1, <2>2
<1>15. QED
  BY <1>10, <1>11, <1>12, <1>13, <1>14, Zenon DEF V!Window

LEMMA InitImplements == Init => V!Init
  BY PresenceAssumption
     DEF Init, V!Init, hereBar, runBar, awayBar, announcedBar, Record, NewDevice,
         ABSENT, PRESENT, NoTransition

LEMMA StepImplements == IInv /\ [Next]_vars => [V!Next]_(V!visitVars)
<1>1. ASSUME IInv, Next
      PROVE  V!Next
  <2>1. PICK h \in [Devices -> Signals] : Update(h)
    BY <1>1 DEF Next
  <2>2. V!Window(Seen(h)) /\ Seen(h) \in SUBSET Devices
    BY <1>1, <2>1, WindowStep DEF Seen
  <2>3. QED  BY <2>2 DEF V!Next
<1>2. ASSUME UNCHANGED vars
      PROVE  UNCHANGED V!visitVars
  BY <1>2
     DEF vars, V!visitVars, hereBar, runBar, awayBar, announcedBar, Record
<1>3. QED  BY <1>1, <1>2

\* The tracker keeps the promise of Visits for every set of devices and every
\* choice of thresholds: counting hits and misses apart, and forgetting idle
\* devices, is invisible in what it announces.
THEOREM Refinement == Spec => ImplementsVisits
  BY InitImplements, StepImplements, Invariance, PTL
     DEF Spec, ImplementsVisits, V!Spec

=============================================================================
