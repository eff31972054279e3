---------------------------- MODULE OutboxProofs ----------------------------
(***************************************************************************)
(* Proofs about the outbox, for any number of messages, any backoff and    *)
(* any bound on the waits: the inductive invariant of OutboxRefinement,    *)
(* the guarantees that follow from it, and that the outbox implements      *)
(* Delivery.                                                               *)
(***************************************************************************)
EXTENDS OutboxRefinement, TLAPS

-----------------------------------------------------------------------------
\* A retry is never scheduled beyond the cap, hence within MaxWait.
LEMMA JitterBounds ==
  ASSUME NEW n \in Nat, NEW w \in Jittered(Backoff(n))
  PROVE  w \in 0..MaxWait
<1>1. Backoff(n) \in 0..Cap
  BY OutboxAssumption DEF Backoff
<1>2. QED  BY <1>1, OutboxAssumption DEF Jittered

-----------------------------------------------------------------------------
\* The invariant, action by action.

LEMMA InitIInv == Init => IInv
<1> SUFFICES ASSUME Init PROVE IInv
  OBVIOUS
<1>1. rows = << >> /\ Len(rows) = 0 /\ Ids = {}
  BY DEF Init, Ids
<1>2. TypeOK
  <2>1. rows \in Seq(Row)
    BY <1>1
  <2>2. QED  BY <1>1, <2>1, OutboxAssumption DEF Init, TypeOK, Places, Verdicts
<1>3. QED
  BY <1>1, <1>2
     DEF Init, IInv, JobIsHead, TriedInTurn, VerdictIsTrue, OwedIsUnsettled,
         DeliveredWasReceived, OnlyRefusedAreFailed, RepeatsAreExcused

\* The parts of the invariant about the work in hand need the type of a row.
LEMMA RowFacts ==
  ASSUME TypeOK, NEW i \in Ids
  PROVE  /\ rows[i] \in Row
         /\ rows[i].status \in {PENDING, DELIVERED, FAILED}
         /\ rows[i].attempt_count \in 0..AttemptCap
         /\ rows[i].wait \in 0..MaxWait
         /\ rows[i].payload \in {"good", "malformed"}
<1>1. rows[i] \in Row
  BY DEF TypeOK, Ids
<1>2. QED  BY <1>1 DEF Row

LEMMA EnqueueIInv ==
  ASSUME IInv, NEW p \in {"good", "malformed"}, Enqueue(p)
  PROVE  IInv'
<1> DEFINE n == Len(rows) + 1
<1>1. /\ rows \in Seq(Row) /\ Len(rows) \in Nat /\ NewRow(p) \in Row
      /\ TypeOK
  BY OutboxAssumption DEF IInv, TypeOK, NewRow, Row
<1>2. /\ rows' \in Seq(Row) /\ Len(rows') = n
      /\ Ids' = Ids \cup {n} /\ n \notin Ids
      /\ \A i \in Ids : rows'[i] = rows[i]
      /\ rows'[n] = NewRow(p)
  BY <1>1 DEF Enqueue, Ids
<1>3. TypeOK'
  <2>1. Len(rows') <= MaxRows
    BY <1>1, <1>2, OutboxAssumption DEF Enqueue
  <2>2. 0..Len(rows) \subseteq 0..Len(rows')
    BY <1>1, <1>2
  <2>3. QED  BY <1>1, <1>2, <2>1, <2>2 DEF TypeOK, Enqueue, world
<1>4. \A i \in Ids : Pending(i)' <=> Pending(i)
  BY <1>2 DEF Pending
<1>5. UNCHANGED <<pc, job, verdict, network, received, repeats, refused, unsettled>>
  BY DEF Enqueue, world
<1>6. JobIsHead'
  BY <1>1, <1>2, <1>4, <1>5 DEF IInv, JobIsHead, IsHead, Ids
<1>7. TriedInTurn'
  <2>1. rows'[n].attempt_count = 0 /\ rows'[n].wait = 0
        /\ rows'[n].status = PENDING
    BY <1>2 DEF NewRow
  <2>2. n \notin received /\ n \notin network
    BY <1>1, <1>2 DEF TypeOK
  <2>3. \A i \in Ids : EldersSettled(i) => EldersSettled(i)'
    BY <1>1, <1>2, <1>4 DEF EldersSettled, Ids
  <2>4. ASSUME NEW i \in Ids', ~(rows'[i].status = PENDING)
               \/ i \in received \/ i \in network
               \/ rows'[i].attempt_count > 0 \/ rows'[i].wait > 0
        PROVE  EldersSettled(i)'
    <3>1. i \in Ids
      BY <1>2, <2>1, <2>2, <2>4
    <3>2. EldersSettled(i)
      BY <1>2, <2>4, <3>1 DEF IInv, TriedInTurn, Pending
    <3>3. QED  BY <2>3, <3>1, <3>2
  <2>5. QED  BY <1>5, <2>4 DEF TriedInTurn, Pending
<1>8. VerdictIsTrue'
  <2>1. verdict = "malformed" => job \in Ids
    BY DEF IInv, JobIsHead, VerdictIsTrue, IsHead
  <2>2. QED  BY <1>2, <1>5, <2>1 DEF IInv, VerdictIsTrue
<1>9. OwedIsUnsettled' /\ RepeatsAreExcused'
  BY <1>1, <1>4, <1>5 DEF IInv, TypeOK, OwedIsUnsettled, RepeatsAreExcused
<1>10. DeliveredWasReceived' /\ OnlyRefusedAreFailed'
  BY <1>2, <1>5 DEF IInv, DeliveredWasReceived, OnlyRefusedAreFailed, NewRow,
                    PENDING, DELIVERED, FAILED
<1>11. QED
  BY <1>3, <1>6, <1>7, <1>8, <1>9, <1>10 DEF IInv

\* Steps that leave the table alone.

LEMMA PauseWakeIInv ==
  ASSUME IInv, Pause \/ Wake \/ Restart
  PROVE  IInv'
<1>1. /\ UNCHANGED <<rows, job, verdict, network, received, repeats, refused, unsettled>>
      /\ UNCHANGED <<channel, clock>>
      /\ pc \notin {"reply", "mark"} /\ pc' \in {"sleep", "poll"}
  BY DEF Pause, Wake, Restart, world
<1>2. TypeOK' /\ JobIsHead' /\ VerdictIsTrue'
  BY <1>1 DEF IInv, TypeOK, JobIsHead, VerdictIsTrue, Ids, Places
<1>3. TriedInTurn' /\ OwedIsUnsettled'
  BY <1>1 DEF IInv, TriedInTurn, EldersSettled, OwedIsUnsettled, Ids, Pending
<1>4. DeliveredWasReceived' /\ OnlyRefusedAreFailed' /\ RepeatsAreExcused'
  BY <1>1 DEF IInv, DeliveredWasReceived, OnlyRefusedAreFailed, RepeatsAreExcused, Ids
<1>5. QED  BY <1>2, <1>3, <1>4 DEF IInv

LEMMA TakeHeadIInv ==
  ASSUME IInv, NEW i \in Ids, TakeHead(i)
  PROVE  IInv'
<1>1. UNCHANGED <<rows, channel, clock, network, received, repeats, refused, unsettled>>
  BY DEF TakeHead, world
<1>2. /\ IsHead(i) /\ job' = i /\ pc = "poll" /\ verdict = "none"
      /\ \/ pc' = "send" /\ verdict' = "none"
         \/ pc' = "mark" /\ verdict' = "malformed" /\ rows[i].payload = "malformed"
  <2>1. rows[i].payload \in {"good", "malformed"}
    BY RowFacts DEF IInv
  <2>2. QED  BY <2>1 DEF TakeHead, IInv, VerdictIsTrue
<1>3. TypeOK' /\ JobIsHead'
  BY <1>1, <1>2 DEF IInv, TypeOK, JobIsHead, IsHead, Pending, Ids, Places, Verdicts
<1>4. VerdictIsTrue'
  BY <1>1, <1>2 DEF IInv, VerdictIsTrue
<1>5. TriedInTurn' /\ OwedIsUnsettled'
  BY <1>1, <1>2
     DEF IInv, TriedInTurn, EldersSettled, OwedIsUnsettled, Ids, Pending
<1>6. DeliveredWasReceived' /\ OnlyRefusedAreFailed' /\ RepeatsAreExcused'
  BY <1>1 DEF IInv, DeliveredWasReceived, OnlyRefusedAreFailed, RepeatsAreExcused, Ids
<1>7. QED  BY <1>3, <1>4, <1>5, <1>6 DEF IInv

\* A step of the send in progress: it may only add to what was received,
\* refused, abandoned or left unsettled, the job itself or an id that had its
\* turn.
LEMMA SendIInv ==
  ASSUME IInv, SendArrives \/ SendRefused \/ ReplyArrives \/ SendFails
  PROVE  IInv'
<1>1. /\ UNCHANGED <<rows, job, channel, clock>>
      /\ pc \in {"send", "reply"} /\ pc' \in {"reply", "mark"}
      /\ IsHead(job) /\ job \in Ids /\ verdict = "none"
  BY DEF SendArrives, SendRefused, ReplyArrives, SendFails, world, IInv,
         JobIsHead, VerdictIsTrue, IsHead
<1>2. /\ received \subseteq received' /\ received' \subseteq received \cup {job}
      /\ network \subseteq network' /\ network' \subseteq network \cup {job}
      /\ refused \subseteq refused' /\ refused' \subseteq refused \cup {job}
      /\ unsettled \subseteq unsettled' /\ unsettled' \subseteq unsettled \cup {job}
      /\ repeats' \subseteq repeats \cup {job}
  BY DEF SendArrives, SendRefused, ReplyArrives, SendFails, world
<1>3. TypeOK' /\ JobIsHead'
  <2>1. verdict' \in Verdicts
    BY <1>1 DEF SendArrives, SendRefused, ReplyArrives, SendFails, Verdicts
  <2>2. QED
    BY <1>1, <1>2, <2>1 DEF IInv, TypeOK, JobIsHead, IsHead, Pending, Ids, Places
<1>4. TriedInTurn'
  BY <1>1, <1>2 DEF IInv, TriedInTurn, EldersSettled, IsHead, Ids, Pending
<1>5. VerdictIsTrue'
  BY <1>1 DEF SendArrives, SendRefused, ReplyArrives, SendFails, world, IInv,
              VerdictIsTrue
<1>6. OwedIsUnsettled' /\ RepeatsAreExcused'
  <2>1. CASE SendArrives
    BY <1>1, <2>1
       DEF SendArrives, IInv, OwedIsUnsettled, RepeatsAreExcused, IsHead, Pending
  <2>2. CASE SendRefused
    BY <1>1, <2>2
       DEF SendRefused, IInv, OwedIsUnsettled, RepeatsAreExcused, Pending
  <2>3. CASE ReplyArrives
    BY <1>1, <2>3
       DEF ReplyArrives, world, IInv, OwedIsUnsettled, RepeatsAreExcused, Pending
  <2>4. CASE SendFails
    BY <1>1, <2>4
       DEF SendFails, IInv, OwedIsUnsettled, RepeatsAreExcused, Pending
  <2>5. QED  BY <2>1, <2>2, <2>3, <2>4
<1>7. DeliveredWasReceived' /\ OnlyRefusedAreFailed'
  BY <1>1, <1>2 DEF IInv, DeliveredWasReceived, OnlyRefusedAreFailed, Ids
<1>8. QED
  BY <1>3, <1>4, <1>5, <1>6, <1>7 DEF IInv

LEMMA CrashIInv ==
  ASSUME IInv, Crash
  PROVE  IInv'
<1>1. /\ UNCHANGED <<rows, job, channel, clock, received, repeats, refused>>
      /\ pc' = "down" /\ verdict' = "none"
  BY DEF Crash
<1>2. /\ network \subseteq network' /\ unsettled \subseteq unsettled'
      /\ pc = "send" => network' = network \cup {job} /\ job \in unsettled'
      /\ pc # "send" => network' = network
      /\ pc \in {"send", "reply"} \/ (pc = "mark" /\ verdict = "ok") => job \in unsettled'
      /\ unsettled' \subseteq unsettled \cup {job}
  BY DEF Crash
<1>3. unsettled' \subseteq Ids
  BY <1>2 DEF Crash, IInv, TypeOK, JobIsHead, IsHead
<1>4. TypeOK' /\ JobIsHead'
  BY <1>1, <1>2, <1>3 DEF IInv, TypeOK, JobIsHead, IsHead, Ids, Places, Verdicts
<1>5. TriedInTurn'
  BY <1>1, <1>2 DEF IInv, TriedInTurn, EldersSettled, JobIsHead, IsHead, Ids, Pending
<1>6. VerdictIsTrue'
  BY <1>1 DEF VerdictIsTrue
<1>7. OwedIsUnsettled' /\ RepeatsAreExcused'
  BY <1>1, <1>2
     DEF IInv, OwedIsUnsettled, RepeatsAreExcused, VerdictIsTrue, Pending
<1>8. DeliveredWasReceived' /\ OnlyRefusedAreFailed'
  BY <1>1 DEF IInv, DeliveredWasReceived, OnlyRefusedAreFailed, Ids
<1>9. QED  BY <1>4, <1>5, <1>6, <1>7, <1>8 DEF IInv

LEMMA WorldIInv ==
  ASSUME IInv, ClockSynced \/ ChannelFlips
  PROVE  IInv'
<1>1. /\ UNCHANGED <<rows, pc, job, verdict, network, received, repeats, refused, unsettled>>
      /\ channel' \in {"up", "down"} /\ clock' \in {"adrift", "synced"}
  BY DEF ClockSynced, ChannelFlips, table, IInv, TypeOK
<1>2. TypeOK' /\ JobIsHead' /\ VerdictIsTrue'
  BY <1>1 DEF IInv, TypeOK, JobIsHead, IsHead, VerdictIsTrue, Ids, Pending
<1>3. TriedInTurn' /\ OwedIsUnsettled'
  BY <1>1 DEF IInv, TriedInTurn, EldersSettled, OwedIsUnsettled, Ids, Pending
<1>4. DeliveredWasReceived' /\ OnlyRefusedAreFailed' /\ RepeatsAreExcused'
  BY <1>1 DEF IInv, DeliveredWasReceived, OnlyRefusedAreFailed, RepeatsAreExcused, Ids
<1>5. QED  BY <1>2, <1>3, <1>4 DEF IInv

LEMMA LateArrivalIInv ==
  ASSUME IInv, NEW i \in network, LateArrival(i)
  PROVE  IInv'
<1>1. /\ UNCHANGED <<rows, pc, job, verdict, channel, clock, refused, unsettled>>
      /\ network' = network \ {i} /\ received' = received \cup {i}
      /\ repeats' \subseteq repeats \cup {i}
      /\ i \in Ids /\ i \in unsettled
  BY DEF LateArrival, table, IInv, TypeOK, OwedIsUnsettled
<1>2. TypeOK' /\ JobIsHead' /\ VerdictIsTrue'
  BY <1>1 DEF IInv, TypeOK, JobIsHead, IsHead, VerdictIsTrue, Ids, Pending
<1>3. TriedInTurn' /\ OwedIsUnsettled'
  BY <1>1 DEF IInv, TriedInTurn, EldersSettled, OwedIsUnsettled, Ids, Pending
<1>4. DeliveredWasReceived' /\ OnlyRefusedAreFailed' /\ RepeatsAreExcused'
  BY <1>1 DEF IInv, DeliveredWasReceived, OnlyRefusedAreFailed, RepeatsAreExcused, Ids
<1>5. QED  BY <1>2, <1>3, <1>4 DEF IInv

\* Steps that write the table. None of them moves a row back to PENDING, so
\* whoever had its turn still has.

LEMMA SettleIInv ==
  ASSUME IInv, Settle
  PROVE  IInv'
<1> DEFINE fate == IF verdict = "ok" THEN DELIVERED ELSE FAILED
<1>1. /\ pc = "mark" /\ verdict \in {"ok", "permanent", "malformed"}
      /\ pc' = "poll" /\ verdict' = "none"
      /\ UNCHANGED <<job, channel, clock, network, received, repeats, refused, unsettled>>
      /\ job \in Ids /\ IsHead(job)
      /\ rows' = [rows EXCEPT ![job].status = fate]
  BY DEF Settle, world, IInv, JobIsHead, IsHead
<1>2. rows[job] \in Row /\ [rows[job] EXCEPT !.status = fate] \in Row
  <2>1. rows[job] \in Row
    BY <1>1, RowFacts DEF IInv
  <2>2. QED  BY <2>1 DEF Row
<1>3. /\ rows' \in Seq(Row) /\ Len(rows') = Len(rows) /\ Ids' = Ids
      /\ \A i \in Ids : i # job => rows'[i] = rows[i]
      /\ rows'[job].status = fate
      /\ rows'[job].attempt_count = rows[job].attempt_count
      /\ rows'[job].wait = rows[job].wait
      /\ rows'[job].payload = rows[job].payload
  <2>1. rows' = [rows EXCEPT ![job] = [rows[job] EXCEPT !.status = fate]]
    BY <1>1
  <2>2. rows' \in Seq(Row) /\ Len(rows') = Len(rows)
    BY <1>1, <1>2, <2>1 DEF IInv, TypeOK, Ids
  <2>3. rows'[job] = [rows[job] EXCEPT !.status = fate]
    BY <1>1, <2>1 DEF IInv, TypeOK, Ids
  <2>4. \A i \in Ids : i # job => rows'[i] = rows[i]
    BY <1>1, <2>1 DEF IInv, TypeOK, Ids
  <2>5. QED  BY <1>2, <2>2, <2>3, <2>4 DEF Ids, Row
<1>4. \A i \in Ids : Pending(i)' <=> Pending(i) /\ i # job
  BY <1>3 DEF Pending, PENDING, DELIVERED, FAILED
<1>5. TypeOK' /\ JobIsHead' /\ VerdictIsTrue'
  BY <1>1, <1>3 DEF IInv, TypeOK, JobIsHead, VerdictIsTrue, Places, Verdicts
<1>6. TriedInTurn'
  <2>1. \A i \in Ids : /\ rows'[i].attempt_count = rows[i].attempt_count
                       /\ rows'[i].wait = rows[i].wait
    BY <1>3
  <2>2. QED
    BY <1>1, <1>3, <1>4, <2>1 DEF IInv, TriedInTurn, EldersSettled, IsHead
<1>7. OwedIsUnsettled' /\ RepeatsAreExcused'
  <2>1. received \subseteq Ids
    BY DEF IInv, TypeOK
  <2>2. QED
    BY <1>1, <1>4, <2>1 DEF IInv, OwedIsUnsettled, RepeatsAreExcused
<1>8. DeliveredWasReceived' /\ OnlyRefusedAreFailed'
  BY <1>1, <1>3
     DEF IInv, DeliveredWasReceived, OnlyRefusedAreFailed, VerdictIsTrue,
         DELIVERED, FAILED
<1>9. QED  BY <1>5, <1>6, <1>7, <1>8 DEF IInv

\* A step that changes only attempts and waits, and of rows that had their turn.
LEMMA WaitsIInv ==
  ASSUME IInv,
         rows' \in Seq(Row), Len(rows') = Len(rows),
         \A i \in Ids : /\ rows'[i].status = rows[i].status
                        /\ rows'[i].payload = rows[i].payload,
         \A i \in Ids : rows'[i].attempt_count > 0 \/ rows'[i].wait > 0 =>
                          EldersSettled(i),
         UNCHANGED <<job, channel, clock, network, received, repeats, refused, unsettled>>,
         UNCHANGED <<pc, verdict>>
         \/ (pc = "mark" /\ verdict = "transient" /\ pc' = "sleep" /\ verdict' = "none")
  PROVE  IInv'
<1>1. Ids' = Ids /\ \A i \in Ids : Pending(i)' <=> Pending(i)
  BY DEF Ids, Pending
<1>2. TypeOK'
  BY <1>1 DEF IInv, TypeOK, Places, Verdicts
<1>3. JobIsHead'
  BY <1>1 DEF IInv, JobIsHead, IsHead
<1>4. TriedInTurn'
  BY <1>1 DEF IInv, TriedInTurn, EldersSettled
<1>5. VerdictIsTrue'
  <2>1. verdict = "malformed" => job \in Ids
    BY DEF IInv, JobIsHead, VerdictIsTrue, IsHead
  <2>2. QED  BY <2>1 DEF IInv, VerdictIsTrue
<1>6. OwedIsUnsettled' /\ RepeatsAreExcused'
  BY <1>1 DEF IInv, TypeOK, OwedIsUnsettled, RepeatsAreExcused, VerdictIsTrue
<1>7. DeliveredWasReceived' /\ OnlyRefusedAreFailed'
  BY <1>1 DEF IInv, DeliveredWasReceived, OnlyRefusedAreFailed
<1>8. QED  BY <1>2, <1>3, <1>4, <1>5, <1>6, <1>7 DEF IInv

LEMMA RescheduleIInv ==
  ASSUME IInv, Reschedule
  PROVE  IInv'
<1>1. /\ pc = "mark" /\ verdict = "transient" /\ pc' = "sleep" /\ verdict' = "none"
      /\ UNCHANGED <<job, channel, clock, network, received, repeats, refused, unsettled>>
      /\ job \in Ids /\ IsHead(job)
  BY DEF Reschedule, world, IInv, JobIsHead, IsHead
<1>2. PICK w \in Jittered(Backoff(rows[job].attempt_count)) :
           rows' = [rows EXCEPT ![job] =
                      [rows[job] EXCEPT !.wait = w,
                                        !.attempt_count = Saturate(@ + 1)]]
  BY DEF Reschedule
<1> DEFINE tried == [rows[job] EXCEPT !.wait = w, !.attempt_count = Saturate(@ + 1)]
<1>3. rows[job] \in Row /\ rows[job].attempt_count \in 0..AttemptCap
  BY <1>1, RowFacts DEF IInv
<1>4. w \in 0..MaxWait
  BY <1>2, <1>3, JitterBounds
<1>5. Saturate(rows[job].attempt_count + 1) \in 0..AttemptCap
  BY <1>3, OutboxAssumption DEF Saturate
<1>6. /\ tried \in Row /\ tried.status = rows[job].status
      /\ tried.payload = rows[job].payload
  BY <1>3, <1>4, <1>5 DEF Row
<1>7. /\ rows' \in Seq(Row) /\ Len(rows') = Len(rows)
      /\ rows'[job] = tried
      /\ \A i \in Ids : i # job => rows'[i] = rows[i]
  <2>1. rows' = [rows EXCEPT ![job] = tried]
    BY <1>2
  <2> HIDE DEF tried
  <2>2. QED  BY <1>1, <1>6, <2>1 DEF IInv, TypeOK, Ids
<1>8. \A i \in Ids : rows'[i].attempt_count > 0 \/ rows'[i].wait > 0 => EldersSettled(i)
  BY <1>1, <1>7 DEF IInv, TriedInTurn, EldersSettled, IsHead
<1>9. QED  BY <1>1, <1>6, <1>7, <1>8, WaitsIInv

LEMMA TickIInv ==
  ASSUME IInv, Tick
  PROVE  IInv'
<1> DEFINE older(r) == [r EXCEPT !.wait = IF @ > 0 THEN @ - 1 ELSE 0]
<1>1. rows' = [i \in 1..Len(rows) |-> older(rows[i])]
  BY DEF Tick, Ids
<1>2. \A i \in Ids : /\ older(rows[i]) \in Row
                     /\ older(rows[i]).status = rows[i].status
                     /\ older(rows[i]).payload = rows[i].payload
                     /\ older(rows[i]).attempt_count = rows[i].attempt_count
                     /\ older(rows[i]).wait > 0 => rows[i].wait > 0
  <2>1. SUFFICES ASSUME NEW r \in Row
                 PROVE  /\ older(r) \in Row
                        /\ older(r).status = r.status
                        /\ older(r).payload = r.payload
                        /\ older(r).attempt_count = r.attempt_count
                        /\ older(r).wait > 0 => r.wait > 0
    BY RowFacts DEF IInv
  <2>2. r.wait \in 0..MaxWait
    BY DEF Row
  <2>3. (IF r.wait > 0 THEN r.wait - 1 ELSE 0) \in 0..MaxWait
    BY <2>2, OutboxAssumption
  <2>4. QED  BY <2>2, <2>3 DEF Row
<1>3. /\ rows' \in Seq(Row) /\ Len(rows') = Len(rows)
      /\ \A i \in Ids : rows'[i] = older(rows[i])
  <2>1. Len(rows) \in Nat
    BY DEF IInv, TypeOK
  <2>2. \A i \in 1..Len(rows) : older(rows[i]) \in Row
    BY <1>2 DEF Ids
  <2>3. QED  BY <1>1, <2>1, <2>2 DEF Ids
<1>4. UNCHANGED <<job, channel, clock, network, received, repeats, refused, unsettled, pc, verdict>>
  BY DEF Tick, world
<1>5. \A i \in Ids : rows'[i].attempt_count > 0 \/ rows'[i].wait > 0 => EldersSettled(i)
  BY <1>2, <1>3 DEF IInv, TriedInTurn
<1>6. QED  BY <1>2, <1>3, <1>4, <1>5, WaitsIInv

LEMMA ClockSteppedBackIInv ==
  ASSUME IInv, NEW k \in Ids, NEW w \in 0..MaxWait, ClockSteppedBack(k, w)
  PROVE  IInv'
<1> DEFINE delayed == [rows[k] EXCEPT !.wait = w]
<1>1. /\ rows' = [rows EXCEPT ![k] = delayed]
      /\ rows[k].attempt_count > 0
      /\ UNCHANGED <<job, channel, clock, network, received, repeats, refused, unsettled, pc, verdict>>
  BY DEF ClockSteppedBack, world
<1>2. /\ delayed \in Row /\ delayed.status = rows[k].status
      /\ delayed.payload = rows[k].payload
      /\ delayed.attempt_count = rows[k].attempt_count
  <2>1. rows[k] \in Row
    BY RowFacts DEF IInv
  <2>2. QED  BY <2>1 DEF Row
<1>3. /\ rows' \in Seq(Row) /\ Len(rows') = Len(rows)
      /\ rows'[k] = delayed
      /\ \A i \in Ids : i # k => rows'[i] = rows[i]
  BY <1>1, <1>2 DEF IInv, TypeOK, Ids
<1>4. \A i \in Ids : rows'[i].attempt_count > 0 \/ rows'[i].wait > 0 => EldersSettled(i)
  BY <1>1, <1>3 DEF IInv, TriedInTurn
<1>5. QED  BY <1>1, <1>2, <1>3, <1>4, WaitsIInv

-----------------------------------------------------------------------------

LEMMA StepIInv == IInv /\ [Next]_vars => IInv'
<1> SUFFICES ASSUME IInv, [Next]_vars PROVE IInv'
  OBVIOUS
<1>1. ASSUME NEW p \in {"good", "malformed"}, Enqueue(p) PROVE IInv'
  BY <1>1, EnqueueIInv
<1>2. CASE Pause \/ Wake \/ Restart
  BY <1>2, PauseWakeIInv
<1>3. ASSUME NEW i \in Ids, TakeHead(i) PROVE IInv'
  BY <1>3, TakeHeadIInv
<1>4. CASE SendArrives \/ SendRefused \/ ReplyArrives \/ SendFails
  BY <1>4, SendIInv
<1>5. CASE Settle \/ Reschedule
  BY <1>5, SettleIInv, RescheduleIInv
<1>6. CASE Tick
  BY <1>6, TickIInv
<1>7. ASSUME NEW i \in Ids, NEW w \in 0..MaxWait, ClockSteppedBack(i, w) PROVE IInv'
  BY <1>7, ClockSteppedBackIInv
<1>8. CASE ClockSynced \/ ChannelFlips
  BY <1>8, WorldIInv
<1>9. ASSUME NEW i \in network, LateArrival(i) PROVE IInv'
  BY <1>9, LateArrivalIInv
<1>10. CASE Crash
  BY <1>10, CrashIInv
<1>11. CASE UNCHANGED vars
  BY <1>11
     DEF vars, table, world, IInv, TypeOK, JobIsHead, TriedInTurn, VerdictIsTrue,
         OwedIsUnsettled, DeliveredWasReceived, OnlyRefusedAreFailed,
         RepeatsAreExcused, IsHead, EldersSettled, Pending, Ids
<1>12. QED
  BY <1>1, <1>2, <1>3, <1>4, <1>5, <1>6, <1>7, <1>8, <1>9, <1>10, <1>11
     DEF Next, Drain

\* The inductive invariant of the outbox and its drain.
THEOREM Invariance == Spec => []IInv
  BY InitIInv, StepIInv, PTL DEF Spec

\* Every variable keeps its type, whatever the sizes.
THEOREM TypeCorrect == Spec => []TypeOK
<1>1. IInv => TypeOK
  BY DEF IInv
<1>2. QED  BY <1>1, Invariance, PTL

\* A message is posted, tried or settled only in its turn.
THEOREM Fifo == Spec => []StrictFifo
<1>1. IInv => StrictFifo
  <2> SUFFICES ASSUME IInv, NEW i \in Ids, NEW j \in Ids, i < j, Pending(i)
               PROVE  /\ Pending(j) /\ rows[j].attempt_count = 0
                      /\ rows[j].wait = 0 /\ j \notin received
    BY DEF StrictFifo
  <2>1. ~EldersSettled(j)
    BY DEF EldersSettled
  <2>2. j \notin received /\ ~(rows[j].attempt_count > 0) /\ ~(rows[j].wait > 0)
    BY <2>1 DEF IInv, TriedInTurn
  <2>3. rows[j].attempt_count = 0 /\ rows[j].wait = 0
    BY <2>2, RowFacts DEF IInv
  <2>4. Pending(j)
    BY <2>1 DEF IInv, TriedInTurn
  <2>5. QED  BY <2>2, <2>3, <2>4
<1>2. QED  BY <1>1, Invariance, PTL

\* What is recorded as delivered was received.
THEOREM NoLostMessage == Spec => []DeliveredWasReceived
<1>1. IInv => DeliveredWasReceived
  BY DEF IInv
<1>2. QED  BY <1>1, Invariance, PTL

\* Only what the API refused for good, or cannot be read, is dead-lettered.
THEOREM NeverDrops == Spec => []OnlyRefusedAreFailed
<1>1. IInv => OnlyRefusedAreFailed
  BY DEF IInv
<1>2. QED  BY <1>1, Invariance, PTL

\* No message is repeated without a lost outcome.
THEOREM RepeatsExcused == Spec => []RepeatsAreExcused
<1>1. IInv => RepeatsAreExcused
  BY DEF IInv
<1>2. QED  BY <1>1, Invariance, PTL

-----------------------------------------------------------------------------
\* Settled rows are final, and the refinement. Both look at a step of the
\* table through the same two questions: which rows left the queue, and with
\* which status.

\* A step that settles nothing and submits nothing.
LEMMA WaitsKeepStatus ==
  ASSUME IInv, Reschedule \/ Tick \/ (\E i \in Ids, w \in 0..MaxWait : ClockSteppedBack(i, w))
  PROVE  /\ Len(rows') = Len(rows)
         /\ \A i \in Ids : rows'[i].status = rows[i].status
         /\ \A i \in Ids : ~Pending(i) => rows'[i].attempt_count = rows[i].attempt_count
<1>1. /\ rows \in Seq(Row) /\ Len(rows) \in Nat
      /\ \A i \in Ids : rows[i] \in Row
  BY RowFacts DEF IInv, TypeOK
<1>2. CASE Reschedule
  <2>1. job \in Ids /\ Pending(job)
    BY <1>2 DEF Reschedule, IInv, JobIsHead, IsHead
  <2>2. PICK w \in Jittered(Backoff(rows[job].attempt_count)) :
             rows' = [rows EXCEPT ![job] =
                        [rows[job] EXCEPT !.wait = w,
                                          !.attempt_count = Saturate(@ + 1)]]
    BY <1>2 DEF Reschedule
  <2>3. [rows[job] EXCEPT !.wait = w, !.attempt_count = Saturate(@ + 1)].status
        = rows[job].status
    BY <1>1, <2>1 DEF Row
  <2>4. QED  BY <1>1, <2>1, <2>2, <2>3 DEF Ids
<1>3. CASE Tick
  <2>1. rows' = [i \in 1..Len(rows) |-> [rows[i] EXCEPT !.wait = IF @ > 0 THEN @ - 1 ELSE 0]]
    BY <1>3 DEF Tick, Ids
  <2>2. \A i \in Ids : /\ rows'[i].status = rows[i].status
                       /\ rows'[i].attempt_count = rows[i].attempt_count
    BY <1>1, <2>1 DEF Ids, Row
  <2>3. Len(rows') = Len(rows)
    BY <1>1, <2>1
  <2>4. QED  BY <2>2, <2>3
<1>4. ASSUME NEW k \in Ids, NEW w \in 0..MaxWait, ClockSteppedBack(k, w)
      PROVE  /\ Len(rows') = Len(rows)
             /\ \A i \in Ids : /\ rows'[i].status = rows[i].status
                               /\ rows'[i].attempt_count = rows[i].attempt_count
  <2>1. rows' = [rows EXCEPT ![k] = [rows[k] EXCEPT !.wait = w]]
    BY <1>4 DEF ClockSteppedBack
  <2>2. QED  BY <1>1, <2>1 DEF Ids, Row
<1>5. QED  BY <1>2, <1>3, <1>4

LEMMA SettleFacts ==
  ASSUME IInv, Settle
  PROVE  /\ Len(rows') = Len(rows)
         /\ \A i \in Ids : i # job => rows'[i] = rows[i]
         /\ rows'[job].status = IF verdict = "ok" THEN DELIVERED ELSE FAILED
         /\ IsHead(job)
<1>1. rows \in Seq(Row) /\ IsHead(job) /\ job \in Ids /\ rows[job] \in Row
  BY RowFacts DEF Settle, IInv, TypeOK, JobIsHead, IsHead
<1>2. rows' = [rows EXCEPT ![job] = [rows[job] EXCEPT
                             !.status = IF verdict = "ok" THEN DELIVERED ELSE FAILED]]
  BY DEF Settle
<1>3. QED  BY <1>1, <1>2 DEF Ids, Row

\* Recording the outcome by id is safe: the row a mark or a reschedule names
\* is always one still PENDING.
THEOREM Finality == Spec => SettledIsFinal
<1>1. ASSUME IInv, [Next]_vars PROVE KeepsSettled
  <2>1. CASE UNCHANGED rows
    BY <2>1 DEF KeepsSettled
  <2>2. ASSUME NEW p \in {"good", "malformed"}, Enqueue(p) PROVE KeepsSettled
    <3>1. rows \in Seq(Row) /\ rows' = Append(rows, NewRow(p)) /\ NewRow(p) \in Row
      BY <1>1, <2>2, OutboxAssumption DEF IInv, TypeOK, Enqueue, NewRow, Row
    <3>2. QED  BY <3>1 DEF KeepsSettled, Ids
  <2>3. CASE Settle
    BY <1>1, <2>3, SettleFacts DEF KeepsSettled, IsHead
  <2>4. CASE Reschedule \/ Tick \/ (\E i \in Ids, w \in 0..MaxWait : ClockSteppedBack(i, w))
    BY <1>1, <2>4, WaitsKeepStatus DEF KeepsSettled
  <2>5. QED
    BY <1>1, <2>1, <2>2, <2>3, <2>4
       DEF Next, Drain, Pause, Wake, TakeHead, SendArrives, SendRefused,
           ReplyArrives, SendFails, ClockSynced, ChannelFlips, LateArrival,
           Crash, Restart, vars, table, world
<1>2. QED  BY <1>1, Invariance, PTL DEF Spec, SettledIsFinal

-----------------------------------------------------------------------------
\* The refinement.

\* A step that settles no row leaves what Delivery sees of the table alone.
LEMMA SameTable ==
  ASSUME Len(rows') = Len(rows), \A i \in Ids : rows'[i].status = rows[i].status
  PROVE  UNCHANGED <<Len(rows), settledBar, failedBar>>
<1>1. Ids' = Ids
  BY DEF Ids
<1>2. QED  BY <1>1 DEF settledBar, failedBar, Pending

\* Whatever is posted has its turn.
LEMMA PostStep ==
  ASSUME IInv, NEW i \in Ids, EldersSettled(i), received' = received \cup {i},
         UNCHANGED <<Len(rows), settledBar, failedBar>>
  PROVE  D!Next
<1>1. D!Turn(i)
  BY DEF D!Turn, EldersSettled, settledBar, Ids
<1>2. D!Post(i)
  BY <1>1 DEF D!Post
<1>3. QED  BY <1>2 DEF D!Next, Ids

LEMMA SubmitStep ==
  ASSUME IInv, NEW p \in {"good", "malformed"}, Enqueue(p)
  PROVE  D!Next
<1> DEFINE n == Len(rows) + 1
<1>1. rows \in Seq(Row) /\ NewRow(p) \in Row /\ rows' = Append(rows, NewRow(p))
  BY OutboxAssumption DEF IInv, TypeOK, Enqueue, NewRow, Row
<1>2. /\ Len(rows') = n /\ Ids' = Ids \cup {n}
      /\ \A i \in Ids : rows'[i] = rows[i]
      /\ rows'[n].status = PENDING
  BY <1>1 DEF Ids, NewRow
<1>3. settledBar' = settledBar /\ failedBar' = failedBar
  BY <1>2 DEF settledBar, failedBar, Pending, PENDING, FAILED
<1>4. received' = received
  BY DEF Enqueue, world
<1>5. D!Submit
  BY <1>2, <1>3, <1>4 DEF D!Submit
<1>6. QED  BY <1>5 DEF D!Next

LEMMA SettleStep ==
  ASSUME IInv, Settle
  PROVE  D!Next
<1>1. /\ Len(rows') = Len(rows)
      /\ \A i \in Ids : i # job => rows'[i] = rows[i]
      /\ rows'[job].status = IF verdict = "ok" THEN DELIVERED ELSE FAILED
      /\ IsHead(job)
  BY SettleFacts
<1>2. Ids' = Ids /\ job \in Ids /\ Pending(job) /\ received' = received
  BY <1>1 DEF Ids, IsHead, Settle, world
<1>3. settledBar' = settledBar \cup {job} /\ job \notin settledBar
  BY <1>1, <1>2 DEF settledBar, Pending, PENDING, DELIVERED, FAILED
<1>4. D!Turn(job)
  BY <1>1, <1>2 DEF D!Turn, IsHead, settledBar, Ids
<1>5. CASE verdict = "ok"
  <2>1. failedBar' = failedBar
    BY <1>1, <1>2, <1>5 DEF failedBar, Pending, PENDING, DELIVERED, FAILED
  <2>2. job \in received
    BY <1>5 DEF IInv, VerdictIsTrue
  <2>3. D!Confirm(job)
    BY <1>1, <1>2, <1>3, <1>4, <2>1, <2>2 DEF D!Confirm
  <2>4. QED  BY <1>2, <2>3 DEF D!Next, Ids
<1>6. CASE verdict # "ok"
  <2>1. failedBar' = failedBar \cup {job}
    BY <1>1, <1>2, <1>6 DEF failedBar, Pending, PENDING, DELIVERED, FAILED
  <2>2. D!DeadLetter(job)
    BY <1>1, <1>2, <1>3, <1>4, <2>1 DEF D!DeadLetter
  <2>3. QED  BY <1>2, <2>2 DEF D!Next, Ids
<1>7. QED  BY <1>5, <1>6

LEMMA StepImplements == IInv /\ [Next]_vars => [D!Next]_(D!deliveryVars)
<1> SUFFICES ASSUME IInv, [Next]_vars PROVE [D!Next]_(D!deliveryVars)
  OBVIOUS
<1>1. ASSUME NEW p \in {"good", "malformed"}, Enqueue(p) PROVE D!Next
  BY <1>1, SubmitStep
<1>2. CASE Settle
  BY <1>2, SettleStep
<1>3. CASE SendArrives
  <2>1. job \in Ids /\ EldersSettled(job) /\ received' = received \cup {job}
    BY <1>3 DEF SendArrives, IInv, JobIsHead, IsHead, EldersSettled
  <2>2. UNCHANGED <<Len(rows), settledBar, failedBar>>
    BY <1>3, SameTable DEF SendArrives
  <2>3. QED  BY <2>1, <2>2, PostStep
<1>4. ASSUME NEW i \in network, LateArrival(i) PROVE D!Next
  <2>1. i \in Ids /\ EldersSettled(i) /\ received' = received \cup {i}
    BY <1>4 DEF LateArrival, IInv, TypeOK, TriedInTurn
  <2>2. UNCHANGED <<Len(rows), settledBar, failedBar>>
    BY <1>4, SameTable DEF LateArrival, table
  <2>3. QED  BY <2>1, <2>2, PostStep
<1>5. CASE Reschedule \/ Tick \/ (\E i \in Ids, w \in 0..MaxWait : ClockSteppedBack(i, w))
  <2>1. UNCHANGED <<Len(rows), settledBar, failedBar>>
    BY <1>5, WaitsKeepStatus, SameTable
  <2>2. received' = received
    BY <1>5 DEF Reschedule, Tick, ClockSteppedBack, world
  <2>3. QED  BY <2>1, <2>2 DEF D!deliveryVars
<1>6. CASE UNCHANGED <<rows, received>>
  BY <1>6, SameTable DEF D!deliveryVars
<1>7. QED
  BY <1>1, <1>2, <1>3, <1>4, <1>5, <1>6
     DEF Next, Drain, Pause, Wake, TakeHead, SendRefused, ReplyArrives, SendFails,
         ClockSynced, ChannelFlips, Crash, Restart, vars, table, world

LEMMA InitImplements == Init => D!Init
  BY DEF Init, D!Init, settledBar, failedBar, Ids

\* The drain keeps the documented guarantees of the outbox under every fault of
\* the model, for any number of messages.
THEOREM Refinement == Spec => ImplementsDelivery
  BY InitImplements, StepImplements, Invariance, PTL
     DEF Spec, ImplementsDelivery, D!Spec

=============================================================================
