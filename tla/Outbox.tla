------------------------------- MODULE Outbox -------------------------------
(***************************************************************************)
(* The outbox table (OutboxRepository of storage/repository.py) and the    *)
(* task that drains it (drain.py), with the channel and the faults the     *)
(* drain is written for: failed and timed-out sends, replies that never    *)
(* come back, copies of a timed-out request that arrive late, a wall clock *)
(* that is stepped back, and a daemon killed at any point and restarted.   *)
(*                                                                         *)
(* One drain_once is three steps: read the head, send, record the outcome. *)
(* Producers append and the daemon may die between any two of them.        *)
(* next_attempt_at is kept relative to the clock: the time left to wait.   *)
(***************************************************************************)
EXTENDS Integers, Sequences

CONSTANTS
    Base, Cap,      \* the backoff parameters of drain_once
    MaxWait,        \* bound: the longest wait a clock stepped back can leave
    MaxRows,        \* bound: messages ever enqueued
    AttemptCap      \* bound: attempt_count saturates here

ASSUME OutboxAssumption ==
    /\ Base \in Nat \ {0}
    /\ Cap \in Nat /\ Cap >= Base
    /\ MaxWait \in Nat /\ MaxWait >= Cap
    /\ MaxRows \in Nat
    /\ AttemptCap \in Nat

VARIABLES
    rows,       \* the outbox table of the site, by id
    pc,         \* where the drain task is, or "down" when the daemon is not running
    job,        \* the id drain_once works on
    verdict,    \* what notifier.send returned (or the payload check found)
    channel,    \* the network and the Bot API: "up" or "down"
    clock,      \* the wall clock: "adrift" may be stepped back, "synced" not
    network,    \* ids of abandoned requests that may still arrive
    received,   \* ids the operator's chat has received
    repeats,    \* ids it has received more than once
    refused,    \* ids the API rejected for good
    unsettled   \* ids of which some send had an outcome the drain never learned

table == <<rows, pc, job, verdict>>
world == <<channel, clock, network, received, repeats, refused, unsettled>>
vars == <<table, world>>

PENDING   == "PENDING"
DELIVERED == "DELIVERED"
FAILED    == "FAILED"

Row == [status: {PENDING, DELIVERED, FAILED}, attempt_count: 0..AttemptCap,
        wait: 0..MaxWait, payload: {"good", "malformed"}]

Verdicts == {"none", "ok", "transient", "permanent", "malformed"}

Places == {"poll", "send", "reply", "mark", "sleep", "down"}

-----------------------------------------------------------------------------
\* backoff_delay: base * 2^attempt clamped to cap, for a 0-based attempt.
\* (From _MAX_EXP_ATTEMPT on the code takes cap without computing the power.)
MaxExpAttempt == 64

BackoffUnclamped(attempt) == Base * 2^attempt      \* mutant

Backoff(attempt) ==
    LET exponential == Base * 2^attempt
    IN  IF attempt < MaxExpAttempt /\ exponential \in 0..Cap THEN exponential ELSE Cap

\* _equal_jitter keeps half the delay and randomises the other half.
Jittered(delay) == {w \in 0..delay : 2 * w >= delay}

-----------------------------------------------------------------------------
\* The repository.

Ids == 1..Len(rows)
Pending(i) == rows[i].status = PENDING

\* Mutant: a backed-off head does not hold up the rows behind it.
IsHeadIfDue(i) ==
    /\ i \in Ids /\ Pending(i) /\ rows[i].wait = 0
    /\ \A j \in Ids : j < i => ~(Pending(j) /\ rows[j].wait = 0)

\* head_pending: the oldest PENDING row, due or not.
IsHead(i) == i \in Ids /\ Pending(i) /\ \A j \in Ids : j < i => ~Pending(j)

NewRow(payload) == [status |-> PENDING, attempt_count |-> 0, wait |-> 0,
                    payload |-> payload]

\* Any producer: alerter, detectors, digest, command replies.
Enqueue(payload) ==
    /\ pc # "down"
    /\ Len(rows) < MaxRows
    /\ rows' = Append(rows, NewRow(payload))
    /\ UNCHANGED <<pc, job, verdict, world>>

Saturate(n) == IF n > AttemptCap THEN AttemptCap ELSE n

-----------------------------------------------------------------------------
\* drain_once and the loop around it.

\* IDLE: nothing is PENDING. WAITING: the head is not due yet.
NothingToDo == \A i \in Ids : IsHead(i) => rows[i].wait > 0

Pause ==
    /\ pc = "poll" /\ NothingToDo
    /\ pc' = "sleep"
    /\ UNCHANGED <<rows, job, verdict, world>>

Wake ==
    /\ pc = "sleep"
    /\ pc' = "poll"
    /\ UNCHANGED <<rows, job, verdict, world>>

\* Mutant: an unusable payload is retried like a failed send.
TakeHeadRetriesMalformed(i) ==
    /\ pc = "poll" /\ IsHead(i) /\ rows[i].wait = 0
    /\ job' = i
    /\ IF rows[i].payload = "good"
       THEN pc' = "send" /\ verdict' = "none"
       ELSE pc' = "mark" /\ verdict' = "transient"
    /\ UNCHANGED <<rows, world>>

\* The head is due: an unusable payload goes straight to the dead letters.
TakeHead(i) ==
    /\ pc = "poll"
    /\ IsHead(i) /\ rows[i].wait = 0
    /\ job' = i
    /\ IF rows[i].payload = "good"
       THEN pc' = "send" /\ verdict' = "none"
       ELSE pc' = "mark" /\ verdict' = "malformed"
    /\ UNCHANGED <<rows, world>>

\* The request reaches the API, which posts the message; the reply is due.
SendArrives ==
    /\ pc = "send" /\ channel = "up"
    /\ received' = received \cup {job}
    /\ repeats' = IF job \in received THEN repeats \cup {job} ELSE repeats
    /\ pc' = "reply"
    /\ UNCHANGED <<rows, job, verdict, channel, clock, network, refused, unsettled>>

\* HTTP 4xx or ok=false: permanent.
SendRefused ==
    /\ pc = "send" /\ channel = "up"
    /\ refused' = refused \cup {job}
    /\ verdict' = "permanent" /\ pc' = "mark"
    /\ UNCHANGED <<rows, job, channel, clock, network, received, repeats, unsettled>>

\* Mutant: the reply is not recognised as a success.
ReplyMisread ==
    /\ pc = "reply" /\ channel = "up"
    /\ verdict' = "transient" /\ pc' = "mark"
    /\ UNCHANGED <<rows, job, world>>

ReplyArrives ==
    /\ pc = "reply" /\ channel = "up"
    /\ verdict' = "ok" /\ pc' = "mark"
    /\ UNCHANGED <<rows, job, world>>

\* A transport error, a timeout, 429, 5xx or a body that is not JSON: send
\* returns a retriable failure, and cannot tell whether the message was posted
\* or still will be.
SendFails ==
    /\ pc \in {"send", "reply"} /\ channel = "down"
    /\ verdict' = "transient" /\ pc' = "mark"
    /\ network' = IF pc = "send" THEN network \cup {job} ELSE network
    /\ unsettled' = unsettled \cup {job}
    /\ UNCHANGED <<rows, job, channel, clock, received, repeats, refused>>

\* mark_delivered / mark_failed: the loop goes straight on to the next head.
Settle ==
    /\ pc = "mark" /\ verdict \in {"ok", "permanent", "malformed"}
    /\ rows' = [rows EXCEPT ![job].status =
                    IF verdict = "ok" THEN DELIVERED ELSE FAILED]
    /\ pc' = "poll" /\ verdict' = "none"
    /\ UNCHANGED <<job, world>>

\* Mutant: a message is given up after AttemptCap attempts.
RescheduleGivesUp ==
    /\ pc = "mark" /\ verdict = "transient"
    /\ rows' = [rows EXCEPT ![job].attempt_count = Saturate(@ + 1),
                            ![job].status = IF rows[job].attempt_count < AttemptCap
                                            THEN PENDING ELSE FAILED]
    /\ pc' = "sleep" /\ verdict' = "none"
    /\ UNCHANGED <<job, world>>

\* reschedule: the head stays PENDING, and the loop sleeps one poll.
Reschedule ==
    /\ pc = "mark" /\ verdict = "transient"
    /\ \E w \in Jittered(Backoff(rows[job].attempt_count)) :
           rows' = [rows EXCEPT ![job].wait = w,
                                ![job].attempt_count = Saturate(@ + 1)]
    /\ pc' = "sleep" /\ verdict' = "none"
    /\ UNCHANGED <<job, world>>

Drain ==
    \/ Pause \/ Wake \/ (\E i \in Ids : TakeHead(i))
    \/ SendArrives \/ SendRefused \/ ReplyArrives \/ SendFails
    \/ Settle \/ Reschedule

-----------------------------------------------------------------------------
\* The world around the drain.

\* Time passes: every wait gets shorter.
Tick ==
    /\ \E i \in Ids : rows[i].wait > 0
    /\ rows' = [i \in Ids |-> [rows[i] EXCEPT !.wait = IF @ > 0 THEN @ - 1 ELSE 0]]
    /\ UNCHANGED <<pc, job, verdict, world>>

\* time.time() is stepped back: a next_attempt_at that was set moves away.
ClockSteppedBack(i, w) ==
    /\ clock = "adrift"
    /\ Pending(i) /\ rows[i].attempt_count > 0 /\ w > rows[i].wait
    /\ rows' = [rows EXCEPT ![i].wait = w]
    /\ UNCHANGED <<pc, job, verdict, world>>

ClockSynced ==
    /\ clock = "adrift" /\ clock' = "synced"
    /\ UNCHANGED <<table, channel, network, received, repeats, refused, unsettled>>

ChannelFlips ==
    /\ channel' = IF channel = "up" THEN "down" ELSE "up"
    /\ UNCHANGED <<table, clock, network, received, repeats, refused, unsettled>>

\* A copy of an abandoned request arrives after all.
LateArrival(i) ==
    /\ i \in network
    /\ network' = network \ {i}
    /\ received' = received \cup {i}
    /\ repeats' = IF i \in received THEN repeats \cup {i} ELSE repeats
    /\ UNCHANGED <<table, channel, clock, refused, unsettled>>

\* The daemon dies: what the drain knew of its send is lost, the table is not.
Crash ==
    /\ pc # "down"
    /\ pc' = "down" /\ verdict' = "none"
    /\ network' = IF pc = "send" THEN network \cup {job} ELSE network
    /\ unsettled' = IF pc \in {"send", "reply"} \/ (pc = "mark" /\ verdict = "ok")
                    THEN unsettled \cup {job} ELSE unsettled
    /\ UNCHANGED <<rows, job, channel, clock, received, repeats, refused>>

\* The supervisor starts it again (Restart=on-failure).
Restart ==
    /\ pc = "down"
    /\ pc' = "poll"
    /\ UNCHANGED <<rows, job, verdict, world>>

-----------------------------------------------------------------------------

Init ==
    /\ rows = << >> /\ pc = "poll" /\ job = 0 /\ verdict = "none"
    /\ channel = "up" /\ clock = "adrift"
    /\ network = {} /\ received = {} /\ repeats = {} /\ refused = {}
    /\ unsettled = {}

Next ==
    \/ \E payload \in {"good", "malformed"} : Enqueue(payload)
    \/ Drain
    \/ Tick
    \/ \E i \in Ids, w \in 0..MaxWait : ClockSteppedBack(i, w)
    \/ ClockSynced
    \/ ChannelFlips
    \/ \E i \in network : LateArrival(i)
    \/ Crash
    \/ Restart

\* The drain task keeps running while the daemon does (its sends have a
\* timeout), time passes, and a dead daemon is restarted.
Spec == /\ Init /\ [][Next]_vars
        /\ WF_vars(Drain) /\ WF_vars(Tick) /\ WF_vars(Restart)

-----------------------------------------------------------------------------

TypeOK ==
    /\ rows \in Seq(Row) /\ Len(rows) <= MaxRows
    /\ pc \in Places
    /\ job \in 0..Len(rows)
    /\ verdict \in Verdicts
    /\ channel \in {"up", "down"} /\ clock \in {"adrift", "synced"}
    /\ network \subseteq Ids /\ received \subseteq Ids /\ repeats \subseteq Ids
    /\ refused \subseteq Ids /\ unsettled \subseteq Ids

\* Strict FIFO (drain.py): a message is posted for the first time, or leaves
\* the queue, only when every older one has left it; and no message behind the
\* head was ever tried.
StrictFifo ==
    \A i, j \in Ids : i < j /\ Pending(i) =>
        /\ Pending(j) /\ rows[j].attempt_count = 0 /\ rows[j].wait = 0
        /\ j \notin received

\* Nothing is recorded as delivered that the operator never got, through lost
\* replies, late copies and restarts (drain_once, mark_delivered).
DeliveredWasReceived ==
    \A i \in Ids : rows[i].status = DELIVERED => i \in received

\* Never drops (drain.py): a message is dead-lettered only when the API refused
\* it for good or its payload is unusable, however long the outage.
OnlyRefusedAreFailed ==
    \A i \in Ids : rows[i].status = FAILED =>
        i \in refused \/ rows[i].payload = "malformed"

\* At-least-once, and no more than that: the operator gets a message twice only
\* after a send whose outcome was lost in a failure or a crash.
RepeatsAreExcused == repeats \subseteq unsettled

\* A settled row is never touched again: the marks are by id, with no look at
\* the status (mark_delivered, mark_failed, reschedule).
KeepsSettled ==
    \A i \in Ids : ~Pending(i) =>
        /\ rows'[i].status = rows[i].status
        /\ rows'[i].attempt_count = rows[i].attempt_count

SettledIsFinal == [][KeepsSettled]_vars

\* Once the daemon stays up, the channel stays up and the clock is no longer
\* stepped back, every message enqueued is settled: no backlog, wedged head or
\* backoff of the outage survives it (run_drain).
Settles ==
    (<>[](pc # "down") /\ <>[](channel = "up") /\ <>[](clock = "synced")) =>
        \A i \in 1..MaxRows : i \in Ids ~> (i \in Ids /\ ~Pending(i))

=============================================================================
