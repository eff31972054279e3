-------------------------- MODULE OutboxRefinement --------------------------
(***************************************************************************)
(* The outbox and its drain implement Delivery: a message is submitted     *)
(* when its row exists and settled when the row is no longer PENDING.      *)
(***************************************************************************)
EXTENDS Outbox

settledBar == {i \in Ids : ~Pending(i)}
failedBar  == {i \in Ids : rows[i].status = FAILED}

D == INSTANCE Delivery WITH
        submitted <- Len(rows), settled <- settledBar, failed <- failedBar,
        got <- received

\* The documented guarantees of drain.py (strict FIFO, never drops, at least
\* once) in one statement, for every fault the model has: lost replies, late
\* copies, clock steps and crashes included.
ImplementsDelivery == D!Spec

-----------------------------------------------------------------------------
\* Why it holds: what each place of the drain knows about the row it works on.

EldersSettled(i) == \A j \in Ids : j < i => ~Pending(j)

\* Between reading the head and recording its outcome, the job stays the head.
JobIsHead == pc \in {"send", "reply", "mark"} => IsHead(job)

\* What was ever tried, posted, left in the network or settled had its turn.
TriedInTurn ==
    \A i \in Ids :
        \/ ~Pending(i) \/ i \in received \/ i \in network
        \/ rows[i].attempt_count > 0 \/ rows[i].wait > 0
        => EldersSettled(i)

\* A verdict exists just while it waits to be recorded, and tells the truth.
VerdictIsTrue ==
    /\ pc # "mark" <=> verdict = "none"
    /\ pc = "reply" \/ verdict = "ok" => job \in received
    /\ verdict = "permanent" => job \in refused
    /\ verdict = "malformed" => rows[job].payload = "malformed"

\* A message the chat has but the table still owes, other than the one being
\* confirmed, is one whose outcome was lost.
OwedIsUnsettled ==
    /\ network \subseteq unsettled
    /\ \A i \in received : Pending(i) =>
          \/ i \in unsettled
          \/ i = job /\ (pc = "reply" \/ verdict = "ok")

\* The inductive invariant.
IInv ==
    /\ TypeOK /\ JobIsHead /\ TriedInTurn /\ VerdictIsTrue /\ OwedIsUnsettled
    /\ DeliveredWasReceived /\ OnlyRefusedAreFailed /\ RepeatsAreExcused

=============================================================================
