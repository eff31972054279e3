------------------------------ MODULE Delivery ------------------------------
(***************************************************************************)
(* What the outbox promises its producers: a queue that posts messages to  *)
(* a chat one after the other. A message may be posted more than once, but *)
(* none before every older one is settled; it is settled as delivered only *)
(* after the chat got it, and the only other way out is a dead letter.     *)
(***************************************************************************)
EXTENDS Naturals

VARIABLES
    submitted,  \* how many messages were submitted; their ids are 1, 2, ...
    settled,    \* the ids that left the queue
    failed,     \* those of them that were dead-lettered
    got         \* the ids the chat received

deliveryVars == <<submitted, settled, failed, got>>

\* Every older message left the queue.
Turn(m) == m \in 1..submitted /\ \A k \in 1..submitted : k < m => k \in settled

Init == submitted = 0 /\ settled = {} /\ failed = {} /\ got = {}

Submit ==
    /\ submitted' = submitted + 1
    /\ UNCHANGED <<settled, failed, got>>

Post(m) ==
    /\ Turn(m)
    /\ got' = got \cup {m}
    /\ UNCHANGED <<submitted, settled, failed>>

DeadLetter(m) ==
    /\ Turn(m) /\ m \notin settled
    /\ settled' = settled \cup {m} /\ failed' = failed \cup {m}
    /\ UNCHANGED <<submitted, got>>

Confirm(m) ==
    /\ Turn(m) /\ m \in got \ settled
    /\ settled' = settled \cup {m}
    /\ UNCHANGED <<submitted, failed, got>>

Next ==
    \/ Submit
    \/ \E m \in 1..submitted : Post(m) \/ Confirm(m) \/ DeadLetter(m)

Spec == Init /\ [][Next]_deliveryVars

=============================================================================
