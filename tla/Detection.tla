----------------------------- MODULE Detection -----------------------------
(***************************************************************************)
(* The scan cycle around the configured detector (loop.py, cli.py): it     *)
(* observes the window inside the cycle's transaction, its alerts are      *)
(* enqueued there, and the familiar set is rebuilt after a commit, once a  *)
(* day. A cycle that is rolled back, or a crash, ends the process: memory  *)
(* starts over, the outbox and the markers stay.                           *)
(***************************************************************************)
EXTENDS Approach, Inside, Crowd

VARIABLES
    backend,    \* the detector of the configuration
    pc,         \* "idle", "open" (a transaction is open), "upkeep"
    rebuilt,    \* familiar.last_refresh is of today
    staged,     \* the alerts this cycle enqueued
    told,       \* history: silenced subjects whose alert is on record
    visit,      \* history: addresses alerted about in their present visit
    quiet       \* history: windows an address has been silent, up to FadeAfter

record == <<staged, told, visit, quiet>>
vars == <<approach, inside, crowd, backend, pc, rebuilt, record>>

\* An alert is about an address, or about the site (0).
Site == 0

Enqueue(subjects) == staged' = subjects

\* What fire-once keeps a detector from alerting about.
Silenced == alerted \cup (IF dwellAlerted \/ crowdAlerted THEN {Site} ELSE {})

\* The history of visits: over when the address was silent for FadeAfter
\* windows, or silent in a window with more addresses than the table holds.
Quiet(window) ==
    [i \in Ids |-> IF window[i] # 0 THEN 0
                  ELSE IF quiet[i] < FadeAfter THEN quiet[i] + 1 ELSE quiet[i]]
Over(window) ==
    {i \in Ids : \/ Quiet(window)[i] = FadeAfter
                 \/ window[i] = 0 /\ Cardinality(Tracked(tracks) \cup Heard(window)) > MaxTracks}

ApproachCycle(window) ==
    /\ backend = "approach"
    /\ ObserveApproach(window)
    /\ Enqueue(Approaching(window))
    /\ visit' = (visit \ Over(window)) \cup Approaching(window)
    /\ quiet' = Quiet(window)
    /\ UNCHANGED <<inside, crowd>>

InsideCycle(window) ==
    /\ backend = "inside"
    /\ ObserveInside(window)
    /\ Enqueue(IF Dwelling(window) THEN {Site} ELSE {})
    /\ UNCHANGED <<approach, crowd, visit, quiet>>

CrowdCycle(w) ==
    /\ backend = "crowd"
    /\ ObserveCrowd(w)
    /\ Enqueue(IF Busy(w) THEN {Site} ELSE {})
    /\ UNCHANGED <<approach, inside, visit, quiet>>

\* run_cycle up to its COMMIT.
Cycle ==
    /\ pc = "idle" /\ pc' = "open"
    /\ \/ \E window \in Windows : ApproachCycle(window) \/ InsideCycle(window)
       \/ \E w \in CrowdWindows : CrowdCycle(w)
    /\ UNCHANGED <<backend, rebuilt, told>>

Commit ==
    /\ pc = "open" /\ pc' = "upkeep"
    /\ told' = (told \cup staged) \cap Silenced
    /\ staged' = {}
    /\ UNCHANGED <<approach, inside, crowd, backend, rebuilt, visit, quiet>>

\* refresh_if_due after the commit; only the inside detector reads the sets.
Upkeep ==
    /\ pc = "upkeep" /\ pc' = "idle"
    /\ rebuilt' = TRUE
    /\ IF rebuilt \/ backend # "inside" THEN UNCHANGED inside ELSE Rebuild
    /\ UNCHANGED <<approach, crowd, backend, record>>

Midnight ==
    /\ rebuilt /\ rebuilt' = FALSE
    /\ UNCHANGED <<approach, inside, crowd, backend, pc, record>>

\* What a new process starts from.
Fresh ==
    /\ tracks' = [i \in Ids |-> << >>] /\ alerted' = {}
    /\ streak' = 0 /\ dwellAlerted' = FALSE
    /\ excluded' \in (IF backend = "inside" THEN Excludable ELSE {excluded})
    /\ cusum' = 0 /\ crowdAlerted' = FALSE /\ installed' = FALSE /\ hours' = 0
    /\ episodeTier' = "none" /\ backfill' = << >> /\ absorbed' = {} /\ tier' = "rolling"
    /\ staged' = {} /\ told' = {} /\ visit' = {} /\ quiet' = [i \in Ids |-> 0]

\* Mutant: the loop goes on after a rollback, with the detector as it is.
RestartKeepsMemory ==
    /\ pc' = "idle" /\ staged' = {}
    /\ UNCHANGED <<approach, inside, crowd, backend, rebuilt, told, visit, quiet>>

\* The cycle fails, or the daemon dies anywhere, and systemd starts it again.
Restart == pc' = "idle" /\ Fresh /\ UNCHANGED <<backend, rebuilt>>

Init ==
    /\ InitApproach /\ InitInside /\ InitCrowd
    /\ backend \in {"approach", "inside", "crowd"} /\ pc = "idle" /\ rebuilt = FALSE
    /\ (backend # "inside" => excluded = {})
    /\ staged = {} /\ told = {} /\ visit = {} /\ quiet = [i \in Ids |-> 0]

Next == Cycle \/ Commit \/ Upkeep \/ Midnight \/ Restart

Spec == Init /\ [][Next]_vars

-----------------------------------------------------------------------------

\* "Fire-once per visit" (approach.md): an address is alerted about again only
\* after it was silent for FadeAfter windows in a row, or silent while the table
\* overflowed, whatever else is tracked, faded or evicted.
OneAlertPerVisit ==
    [][backend = "approach" /\ pc = "idle" /\ pc' = "open" =>
          staged' \cap visit = {}]_vars

\* Fire-once memory is changed before the COMMIT and never ahead of it: what the
\* detector is silent about because it has alerted is on record in the outbox
\* (run_cycle: "a rolled-back cycle must not continue").
SilencedMeansAlerted ==
    pc # "open" => Silenced \subseteq told

=============================================================================
