------------------------------- MODULE Daemon -------------------------------
(***************************************************************************)
(* The daemon process (_run_daemon, _run_supervised) and the transactions  *)
(* of its tasks (transaction in storage/database.py), under a supervisor   *)
(* that restarts it after a failure (the systemd unit).                    *)
(*                                                                         *)
(* The main coroutine opens the connections one after the other and runs   *)
(* the migrations, then starts one task per connection and waits for the   *)
(* first to end; it cancels the rest, waits for them and closes the        *)
(* connections. A task works through units of work, each a transaction of  *)
(* several statements. A statement is a request to its connection's        *)
(* thread; cancelling the task does not take the request back. A thread's  *)
(* step executes the next request and, if the task still waits for it,     *)
(* carries the task on to its next request.                                *)
(***************************************************************************)
EXTENDS Migrations, FiniteSets

CONSTANTS
    BootPlan,       \* the order in which connections are opened and closed; ...
    Statements,     \* statements in a unit of work
    MaxFaults       \* bound: failures, of any kind

\* ... two of its entries are no connection.
Tasks == {BootPlan[i] : i \in DOMAIN BootPlan} \ {"migrate", "familiar"}

ASSUME DaemonAssumption ==
    /\ BootPlan \in Seq(STRING)
    /\ Tasks \cap (Processes \cup {Nobody}) = {}
    /\ "daemon" \in Processes /\ "scan" \in Tasks
    /\ \A i \in DOMAIN BootPlan :  \* the migrations run on the connection of the scan loop
          BootPlan[i] = "migrate" => \E j \in 1..(i - 1) : BootPlan[j] = "scan"
    /\ Statements \in Nat \ {0} /\ MaxFaults \in Nat

VARIABLES
    main,       \* the main coroutine: where it is, what it raises, the exit code
    armed,      \* whether the SIGTERM handler is installed
    opened,     \* the connections main has a name for
    task,       \* per task: what it awaits, and where it is in its unit
    queue,      \* per task: its requests the thread has not executed
    draft,      \* per task: its statements in the open transaction
    stored,     \* per task: its committed statements, over whole units
    faults      \* how many failures so far

daemonVars == <<main, armed, opened, task, queue, draft, stored, faults>>
units == <<task, queue, draft, stored>>
vars == <<migrationVars, daemonVars>>

\* _run_daemon: "Each task that writes gets its OWN connection". Mutant: none does.
ConnShared(t) == "scan"
Conn(t) == t

\* The task that survives an exception of its unit.
Swallowing == {"cmd"}

Waiting == {"idle", "begin", "write", "commit", "rollback"}
Ended   == {"returned", "failed", "cancelled"}

Resting(at) == [at |-> at, done |-> 0, outer |-> FALSE, raising |-> "none"]

Fault == faults < MaxFaults /\ faults' = faults + 1

\* Nothing of the process's memory outlives it, open transactions included.
Blank ==
    /\ task' = [t \in Tasks |-> Resting("unborn")]
    /\ queue' = [t \in Tasks |-> << >>] /\ draft' = [t \in Tasks |-> 0]

-----------------------------------------------------------------------------
\* A task, once its request was executed.

\* An exception leaves the unit. run_command_loop goes on after an Exception,
\* which CancelledError is not; elsewhere it ends the task.
Raised(t, raising) ==
    IF raising = "failed" /\ t \in Swallowing THEN Resting("idle") ELSE Resting(raising)

\* What the task of state s goes on with when the request it awaits is done ...
Onward(t, s) ==
    CASE s.at = "begin"    -> [s EXCEPT !.at = "write"]
      [] s.at = "write"    -> IF s.done + 1 < Statements THEN [s EXCEPT !.done = @ + 1]
                              ELSE IF s.outer THEN [s EXCEPT !.at = "commit"]
                              ELSE Resting("idle")
      [] s.at = "commit"   -> Resting("idle")
      [] s.at = "rollback" -> Raised(t, s.raising)

\* ... when it fails ...
Unwound(t, s, raising) ==
    IF s.at = "write" /\ s.outer THEN [s EXCEPT !.at = "rollback", !.raising = raising]
    ELSE Raised(t, raising)

\* Mutant: transaction() rolls back on Exception only.
CancelledBare(t, s) == IF s.at \in Waiting THEN Resting("cancelled") ELSE s

\* ... and when the task is cancelled there: "Rollback triggers on
\* BaseException". BEGIN is awaited outside the try, COMMIT in its else.
Cancelled(t, s) == IF s.at \in Waiting THEN Unwound(t, s, "cancelled") ELSE s

\* The request the task sends as it gets to state s.
Request(s) == IF s.at \in {"begin", "write", "commit", "rollback"} THEN <<s.at>> ELSE << >>

\* The thread of t is through with the head of its queue, and next is what t
\* does if it is that request it awaits.
Through(t, next) ==
    IF task[t].at = Head(queue[t])
    THEN /\ task' = [task EXCEPT ![t] = next]
         /\ queue' = [queue EXCEPT ![t] = Tail(@) \o Request(next)]
    ELSE UNCHANGED task /\ queue' = [queue EXCEPT ![t] = Tail(@)]

\* The tasks whose statements are in the transaction of connection c.
On(c) == {t \in Tasks : Conn(t) = c}

Drop(c) == draft' = [t \in Tasks |-> IF t \in On(c) THEN 0 ELSE draft[t]]

-----------------------------------------------------------------------------
\* Units of work.

\* transaction(): the outermost begins, a nested one joins. (The thread has
\* nothing left to do for an idle task.)
Enter(t) ==
    /\ task[t].at = "idle"
    /\ LET outermost == writer # Conn(t)
           next == [Resting(IF outermost THEN "begin" ELSE "write") EXCEPT !.outer = outermost]
       IN  /\ task' = [task EXCEPT ![t] = next]
           /\ queue' = [queue EXCEPT ![t] = Append(@, next.at)]
    /\ UNCHANGED <<migrationVars, main, armed, opened, draft, stored, faults>>

\* The thread's next request is this one.
Serves(t, request) == queue[t] # << >> /\ Head(queue[t]) = request

\* BEGIN IMMEDIATE
ThreadBegins(t) ==
    /\ Serves(t, "begin") /\ writer = Nobody
    /\ writer' = Conn(t) /\ Through(t, Onward(t, task[t]))
    /\ UNCHANGED <<directory, database, runner, main, armed, opened, draft, stored, faults>>

\* "database is locked": busy_timeout has passed. That is a failure if the
\* holder was only slow ...
ThreadTimesOut(t) ==
    /\ Serves(t, "begin") /\ writer # Nobody /\ Fault
    /\ Through(t, Unwound(t, task[t], "failed"))
    /\ UNCHANGED <<migrationVars, main, armed, opened, draft, stored>>

\* ... and what must happen if it holds a transaction that nobody will end: a
\* BEGIN that was executed after its task had been cancelled.
Abandoned == writer \in Tasks /\ task[writer].at \in Ended /\ queue[writer] = << >>

ThreadGivesUp(t) ==
    /\ Serves(t, "begin") /\ Abandoned
    /\ Through(t, Unwound(t, task[t], "failed"))
    /\ UNCHANGED <<migrationVars, main, armed, opened, draft, stored, faults>>

ThreadWrites(t) ==
    /\ Serves(t, "write")
    /\ draft' = [draft EXCEPT ![t] = @ + 1] /\ Through(t, Onward(t, task[t]))
    /\ UNCHANGED <<migrationVars, main, armed, opened, stored, faults>>

\* The statement fails, the transaction stays open ...
WriteFails(t) ==
    /\ Serves(t, "write") /\ Fault
    /\ Through(t, Unwound(t, task[t], "failed"))
    /\ UNCHANGED <<migrationVars, main, armed, opened, draft, stored>>

\* ... or is gone (an I/O error, a full disk).
WriteFailsForGood(t) ==
    /\ Serves(t, "write") /\ Fault
    /\ writer' = Unlocked(Conn(t)) /\ Drop(Conn(t)) /\ Through(t, Unwound(t, task[t], "failed"))
    /\ UNCHANGED <<directory, database, runner, main, armed, opened, stored>>

ThreadCommits(t) ==
    /\ Serves(t, "commit")
    /\ stored' = [u \in Tasks |-> IF u \in On(Conn(t)) THEN (stored[u] + draft[u]) % Statements
                                  ELSE stored[u]]
    /\ writer' = Unlocked(Conn(t)) /\ Drop(Conn(t)) /\ Through(t, Onward(t, task[t]))
    /\ UNCHANGED <<directory, database, runner, main, armed, opened, faults>>

\* A COMMIT that fails undoes its transaction.
CommitFails(t) ==
    /\ Serves(t, "commit") /\ Fault
    /\ writer' = Unlocked(Conn(t)) /\ Drop(Conn(t)) /\ Through(t, Unwound(t, task[t], "failed"))
    /\ UNCHANGED <<directory, database, runner, main, armed, opened, stored>>

\* ROLLBACK; with no transaction to end it fails itself, and that is the
\* exception that leaves the unit.
ThreadRollsBack(t) ==
    /\ Serves(t, "rollback")
    /\ Drop(Conn(t)) /\ writer' = Unlocked(Conn(t))
    /\ Through(t, IF writer = Conn(t) THEN Onward(t, task[t]) ELSE Raised(t, "failed"))
    /\ UNCHANGED <<directory, database, runner, main, armed, opened, stored, faults>>

Thread(t) ==
    ThreadBegins(t) \/ ThreadGivesUp(t) \/ ThreadWrites(t) \/ ThreadCommits(t) \/ ThreadRollsBack(t)

ThreadFails(t) ==
    ThreadTimesOut(t) \/ WriteFails(t) \/ WriteFailsForGood(t) \/ CommitFails(t)

\* The scanner or a sender raises outside a unit.
TaskFails(t) ==
    /\ task[t].at = "idle" /\ t \notin Swallowing /\ Fault
    /\ task' = [task EXCEPT ![t] = Resting("failed")]
    /\ UNCHANGED <<migrationVars, main, armed, opened, queue, draft, stored>>

\* --max-cycles
ScanReturns ==
    /\ task["scan"].at = "idle"
    /\ task' = [task EXCEPT !["scan"] = Resting("returned")]
    /\ UNCHANGED <<migrationVars, main, armed, opened, queue, draft, stored, faults>>

-----------------------------------------------------------------------------
\* _run_daemon, until the tasks run.

Launch ==
    /\ main.pc = "down"
    /\ main' = [pc |-> "boot", step |-> 1, raised |-> "none", code |-> "none"]
    /\ armed' = TRUE
    /\ UNCHANGED <<migrationVars, opened, units, faults>>

AtStep(what) == main.pc = "boot" /\ main.step \in DOMAIN BootPlan /\ BootPlan[main.step] = what

\* To the finally clause.
Unwind(raised) == main' = [main EXCEPT !.pc = "close", !.raised = raised] /\ armed' = FALSE

\* connect(), or the reads that build the familiar set.
BootStep(what) ==
    /\ what # "migrate" /\ AtStep(what)
    /\ opened' = opened \cup ({what} \cap Tasks)
    /\ main' = [main EXCEPT !.step = @ + 1]
    /\ UNCHANGED <<migrationVars, armed, units, faults>>

BootFails(what) ==
    /\ what # "migrate" /\ AtStep(what) /\ Fault
    /\ Unwind("failure")
    /\ UNCHANGED <<migrationVars, opened, units>>

BootMigrates ==
    /\ AtStep("migrate")
    /\ Start("daemon") \/ Migrate("daemon")
    /\ UNCHANGED daemonVars

MigrationFails ==
    /\ AtStep("migrate") /\ DbError("daemon") /\ Fault
    /\ UNCHANGED <<main, armed, opened, units>>

Migrated ==
    /\ AtStep("migrate") /\ runner["daemon"].pc = "ready"
    /\ main' = [main EXCEPT !.step = @ + 1]
    /\ Leave("daemon")
    /\ UNCHANGED <<armed, opened, units, faults>>

\* MigrationError
NotMigrated ==
    /\ AtStep("migrate") /\ runner["daemon"].pc = "failed"
    /\ Unwind("failure") /\ Leave("daemon")
    /\ UNCHANGED <<opened, units, faults>>

\* ensure_future, for the loop and its siblings.
Supervise ==
    /\ main.pc = "boot" /\ main.step = Len(BootPlan) + 1
    /\ main' = [main EXCEPT !.pc = "supervise"]
    /\ task' = [t \in Tasks |-> Resting("idle")]
    /\ UNCHANGED <<migrationVars, armed, opened, queue, draft, stored, faults>>

-----------------------------------------------------------------------------
\* _run_supervised, and the way out.

CancelAll ==
    /\ task' = [t \in Tasks |-> Cancelled(t, task[t])]
    /\ queue' = [t \in Tasks |->
           queue[t] \o (IF task'[t] = task[t] THEN << >> ELSE Request(task'[t]))]

\* Mutant: return_when=FIRST_EXCEPTION.
WakeOnException ==
    /\ main.pc = "supervise"
    /\ (\E t \in Tasks : task[t].at = "failed") \/ (\A t \in Tasks : task[t].at \in Ended)
    /\ main' = [main EXCEPT !.pc = "drain"] /\ CancelAll
    /\ UNCHANGED <<migrationVars, armed, opened, draft, stored, faults>>

\* asyncio.wait, FIRST_COMPLETED
Wake ==
    /\ main.pc = "supervise" /\ \E t \in Tasks : task[t].at \in Ended
    /\ main' = [main EXCEPT !.pc = "drain"] /\ CancelAll
    /\ UNCHANGED <<migrationVars, armed, opened, draft, stored, faults>>

\* Mutant: the cancelled tasks are not waited for.
GatherNothing ==
    /\ main.pc = "drain"
    /\ Unwind(IF main.raised = "none" /\ \E t \in Tasks : task[t].at = "failed"
              THEN "failure" ELSE main.raised)
    /\ UNCHANGED <<migrationVars, opened, units, faults>>

\* gather, and what _run_supervised raises.
Gather ==
    /\ main.pc = "drain" /\ \A t \in Tasks : task[t].at \in Ended
    /\ Unwind(IF main.raised = "none" /\ \E t \in Tasks : task[t].at = "failed"
              THEN "failure" ELSE main.raised)
    /\ UNCHANGED <<migrationVars, opened, units, faults>>

\* SIGTERM, the first: the handler removes itself and cancels main. A script
\* that a thread executes goes on.
Terminate ==
    /\ armed /\ main.pc \in {"boot", "supervise", "drain"} /\ armed' = FALSE
    /\ \/ /\ main.pc = "boot"
          /\ main' = [main EXCEPT !.pc = "close", !.raised = "cancel"]
          /\ UNCHANGED <<task, queue>>
       \/ /\ main.pc # "boot"
          /\ main' = [main EXCEPT !.pc = "drain", !.raised = "cancel"]
          /\ CancelAll
    /\ UNCHANGED <<migrationVars, opened, draft, stored, faults>>

ScriptGoesOn ==
    /\ main.pc = "close" /\ InScript("daemon") /\ Migrate("daemon")
    /\ UNCHANGED daemonVars

\* The requests before it in the thread's queue come first.
Close ==
    /\ main.pc = "close"
    /\ \E i \in DOMAIN BootPlan :
          LET c == BootPlan[i]
          IN  /\ c \in opened /\ \A j \in 1..(i - 1) : BootPlan[j] \notin opened
              /\ \A t \in On(c) : queue[t] = << >>
              /\ c = "scan" => ~InScript("daemon")
              /\ opened' = opened \ {c} /\ writer' = Unlocked(c) /\ Drop(c)
    /\ UNCHANGED <<directory, database, runner, main, armed, task, queue, stored, faults>>

\* A failure leaves main() with 1, the rest with 0.
Exit ==
    /\ main.pc = "close" /\ opened = {}
    /\ main' = [main EXCEPT !.pc = "exited", !.code = IF main.raised = "failure" THEN "1" ELSE "0"]
    /\ runner' = [runner EXCEPT !["daemon"] = AtRest("down")]
    /\ UNCHANGED <<directory, database, writer, armed, opened, units, faults>>

\* A signal ends the process at once.
Die(code) ==
    /\ main' = [main EXCEPT !.pc = "exited", !.code = code] /\ armed' = FALSE /\ opened' = {}
    /\ Blank
    /\ writer' = IF writer \in Tasks \cup {"daemon"} THEN Nobody ELSE writer
    /\ runner' = [runner EXCEPT !["daemon"] = AtRest("down")]
    /\ UNCHANGED <<directory, database, stored>>

\* A second SIGTERM, or one in the finally clause.
TerminateAtOnce ==
    /\ main.pc \notin {"down", "exited"} /\ ~armed
    /\ Die("SIGTERM") /\ UNCHANGED faults

Crash == main.pc \notin {"down", "exited"} /\ Fault /\ Die("SIGKILL")

\* Mutant: Restart=on-abnormal.
RestartAbnormal ==
    /\ main.pc = "exited" /\ main.code = "SIGKILL"
    /\ main' = [main EXCEPT !.pc = "down"] /\ Blank
    /\ UNCHANGED <<migrationVars, armed, opened, stored, faults>>

\* Restart=on-failure, StartLimitIntervalSec=0
Restart ==
    /\ main.pc = "exited" /\ main.code \in {"1", "SIGKILL"}
    /\ main' = [main EXCEPT !.pc = "down"] /\ Blank
    /\ UNCHANGED <<migrationVars, armed, opened, stored, faults>>

-----------------------------------------------------------------------------

\* The other processes that migrate.
Others == Processes \ {"daemon"}

OthersMigrate ==
    /\ \E p \in Others : Start(p) \/ Migrate(p) \/ Leave(p)
    /\ UNCHANGED daemonVars

OthersFail == (\E p \in Others : DbError(p)) /\ Fault /\ UNCHANGED <<main, armed, opened, units>>

Init ==
    /\ MigrationInit
    /\ main = [pc |-> "down", step |-> 1, raised |-> "none", code |-> "none"]
    /\ armed = FALSE /\ opened = {} /\ faults = 0
    /\ task = [t \in Tasks |-> Resting("unborn")]
    /\ queue = [t \in Tasks |-> << >>] /\ draft = [t \in Tasks |-> 0]
    /\ stored = [t \in Tasks |-> 0]

\* The main coroutine, and what drives it.
Main ==
    \/ Launch \/ BootMigrates \/ Migrated \/ NotMigrated \/ Supervise
    \/ \E i \in DOMAIN BootPlan : BootStep(BootPlan[i])
    \/ Wake \/ Gather \/ ScriptGoesOn \/ Close \/ Exit \/ Restart

Next ==
    \/ Main
    \/ \E t \in Tasks : Enter(t) \/ Thread(t) \/ ThreadFails(t) \/ TaskFails(t)
    \/ ScanReturns \/ MigrationFails \/ \E i \in DOMAIN BootPlan : BootFails(BootPlan[i])
    \/ Terminate \/ TerminateAtOnce \/ Crash
    \/ OthersMigrate \/ OthersFail \/ (Deploy /\ UNCHANGED daemonVars)

\* What asks for the write lock.
Locks == \/ Begin("daemon") /\ UNCHANGED daemonVars
         \/ \E t \in Tasks : ThreadBegins(t)

\* The event loop and the threads run, and so does systemd. `blesentry init`,
\* started and killed over and over, does not keep the daemon from the lock.
Fairness ==
    /\ WF_vars(Main) /\ SF_vars(Locks)
    /\ \A t \in Tasks : WF_vars(Thread(t))
    /\ \A p \in Others : WF_vars(InScript(p) /\ Migrate(p) /\ UNCHANGED daemonVars)

Spec == Init /\ [][Next]_vars /\ Fairness

-----------------------------------------------------------------------------

\* "Each task that writes gets its OWN connection: transaction() nesting is
\* connection-global, so sharing one connection across tasks would corrupt their
\* units of work" (_run_daemon): what is committed is whole units, whatever
\* fails, is cancelled or dies.
WholeUnits == \A t \in Tasks : stored[t] = 0

\* "Rollback triggers on BaseException so task cancellation between BEGIN and
\* COMMIT never abandons an open transaction on the connection" (transaction).
\* What a task does leave behind, if it is cancelled while it awaits BEGIN, is
\* a transaction with nothing in it.
NothingHalfDoneIsLeft ==
    \A t \in Tasks : task[t].at \in Ended /\ queue[t] = << >> => draft[t] = 0

\* "the finally always drains their cancellation so no task is orphaned"
\* (_run_supervised), and "connections close cleanly" (_run_daemon): a process
\* that exits by itself has no task, no connection, no request left and no lock.
CleanExit ==
    main.pc = "exited" =>
        /\ opened = {} /\ writer \notin Tasks \cup {"daemon"}
        /\ \A t \in Tasks : task[t].at \in Ended \cup {"unborn"} /\ queue[t] = << >>

\* "a dead scan, drain, or command loop takes the daemon down for the supervisor
\* to restart, never a half-running sentinel" (_run_supervised).
OneDownAllDown ==
    (\E t \in Tasks : task[t].at \in Ended) ~> main.pc = "exited"

\* The exception: the command loop takes the failure of the ROLLBACK its
\* cancellation caused for a failed command, and goes on.
Survivor == main.pc = "drain" /\ \E t \in Swallowing \cap Tasks : task[t].at = "idle"

\* What does hold of that: the daemon outlives one of its tasks only with such
\* a survivor. Nothing else waits for a lock, a thread or a task for good.
OnlyASurvivorLingers ==
    (\E t \in Tasks : task[t].at \in Ended) ~> main.pc = "exited" \/ Survivor

\* The directory is one the runner accepts.
Runnable ==
    /\ \A i \in DOMAIN files : files[i] \notin Broken
    /\ \A r \in recorded : files[r[1]] = r[2]

\* The process was told to stop, or the scan loop had done its cycles.
StoppedOnPurpose ==
    /\ main.pc = "exited"
    /\ \/ main.code = "SIGTERM"
       \/ main.code = "0" /\ (main.raised = "cancel" \/ \A t \in Tasks : task[t].at # "failed")

\* "a migration that cannot get the write lock raises MigrationError leaving the
\* schema untouched - safe to retry" (docs/schema.md), "if any raises, the
\* siblings are cancelled and the exception propagates" (_run_supervised): once
\* the directory is in order and the faults are over, the daemon comes up and
\* stays up by itself, if it was not stopped on purpose, whatever failed before
\* and whoever migrated when. (A stay in "drain" is OnlyASurvivorLingers'
\* business.)
Heals ==
    <>[]Runnable => <>[](main.pc \in {"supervise", "drain"} \/ StoppedOnPurpose)

=============================================================================
