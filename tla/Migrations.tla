----------------------------- MODULE Migrations -----------------------------
(***************************************************************************)
(* The migration runner (apply_migrations in storage/database.py). Every   *)
(* start of the daemon and every `blesentry init` runs it, on a connection *)
(* of its own and perhaps at the same time. A runner reads the bookkeeping *)
(* table once, then works through the files of the migrations directory;   *)
(* a script and its bookkeeping row are one transaction, executed by the   *)
(* connection's thread. Deploys change the directory meanwhile.            *)
(*                                                                         *)
(* A version is its place in filename order; the text of a script and its  *)
(* checksum are one value. Reading a file, its checksum included, is one   *)
(* step.                                                                   *)
(***************************************************************************)
EXTENDS Integers, Sequences

CONSTANTS
    Processes,      \* who runs migrations
    Scripts,        \* what a file of the directory may hold ...
    Broken,         \* ... and the texts SQLite rejects
    Released,       \* the directory of the first release
    MaxFiles,       \* bound: files in the directory
    MaxDeploys      \* bound: changes to the directory

Nobody == "nobody"

ASSUME MigrationsAssumption ==
    /\ Nobody \notin Processes
    /\ Broken \subseteq Scripts
    /\ Released \in Seq(Scripts)
    /\ MaxFiles \in Nat /\ MaxDeploys \in Nat

VARIABLES
    files,          \* the *.sql files, in filename order
    deploys,        \* how often the directory was changed
    schema,         \* the scripts that were executed, in that order
    recorded,       \* schema_migrations: <<version, checksum>>
    writer,         \* who holds SQLite's write lock
    runner          \* per process: where apply_migrations is, and its locals

directory == <<files, deploys>>
database  == <<schema, recorded>>
migrationVars == <<directory, database, writer, runner>>

\* The versions of a set of <<version, checksum>>.
Versions(rows) == {r[1] : r \in rows}

Runner == [pc: {"down", "look", "loop", "begin", "body", "commit", "ready", "failed"},
           known: SUBSET ((Nat \ {0}) \X Scripts), \* recorded, as read before the loop
           listed: Nat,                            \* the files directory.glob found
           read: Seq(Scripts)]                     \* the files the loop has come to

AtRest(pc) == [pc |-> pc, known |-> {}, listed |-> 0, read |-> << >>]

\* The script a runner is at.
Current(p) == <<Len(runner[p].read), runner[p].read[Len(runner[p].read)]>>

InScript(p) == runner[p].pc \in {"begin", "body", "commit"}

\* The lock of a connection goes with its transaction.
Unlocked(p) == IF writer = p THEN Nobody ELSE writer

-----------------------------------------------------------------------------
\* apply_migrations

Start(p) ==
    /\ runner[p].pc = "down"
    /\ runner' = [runner EXCEPT ![p] = AtRest("look")]
    /\ UNCHANGED <<directory, database, writer>>

\* The bootstrap (which does nothing once the table is there), the SELECT, and
\* the listing of the directory.
Look(p) ==
    /\ runner[p].pc = "look"
    /\ runner' = [runner EXCEPT ![p].pc = "loop", ![p].known = recorded,
                                ![p].listed = Len(files)]
    /\ UNCHANGED <<directory, database, writer>>

Fail(p) == runner' = [runner EXCEPT ![p] = AtRest("failed")]

\* Mutant: a version is skipped whatever its file holds by now.
VisitAnyChecksum(p) ==
    /\ runner[p].pc = "loop" /\ Len(runner[p].read) < runner[p].listed
    /\ LET version == Len(runner[p].read) + 1
           checksum == files[version]
           seen == [runner EXCEPT ![p].read = Append(@, checksum)]
       IN  \/ version \in Versions(runner[p].known) /\ runner' = seen
           \/ version \notin Versions(runner[p].known) /\ runner' = [seen EXCEPT ![p].pc = "begin"]
    /\ UNCHANGED <<directory, database, writer>>

\* The next file: "a recorded version whose file checksum no longer matches
\* raises MigrationError", another recorded version is skipped.
Visit(p) ==
    /\ runner[p].pc = "loop" /\ Len(runner[p].read) < runner[p].listed
    /\ LET version == Len(runner[p].read) + 1
           checksum == files[version]
           seen == [runner EXCEPT ![p].read = Append(@, checksum)]
       IN  \/ <<version, checksum>> \in runner[p].known /\ runner' = seen
           \/ /\ version \in Versions(runner[p].known)
              /\ <<version, checksum>> \notin runner[p].known
              /\ Fail(p)
           \/ version \notin Versions(runner[p].known) /\ runner' = [seen EXCEPT ![p].pc = "begin"]
    /\ UNCHANGED <<directory, database, writer>>

Finish(p) ==
    /\ runner[p].pc = "loop" /\ Len(runner[p].read) = runner[p].listed
    /\ runner' = [runner EXCEPT ![p].pc = "ready"]
    /\ UNCHANGED <<directory, database, writer>>

-----------------------------------------------------------------------------
\* executescript("BEGIN; <script>; INSERT INTO schema_migrations ...; COMMIT;")

\* The first write takes the lock.
Begin(p) ==
    /\ runner[p].pc = "begin" /\ writer = Nobody
    /\ writer' = p
    /\ runner' = [runner EXCEPT ![p].pc = "body"]
    /\ UNCHANGED <<directory, database>>

\* Mutant: no BEGIN, the statements of the script commit on their own.
BodyCommitsItself(p) ==
    /\ runner[p].pc = "body"
    /\ Current(p)[2] \notin Broken /\ Current(p)[1] \notin Versions(recorded)
    /\ schema' = Append(schema, Current(p))
    /\ runner' = [runner EXCEPT ![p].pc = "commit"]
    /\ UNCHANGED <<directory, recorded, writer>>

\* The script and its row, seen by nobody else yet. A version that another
\* runner has applied by now fails: what it creates exists already, and so does
\* its row. So does a broken script.
Body(p) ==
    /\ runner[p].pc = "body"
    /\ \/ /\ Current(p)[2] \notin Broken /\ Current(p)[1] \notin Versions(recorded)
          /\ runner' = [runner EXCEPT ![p].pc = "commit"]
          /\ UNCHANGED writer
       \/ /\ Current(p)[2] \in Broken \/ Current(p)[1] \in Versions(recorded)
          /\ Fail(p) /\ writer' = Nobody
    /\ UNCHANGED <<directory, database>>

Commit(p) ==
    /\ runner[p].pc = "commit"
    /\ schema' = Append(schema, Current(p))
    /\ recorded' = recorded \cup {Current(p)}
    /\ writer' = Nobody
    /\ runner' = [runner EXCEPT ![p].pc = "loop"]
    /\ UNCHANGED directory

Migrate(p) ==
    Look(p) \/ Visit(p) \/ Finish(p) \/ Begin(p) \/ Body(p) \/ Commit(p)

\* SQLite fails a statement: the lock is not free within busy_timeout, the disk
\* is full. The transaction is rolled back and the runner raises.
DbError(p) ==
    /\ runner[p].pc = "look" \/ InScript(p)
    /\ Fail(p) /\ writer' = Unlocked(p)
    /\ UNCHANGED <<directory, database>>

-----------------------------------------------------------------------------
\* Around it.

\* The process is through with it, or is killed: an open transaction is gone.
Leave(p) ==
    /\ runner[p].pc # "down"
    /\ runner' = [runner EXCEPT ![p] = AtRest("down")] /\ writer' = Unlocked(p)
    /\ UNCHANGED <<directory, database>>

\* A deploy appends the next-numbered file ...
Ship(script) ==
    /\ deploys < MaxDeploys /\ Len(files) < MaxFiles
    /\ files' = Append(files, script) /\ deploys' = deploys + 1
    /\ UNCHANGED <<database, writer, runner>>

\* ... or, against the rules, edits one.
Edit(version, script) ==
    /\ deploys < MaxDeploys /\ files[version] # script
    /\ files' = [files EXCEPT ![version] = script] /\ deploys' = deploys + 1
    /\ UNCHANGED <<database, writer, runner>>

Deploy ==
    \E script \in Scripts :
        \/ Ship(script)
        \/ \E version \in DOMAIN files : Edit(version, script)

MigrationInit ==
    /\ files = Released /\ deploys = 0
    /\ schema = << >> /\ recorded = {}
    /\ writer = Nobody
    /\ runner = [p \in Processes |-> AtRest("down")]

MigrationNext ==
    \/ \E p \in Processes : Start(p) \/ Migrate(p) \/ DbError(p) \/ Leave(p)
    \/ Deploy

MigrationSpec == MigrationInit /\ [][MigrationNext]_migrationVars

-----------------------------------------------------------------------------

MigrationTypeOK ==
    /\ files \in Seq(Scripts) /\ deploys \in Nat
    /\ schema \in Seq((Nat \ {0}) \X Scripts)
    /\ recorded \subseteq (Nat \ {0}) \X Scripts
    /\ writer \in Processes \cup {Nobody}
    /\ runner \in [Processes -> Runner]

\* "the schema can never be applied without a corresponding schema_migrations
\* entry" (apply_migrations), nor the other way round, nor out of order, nor
\* twice: whatever races, fails and dies, the scripts that were executed are
\* versions 1, 2, 3, ... and the rows are theirs.
SchemaIsRecorded ==
    /\ \A i \in DOMAIN schema : schema[i][1] = i
    /\ recorded = {schema[i] : i \in DOMAIN schema}

\* A process gets past its migrations only over a schema in which each file it
\* found was executed with the text it read, though the bookkeeping rows it
\* goes by were read before the loop and others migrate and deploy meanwhile.
StartsOnItsSchema ==
    \A p \in Processes : runner[p].pc = "ready" =>
        /\ Len(runner[p].read) = runner[p].listed
        /\ \A v \in DOMAIN runner[p].read : <<v, runner[p].read[v]>> \in recorded

=============================================================================
