---------------------------- MODULE DaemonProofs ----------------------------
(***************************************************************************)
(* Proofs about Migrations and Daemon. The migrations, for any number of   *)
(* processes, files, scripts and deploys: the schema is what the           *)
(* bookkeeping table says, and nobody starts over another one. The daemon, *)
(* for any number of connections, statements per unit, faults, deploys and *)
(* other processes that migrate: what is committed is whole units, nothing *)
(* half done is left behind, an exit is clean, the schema is what the      *)
(* bookkeeping table says there too, and all the daemon does to it is      *)
(* steps of migration runners.                                             *)
(***************************************************************************)
EXTENDS Daemon, SequenceTheorems, TLAPS

-----------------------------------------------------------------------------
\* Migrations: the inductive invariant.

Row == (Nat \ {0}) \X Scripts

TablesOK ==
    /\ files \in Seq(Scripts) /\ schema \in Seq(Row) /\ recorded \subseteq Row
    /\ runner \in [Processes -> Runner]

\* What a runner has come to is applied, up to the script it is at; while it is
\* inside that script it holds the lock, so that nobody else applies the version
\* between its statements and its COMMIT.
InStep(p) ==
    LET r == runner[p]
    IN  /\ r.known \subseteq recorded
        /\ Len(r.read) <= r.listed /\ r.listed <= Len(files)
        /\ InScript(p) => Len(r.read) >= 1
        /\ \A v \in 1..Len(r.read) :
              <<v, r.read[v]>> \in recorded \/ (InScript(p) /\ v = Len(r.read))
        /\ r.pc = "ready" => Len(r.read) = r.listed
        /\ r.pc \in {"body", "commit"} => writer = p
        /\ r.pc = "commit" => Len(r.read) \notin Versions(recorded)

MigrationInv == TablesOK /\ SchemaIsRecorded /\ \A p \in Processes : InStep(p)

-----------------------------------------------------------------------------

LEMMA RunnerFacts ==
  ASSUME TablesOK, NEW p \in Processes
  PROVE  /\ runner[p] \in Runner /\ runner[p].read \in Seq(Scripts)
         /\ runner[p].listed \in Nat /\ runner[p].known \subseteq Row
         /\ Len(runner[p].read) \in Nat
         /\ DOMAIN runner[p].read = 1..Len(runner[p].read)
  BY DEF TablesOK, Runner, Row

LEMMA RestFacts ==
  ASSUME NEW pc \in {"down", "look", "failed"}
  PROVE  AtRest(pc) \in Runner /\ AtRest(pc).pc = pc /\ AtRest(pc).known = {}
         /\ AtRest(pc).listed = 0 /\ AtRest(pc).read = << >>
  BY DEF AtRest, Runner

\* The versions of the schema are the first so many.
LEMMA SchemaFacts ==
  ASSUME TablesOK, SchemaIsRecorded
  PROVE  /\ Len(schema) \in Nat /\ DOMAIN schema = 1..Len(schema)
         /\ \A v : v \in Versions(recorded) <=> v \in 1..Len(schema)
<1>1. Len(schema) \in Nat /\ DOMAIN schema = 1..Len(schema)
  BY DEF TablesOK
<1>2. ASSUME NEW v PROVE v \in Versions(recorded) <=> v \in 1..Len(schema)
  <2>1. v \in Versions(recorded) <=> \E i \in 1..Len(schema) : v = schema[i][1]
    BY <1>1 DEF SchemaIsRecorded, Versions
  <2>2. QED  BY <2>1, <1>1 DEF SchemaIsRecorded
<1>3. QED  BY <1>1, <1>2

\* A runner that does not move stays in step, whatever is recorded in addition,
\* as long as its lock is not taken from it.
LEMMA Bystander ==
  ASSUME TablesOK, NEW q \in Processes, InStep(q),
         runner'[q] = runner[q],
         recorded \subseteq recorded', files' \in Seq(Scripts), Len(files) <= Len(files'),
         writer = q => writer' = q,
         runner[q].pc = "commit" => recorded' = recorded
  PROVE  InStep(q)'
<1>1. runner[q].listed \in Nat /\ Len(files) \in Nat /\ Len(files') \in Nat
      /\ Len(runner[q].read) \in Nat
  BY RunnerFacts DEF TablesOK
<1>2. QED  BY <1>1 DEF InStep, InScript, Versions

\* A runner that is through, or has raised, is in step.
LEMMA RestIsInStep ==
  ASSUME TablesOK, NEW p \in Processes, NEW pc \in {"down", "look", "failed"},
         runner'[p] = AtRest(pc), files' \in Seq(Scripts)
  PROVE  InStep(p)'
<1>1. Len(files') \in Nat /\ Len(<< >>) = 0
  OBVIOUS
<1>2. QED  BY <1>1, RestFacts DEF InStep, InScript

\* A step moves one runner: the others have nothing to lose.
LEMMA OneMoves ==
  ASSUME MigrationInv, NEW p \in Processes, TablesOK', SchemaIsRecorded', InStep(p)',
         \A q \in Processes \ {p} : runner'[q] = runner[q] /\ (writer = q => writer' = q),
         files' = files, recorded \subseteq recorded',
         recorded' = recorded \/ writer = p
  PROVE  MigrationInv'
<1>1. ASSUME NEW q \in Processes, q # p PROVE InStep(q)'
  <2>1. TablesOK /\ InStep(q) /\ runner'[q] = runner[q] /\ (writer = q => writer' = q)
    BY <1>1 DEF MigrationInv
  <2>2. files' \in Seq(Scripts) /\ Len(files) \in Nat
    BY <2>1 DEF TablesOK
  <2>3. runner[q].pc = "commit" => recorded' = recorded
    BY <2>1, <1>1 DEF InStep
  <2>4. QED  BY <2>1, <2>2, <2>3, Bystander
<1>2. QED  BY <1>1 DEF MigrationInv

\* A runner that is through, or has raised, leaves the tables as they are.
LEMMA RestPreserves ==
  ASSUME MigrationInv, NEW p \in Processes, NEW pc \in {"down", "look", "failed"},
         runner' = [runner EXCEPT ![p] = AtRest(pc)],
         UNCHANGED <<files, database>>,
         \A q \in Processes \ {p} : writer = q => writer' = q
  PROVE  MigrationInv'
<1>1. TablesOK'
  BY RestFacts DEF MigrationInv, TablesOK, database
<1>2. SchemaIsRecorded'
  BY DEF MigrationInv, SchemaIsRecorded, database
<1>3. InStep(p)'
  <2>1. runner'[p] = AtRest(pc)
    BY DEF MigrationInv, TablesOK
  <2>2. QED  BY <2>1, <1>1, RestIsInStep DEF MigrationInv, TablesOK
<1>4. \A q \in Processes \ {p} : runner'[q] = runner[q]
  BY DEF MigrationInv, TablesOK
<1>5. QED  BY <1>1, <1>2, <1>3, <1>4, OneMoves DEF database

-----------------------------------------------------------------------------
\* One lemma per step of a runner.

LEMMA LookPreserves ==
  ASSUME MigrationInv, NEW p \in Processes, Look(p)
  PROVE  MigrationInv'
<1>1. runner'[p] = [runner[p] EXCEPT !.pc = "loop", !.known = recorded, !.listed = Len(files)]
      /\ \A q \in Processes \ {p} : runner'[q] = runner[q]
  BY DEF MigrationInv, TablesOK, Look
<1>2. TablesOK /\ InStep(p) /\ Len(files) \in Nat
  BY DEF MigrationInv, TablesOK
<1>3. runner'[p] \in Runner
  BY <1>1, <1>2, RunnerFacts DEF TablesOK, Row, Runner
<1>4. TablesOK'
  BY <1>1, <1>2, <1>3 DEF Look, directory, database, TablesOK
<1>5. SchemaIsRecorded'
  BY DEF MigrationInv, Look, database, SchemaIsRecorded
<1>6. InStep(p)'
  <2>1. runner'[p].pc = "loop" /\ runner'[p].known = recorded /\ runner'[p].listed = Len(files)
        /\ runner'[p].read = runner[p].read
    BY <1>1, <1>2, RunnerFacts DEF Runner
  <2>2. recorded' = recorded /\ files' = files /\ runner[p].pc = "look"
    BY DEF Look, directory, database
  <2>3. QED  BY <1>2, <2>1, <2>2, RunnerFacts DEF InStep, InScript
<1>7. QED  BY <1>1, <1>4, <1>5, <1>6, OneMoves DEF Look, directory, database

LEMMA VisitPreserves ==
  ASSUME MigrationInv, NEW p \in Processes, Visit(p)
  PROVE  MigrationInv'
<1> DEFINE r == runner[p]  v == Len(r.read) + 1  seen == Append(r.read, files[v])
<1>1. TablesOK /\ InStep(p) /\ SchemaIsRecorded /\ Len(files) \in Nat
  BY DEF MigrationInv, TablesOK
<1>2. r.pc = "loop" /\ v \in 1..Len(files) /\ v <= r.listed
  BY <1>1, RunnerFacts DEF Visit, InStep
<1>3. seen \in Seq(Scripts) /\ Len(seen) = v /\ seen[v] = files[v]
      /\ \A u \in 1..Len(r.read) : seen[u] = r.read[u]
  BY <1>1, <1>2, RunnerFacts DEF TablesOK
<1>4. CASE Fail(p)
  BY <1>4, RestPreserves DEF Visit, Fail, directory, database
<1>5. CASE ~Fail(p)
  <2>1. PICK pc \in {"loop", "begin"} :
           /\ runner' = [runner EXCEPT ![p].read = seen, ![p].pc = pc]
           /\ pc = "loop" => <<v, files[v]>> \in r.known
    <3> DEFINE moved == [runner EXCEPT ![p].read = seen]
    <3>1. moved = [runner EXCEPT ![p].read = seen, ![p].pc = "loop"]
          /\ [moved EXCEPT ![p].pc = "begin"] = [runner EXCEPT ![p].read = seen, ![p].pc = "begin"]
      BY <1>1, <1>2, RunnerFacts DEF TablesOK, Runner
    <3>2. \/ runner' = moved /\ <<v, files[v]>> \in r.known
          \/ runner' = [moved EXCEPT ![p].pc = "begin"]
      BY <1>5 DEF Visit
    <3>3. QED  BY <3>1, <3>2
  <2>2. runner'[p] = [r EXCEPT !.read = seen, !.pc = pc]
        /\ \A q \in Processes \ {p} : runner'[q] = runner[q]
    BY <1>1, <2>1 DEF TablesOK
  <2>3. runner'[p] \in Runner
    BY <1>1, <1>3, <2>2, RunnerFacts DEF Runner
  <2>4. TablesOK'
    BY <1>1, <2>1, <2>3 DEF Visit, directory, database, TablesOK
  <2>5. SchemaIsRecorded'
    BY <1>1 DEF Visit, database, SchemaIsRecorded
  <2>6. InStep(p)'
    <3>1. runner'[p].pc = pc /\ runner'[p].read = seen /\ runner'[p].known = r.known
          /\ runner'[p].listed = r.listed
      BY <2>2, <1>1, RunnerFacts DEF Runner
    <3>2. recorded' = recorded /\ files' = files
      BY DEF Visit, directory, database
    <3>3. \A u \in 1..v : <<u, seen[u]>> \in recorded \/ (pc = "begin" /\ u = v)
      <4>1. \A u \in 1..Len(r.read) : <<u, r.read[u]>> \in recorded
        BY <1>1, <1>2 DEF InStep, InScript
      <4>2. pc = "loop" => <<v, seen[v]>> \in recorded
        BY <1>1, <1>3, <2>1 DEF InStep
      <4>3. \A u \in 1..v : u = v \/ u \in 1..Len(r.read)
        BY <1>1, RunnerFacts
      <4>4. QED  BY <1>3, <4>1, <4>2, <4>3
    <3>4. QED  BY <1>1, <1>2, <1>3, <3>1, <3>2, <3>3, RunnerFacts DEF InStep, InScript
  <2>7. QED  BY <2>2, <2>4, <2>5, <2>6, OneMoves DEF Visit, directory, database
<1>6. QED  BY <1>4, <1>5

\* The steps that only move pc, within the loop or within a script.
LEMMA FinishPreserves ==
  ASSUME MigrationInv, NEW p \in Processes, Finish(p)
  PROVE  MigrationInv'
<1>1. runner'[p] = [runner[p] EXCEPT !.pc = "ready"]
      /\ \A q \in Processes \ {p} : runner'[q] = runner[q]
  BY DEF MigrationInv, TablesOK, Finish
<1>2. TablesOK /\ InStep(p) /\ runner'[p] \in Runner
  BY <1>1, RunnerFacts DEF MigrationInv, Runner
<1>3. TablesOK'
  BY <1>2 DEF Finish, directory, database, TablesOK
<1>4. SchemaIsRecorded'
  BY DEF MigrationInv, Finish, database, SchemaIsRecorded
<1>5. InStep(p)'
  BY <1>1, <1>2, RunnerFacts DEF Finish, directory, database, InStep, InScript, Runner
<1>6. QED  BY <1>1, <1>3, <1>4, <1>5, OneMoves DEF Finish, directory, database

LEMMA BeginPreserves ==
  ASSUME MigrationInv, NEW p \in Processes, Begin(p)
  PROVE  MigrationInv'
<1>1. runner'[p] = [runner[p] EXCEPT !.pc = "body"]
      /\ \A q \in Processes \ {p} : runner'[q] = runner[q]
  BY DEF MigrationInv, TablesOK, Begin
<1>2. TablesOK /\ InStep(p) /\ runner'[p] \in Runner
  BY <1>1, RunnerFacts DEF MigrationInv, Runner
<1>3. TablesOK'
  BY <1>2 DEF Begin, directory, database, TablesOK
<1>4. SchemaIsRecorded'
  BY DEF MigrationInv, Begin, database, SchemaIsRecorded
<1>5. InStep(p)'
  BY <1>1, <1>2, RunnerFacts DEF Begin, directory, database, InStep, InScript, Runner
<1>6. \A q \in Processes : writer # q
  BY MigrationsAssumption DEF Begin
<1>7. QED  BY <1>1, <1>3, <1>4, <1>5, <1>6, OneMoves DEF Begin, directory, database

LEMMA BodyPreserves ==
  ASSUME MigrationInv, NEW p \in Processes, Body(p)
  PROVE  MigrationInv'
<1>1. TablesOK /\ InStep(p) /\ writer = p
  BY DEF MigrationInv, InStep, Body
<1>2. CASE Fail(p)
  BY <1>1, <1>2, RestPreserves DEF Body, Fail, directory, database
<1>3. CASE runner' = [runner EXCEPT ![p].pc = "commit"] /\ UNCHANGED writer
           /\ Current(p)[1] \notin Versions(recorded)
  <2>1. runner'[p] = [runner[p] EXCEPT !.pc = "commit"]
        /\ \A q \in Processes \ {p} : runner'[q] = runner[q]
    BY <1>1, <1>3 DEF TablesOK
  <2>2. runner'[p] \in Runner
    BY <1>1, <2>1, RunnerFacts DEF Runner
  <2>3. TablesOK'
    BY <1>1, <1>3, <2>2 DEF Body, directory, database, TablesOK
  <2>4. SchemaIsRecorded'
    BY DEF MigrationInv, Body, database, SchemaIsRecorded
  <2>5. Len(runner[p].read) \notin Versions(recorded)
    BY <1>3 DEF Current
  <2>6. InStep(p)'
    BY <1>1, <1>3, <2>1, <2>5, RunnerFacts
    DEF Body, directory, database, InStep, InScript, Runner, Versions
  <2>7. QED  BY <1>1, <2>1, <2>3, <2>4, <2>6, OneMoves DEF Body, directory, database
<1>4. QED  BY <1>2, <1>3 DEF Body

\* The heart of it: the versions before the script's are recorded and its own is
\* not, so that it is the next one of the schema.
LEMMA CommitPreserves ==
  ASSUME MigrationInv, NEW p \in Processes, Commit(p)
  PROVE  MigrationInv'
<1> DEFINE r == runner[p]  v == Len(r.read)  row == <<v, r.read[v]>>
<1>1. TablesOK /\ SchemaIsRecorded /\ InStep(p) /\ writer = p /\ r.pc = "commit"
  BY DEF MigrationInv, InStep, Commit
<1>2. v \in Nat \ {0} /\ row \in Row /\ Current(p) = row
  BY <1>1, RunnerFacts DEF InStep, InScript, Row, Current
<1>3. v = Len(schema) + 1
  <2>1. v \notin 1..Len(schema)
    BY <1>1, SchemaFacts DEF InStep
  <2>2. ASSUME NEW u \in 1..v, u # v PROVE u \in 1..Len(schema)
    <3>1. <<u, r.read[u]>> \in recorded
      BY <1>1, <2>2 DEF InStep
    <3>2. u \in Versions(recorded)
      BY <3>1 DEF Versions
    <3>3. QED  BY <3>2, <1>1, SchemaFacts
  <2>3. v > 1 => v - 1 \in 1..Len(schema)
    BY <1>2, <2>2
  <2>4. QED  BY <1>1, <1>2, <2>1, <2>3, SchemaFacts
<1>4. runner'[p] = [r EXCEPT !.pc = "loop"] /\ \A q \in Processes \ {p} : runner'[q] = runner[q]
  BY <1>1 DEF TablesOK, Commit
<1>5. runner'[p] \in Runner
  BY <1>1, <1>4, RunnerFacts DEF Runner
<1>6. schema' = Append(schema, row) /\ recorded' = recorded \cup {row} /\ files' = files
  BY <1>2 DEF Commit, directory
<1>7. TablesOK'
  <2>1. schema' \in Seq(Row) /\ recorded' \subseteq Row /\ files' \in Seq(Scripts)
    <3> HIDE DEF row
    <3>1. Append(schema, row) \in Seq(Row)
      BY <1>1, <1>2 DEF TablesOK
    <3>2. QED  BY <1>1, <1>2, <1>6, <3>1 DEF TablesOK
  <2>2. runner' \in [Processes -> Runner]
    BY <1>1, <1>5 DEF Commit, TablesOK
  <2>3. QED  BY <2>1, <2>2 DEF TablesOK
<1>8. SchemaIsRecorded'
  <2>1. schema \in Seq(Row) /\ Len(schema') = Len(schema) + 1 /\ DOMAIN schema' = 1..(Len(schema) + 1)
        /\ schema'[Len(schema) + 1] = row /\ \A i \in 1..Len(schema) : schema'[i] = schema[i]
    BY <1>1, <1>2, <1>6 DEF TablesOK
  <2>2. \A i \in DOMAIN schema' : i \in DOMAIN schema \/ i = v
    BY <1>1, <1>3, <2>1, SchemaFacts
  <2>3. \A i \in DOMAIN schema' : schema'[i][1] = i
    BY <1>1, <1>2, <1>3, <2>1, <2>2, SchemaFacts DEF SchemaIsRecorded
  <2>4. v \in DOMAIN schema' /\ schema'[v] = row
    BY <1>1, <1>3, <2>1, SchemaFacts
  <2>5. \A i \in DOMAIN schema : i \in DOMAIN schema' /\ schema'[i] = schema[i]
    BY <1>1, <2>1, SchemaFacts
  <2>6. recorded' = {schema'[i] : i \in DOMAIN schema'}
    BY <1>1, <1>6, <2>2, <2>4, <2>5 DEF SchemaIsRecorded
  <2>7. QED  BY <2>3, <2>6 DEF SchemaIsRecorded
<1>9. InStep(p)'
  <2>1. runner'[p].pc = "loop" /\ runner'[p].read = r.read /\ runner'[p].known = r.known
        /\ runner'[p].listed = r.listed
    BY <1>1, <1>4, RunnerFacts DEF Runner
  <2>2. \A u \in 1..v : <<u, r.read[u]>> \in recorded'
    BY <1>1, <1>6 DEF InStep
  <2>3. QED  BY <1>1, <1>6, <2>1, <2>2 DEF InStep, InScript
<1>10. QED  BY <1>1, <1>4, <1>6, <1>7, <1>8, <1>9, OneMoves

LEMMA MigratePreserves ==
  ASSUME MigrationInv, NEW p \in Processes, Migrate(p)
  PROVE  MigrationInv'
BY LookPreserves, VisitPreserves, FinishPreserves, BeginPreserves, BodyPreserves,
   CommitPreserves DEF Migrate

\* Starting, failing and leaving put a runner at rest.
LEMMA AroundPreserves ==
  ASSUME MigrationInv, NEW p \in Processes, Start(p) \/ DbError(p) \/ Leave(p)
  PROVE  MigrationInv'
<1>1. CASE Start(p)
  BY <1>1, RestPreserves DEF Start, directory, database
<1>2. CASE DbError(p)
  BY <1>2, RestPreserves DEF DbError, Fail, Unlocked, directory, database
<1>3. CASE Leave(p)
  BY <1>3, RestPreserves DEF Leave, Unlocked, directory, database
<1>4. QED  BY <1>1, <1>2, <1>3

\* A deploy never shortens the directory.
LEMMA DeployPreserves ==
  ASSUME MigrationInv, Deploy
  PROVE  MigrationInv'
<1>1. files' \in Seq(Scripts) /\ Len(files) <= Len(files')
  <2>1. ASSUME NEW script \in Scripts, Ship(script)
        PROVE  files' \in Seq(Scripts) /\ Len(files) <= Len(files')
    BY <2>1 DEF Ship, MigrationInv, TablesOK
  <2>2. ASSUME NEW script \in Scripts, NEW version \in DOMAIN files, Edit(version, script)
        PROVE  files' \in Seq(Scripts) /\ Len(files) <= Len(files')
    BY <2>2 DEF Edit, MigrationInv, TablesOK
  <2>3. QED  BY <2>1, <2>2 DEF Deploy
<1>2. UNCHANGED <<database, writer, runner>>
  BY DEF Deploy, Ship, Edit
<1>3. \A q \in Processes : InStep(q)'
  BY <1>1, <1>2, Bystander DEF MigrationInv, database
<1>4. QED  BY <1>1, <1>2, <1>3 DEF MigrationInv, TablesOK, SchemaIsRecorded, database

-----------------------------------------------------------------------------

LEMMA MigrationInitInv ==
  ASSUME MigrationInit
  PROVE  MigrationInv
<1>1. TablesOK
  BY MigrationsAssumption, RestFacts DEF MigrationInit, TablesOK, Row
<1>2. SchemaIsRecorded
  BY DEF MigrationInit, SchemaIsRecorded
<1>3. ASSUME NEW p \in Processes PROVE InStep(p)
  <2>1. runner[p] = AtRest("down") /\ Len(files) \in Nat /\ Len(<< >>) = 0
    BY MigrationsAssumption DEF MigrationInit
  <2>2. QED  BY <2>1, RestFacts DEF InStep, InScript
<1>4. QED  BY <1>1, <1>2, <1>3 DEF MigrationInv

LEMMA StutterPreserves ==
  ASSUME MigrationInv, UNCHANGED migrationVars
  PROVE  MigrationInv'
BY DEF MigrationInv, TablesOK, SchemaIsRecorded, InStep, InScript, Versions, migrationVars,
       directory, database

\* Of any interleaving of the runners.
LEMMA MigrationInvariance == MigrationSpec => []MigrationInv
<1>1. MigrationInit => MigrationInv
  BY MigrationInitInv
<1>2. MigrationInv /\ [MigrationNext]_migrationVars => MigrationInv'
  BY MigratePreserves, AroundPreserves, DeployPreserves, StutterPreserves DEF MigrationNext
<1>3. QED  BY <1>1, <1>2, PTL DEF MigrationSpec

\* Nobody gets through over files that are not recorded with the text it read.
LEMMA InStepStarts ==
  ASSUME MigrationInv
  PROVE  StartsOnItsSchema
<1>1. ASSUME NEW p \in Processes, runner[p].pc = "ready"
      PROVE  Len(runner[p].read) = runner[p].listed
             /\ \A v \in DOMAIN runner[p].read : <<v, runner[p].read[v]>> \in recorded
  BY <1>1, RunnerFacts DEF MigrationInv, InStep, InScript
<1>2. QED  BY <1>1 DEF StartsOnItsSchema

\* "the schema can never be applied without a corresponding schema_migrations
\* entry": for runners on their own (the daemon's are further below).
THEOREM MigrationsAreRecorded == MigrationSpec => []SchemaIsRecorded
<1>1. MigrationInv => SchemaIsRecorded
  BY DEF MigrationInv
<1>2. QED  BY <1>1, MigrationInvariance, PTL

\* A runner that is through found every file applied as it read it.
THEOREM RunnersStartOnTheirSchema == MigrationSpec => []StartsOnItsSchema
<1>1. MigrationInv => StartsOnItsSchema
  BY InStepStarts
<1>2. QED  BY <1>1, MigrationInvariance, PTL

-----------------------------------------------------------------------------
\* The daemon: the inductive invariant.

Requests == {"begin", "write", "commit", "rollback"}

TaskState == [at: Waiting \cup Ended \cup {"unborn"}, done: Nat, outer: BOOLEAN,
              raising: {"none", "failed", "cancelled"}]

MainState == [pc: {"down", "boot", "supervise", "drain", "close", "exited"},
              step: 1..(Len(BootPlan) + 1),
              raised: {"none", "failure", "cancel"},
              code: {"none", "0", "1", "SIGTERM", "SIGKILL"}]

DaemonTypeOK ==
    /\ main \in MainState /\ opened \subseteq Tasks
    /\ task \in [Tasks -> TaskState] /\ queue \in [Tasks -> Seq(Requests)]
    /\ draft \in [Tasks -> Nat]

\* Requests that end with a ROLLBACK; a statement before it is in the
\* transaction it ends.
Undoing(t) ==
    \/ queue[t] = <<"rollback">>
    \/ queue[t] = <<"write", "rollback">> /\ writer = t

\* What the thread still has to do for a task, the open transaction and the
\* lock, by where the task is. A task that has ended may have left requests.
Unit(t) ==
    LET s == task[t]  q == queue[t]
    IN  \/ s.at \in {"idle", "unborn"} /\ q = << >> /\ draft[t] = 0 /\ writer # t
        \/ /\ s.at = "begin" /\ s.done = 0 /\ s.outer
           /\ q = <<"begin">> /\ draft[t] = 0 /\ writer # t
        \/ /\ s.at = "write" /\ s.done < Statements /\ s.outer
           /\ q = <<"write">> /\ draft[t] = s.done /\ writer = t
        \/ s.at = "commit" /\ q = <<"commit">> /\ draft[t] = Statements /\ writer = t
        \/ s.at = "rollback" /\ s.raising # "none" /\ Undoing(t)
        \/ s.at \in Ended /\ q = << >> /\ draft[t] = 0
        \/ s.at \in Ended /\ q = <<"begin">> /\ draft[t] = 0 /\ writer # t
        \/ s.at \in Ended /\ q = <<"commit">> /\ draft[t] = Statements /\ writer = t
        \/ s.at \in Ended /\ Undoing(t)

UnitsOK == (\A t \in Tasks : Unit(t)) /\ stored = [t \in Tasks |-> 0]

\* The tasks and the connections, by where the main coroutine is.
MainOK ==
    /\ main.pc \in {"down", "exited"} => opened = {}
    /\ main.pc \in {"down", "boot"} => \A t \in Tasks : task[t].at = "unborn"
    /\ main.pc = "boot" =>
          \A j \in 1..(main.step - 1) : BootPlan[j] \in Tasks => BootPlan[j] \in opened
    /\ main.pc \in {"supervise", "drain"} => opened = Tasks
    /\ main.pc \in {"close", "exited"} => \A t \in Tasks : task[t].at \in Ended \cup {"unborn"}

\* Work and locks are on open connections; a script is on that of the scan loop.
OnOpen ==
    /\ \A t \in Tasks : writer = t \/ queue[t] # << >> => t \in opened
    /\ InScript("daemon") => "scan" \in opened
    /\ writer = "daemon" => runner["daemon"].pc \in {"body", "commit"}

DaemonInv == MigrationInv /\ DaemonTypeOK /\ UnitsOK /\ MainOK /\ OnOpen

-----------------------------------------------------------------------------

\* A connection of a task is no process and is no "nobody".
LEMMA Names ==
  /\ "daemon" \in Processes /\ "scan" \in Tasks
  /\ \A t \in Tasks : t # Nobody /\ t \notin Processes
  /\ Nobody \notin Processes /\ "daemon" # Nobody
  /\ Statements \in Nat \ {0}
BY DaemonAssumption, MigrationsAssumption

LEMMA Literals ==
  ASSUME NEW a, NEW b
  PROVE  /\ <<a>> # << >> /\ <<a, b>> # << >> /\ <<a, b>> # <<b>>
         /\ Head(<<a>>) = a /\ Head(<<a, b>>) = a
         /\ Tail(<<a>>) = << >> /\ Tail(<<a, b>>) = <<b>>
OBVIOUS

LEMMA Joins ==
  ASSUME NEW a \in Requests, NEW b \in Requests
  PROVE  /\ << >> \o <<a>> = <<a>> /\ << >> \o << >> = << >> /\ <<a>> \o << >> = <<a>>
         /\ <<a, b>> \o << >> = <<a, b>> /\ <<a>> \o <<b>> = <<a, b>>
         /\ Append(<< >>, a) = <<a>>
         /\ << >> \in Seq(Requests) /\ <<a>> \in Seq(Requests) /\ <<a, b>> \in Seq(Requests)
<1>1. /\ << >> \o <<a>> = <<a>> /\ << >> \o << >> = << >> /\ <<a>> \o << >> = <<a>>
      /\ <<a, b>> \o << >> = <<a, b>>
  OBVIOUS
<1>2. /\ << >> \in Seq(Requests) /\ <<a>> \in Seq(Requests) /\ <<a, b>> \in Seq(Requests)
      /\ Append(<< >>, a) = <<a>>
  OBVIOUS
<1>3. <<a>> \o <<b>> = Append(<<a>>, b) /\ Append(<<a>>, b) = <<a, b>>
  <2>1. <<a>> \o <<b>> = Append(<<a>>, b)
    BY <1>2, AppendIsConcat
  <2>2. Append(<<a>>, b) = <<a, b>>
    <3>1. /\ Append(<<a>>, b) \in Seq(Requests) /\ <<a, b>> \in Seq(Requests)
          /\ Len(Append(<<a>>, b)) = 2 /\ Len(<<a, b>>) = 2
          /\ Append(<<a>>, b)[1] = a /\ Append(<<a>>, b)[2] = b
          /\ <<a, b>>[1] = a /\ <<a, b>>[2] = b
      BY <1>2, AppendProperties
    <3>2. \A i \in 1..2 : i = 1 \/ i = 2
      OBVIOUS
    <3>3. QED  BY <3>1, <3>2, SeqEqual
  <2>3. QED  BY <2>1, <2>2
<1>4. QED  BY <1>1, <1>2, <1>3

LEMMA RestingFacts ==
  ASSUME NEW at \in Waiting \cup Ended \cup {"unborn"}
  PROVE  /\ Resting(at) \in TaskState /\ Resting(at).at = at /\ Resting(at).done = 0
         /\ Resting(at).outer = FALSE /\ Resting(at).raising = "none"
BY DEF Resting, TaskState

\* Its own connection is nobody else's.
LEMMA OwnConnection ==
  ASSUME NEW t \in Tasks
  PROVE  On(Conn(t)) = {t} /\ Conn(t) = t
BY DEF On, Conn

\* An exception leaves a task ended, or idle again.
LEMMA RaisedFacts ==
  ASSUME NEW t \in Tasks, NEW raising \in {"failed", "cancelled"}
  PROVE  /\ Raised(t, raising) \in TaskState
         /\ Raised(t, raising).at \in Ended \cup {"idle"}
         /\ raising = "cancelled" => Raised(t, raising).at \in Ended
         /\ Request(Raised(t, raising)) = << >>
BY RestingFacts DEF Raised, Request, Ended, Waiting

\* A statement of units is unchanged for a task whose unit is and whose hold of
\* the lock is.
LEMMA UnitBystander ==
  ASSUME NEW t \in Tasks, Unit(t), task'[t] = task[t], queue'[t] = queue[t],
         draft'[t] = draft[t], writer' = t <=> writer = t
  PROVE  Unit(t)'
BY DEF Unit, Undoing

\* A thread answers the last request of a task, which goes on with next ...
LEMMA Answered ==
  ASSUME DaemonTypeOK, NEW t \in Tasks, NEW a \in Requests, NEW next \in TaskState,
         queue[t] = <<a>>, task[t].at = a, Through(t, next)
  PROVE  /\ task' \in [Tasks -> TaskState] /\ queue' \in [Tasks -> Seq(Requests)]
         /\ \A u \in Tasks \ {t} : task'[u] = task[u] /\ queue'[u] = queue[u]
         /\ task'[t] = next /\ queue'[t] = Request(next)
<1>1. Request(next) \in Seq(Requests) /\ << >> \o Request(next) = Request(next)
  <2>1. next.at \in Requests \/ Request(next) = << >>
    BY DEF Request, Requests
  <2>2. CASE next.at \in Requests
    BY <2>2, Joins DEF Request, Requests
  <2>3. CASE Request(next) = << >>
    BY <2>3, Joins
  <2>4. QED  BY <2>1, <2>2, <2>3
<1>2. Head(queue[t]) = a /\ Tail(queue[t]) = << >>
  BY Literals
<1>3. task' = [task EXCEPT ![t] = next] /\ queue' = [queue EXCEPT ![t] = Request(next)]
  BY <1>1, <1>2 DEF Through
<1>4. QED  BY <1>1, <1>3 DEF DaemonTypeOK

\* ... or executes one that its task does not wait for.
LEMMA Unanswered ==
  ASSUME DaemonTypeOK, NEW t \in Tasks, NEW next, NEW a \in Requests,
         queue[t] = <<a>>, task[t].at # a, Through(t, next)
  PROVE  /\ task' \in [Tasks -> TaskState] /\ queue' \in [Tasks -> Seq(Requests)]
         /\ \A u \in Tasks \ {t} : task'[u] = task[u] /\ queue'[u] = queue[u]
         /\ task'[t] = task[t] /\ queue'[t] = << >>
<1>1. Head(queue[t]) = a /\ Tail(queue[t]) = << >> /\ << >> \in Seq(Requests)
  BY Literals, Joins
<1>2. task' = task /\ queue' = [queue EXCEPT ![t] = << >>]
  BY <1>1 DEF Through
<1>3. QED  BY <1>1, <1>2 DEF DaemonTypeOK

LEMMA UnansweredWrite ==
  ASSUME DaemonTypeOK, NEW t \in Tasks, NEW next,
         queue[t] = <<"write", "rollback">>, task[t].at # "write", Through(t, next)
  PROVE  /\ task' \in [Tasks -> TaskState] /\ queue' \in [Tasks -> Seq(Requests)]
         /\ \A u \in Tasks \ {t} : task'[u] = task[u] /\ queue'[u] = queue[u]
         /\ task'[t] = task[t] /\ queue'[t] = <<"rollback">>
<1>1. /\ Head(queue[t]) = "write" /\ Tail(queue[t]) = <<"rollback">>
      /\ <<"rollback">> \in Seq(Requests)
  BY Literals, Joins DEF Requests
<1>2. task' = task /\ queue' = [queue EXCEPT ![t] = <<"rollback">>]
  BY <1>1 DEF Through
<1>3. QED  BY <1>1, <1>2 DEF DaemonTypeOK

\* What an exception leaves of a unit whose request was its last one.
LEMMA UnwoundFacts ==
  ASSUME DaemonTypeOK, NEW t \in Tasks, task[t].at \in Waiting, NEW raising \in {"failed", "cancelled"}
  PROVE  LET next == Unwound(t, task[t], raising)
         IN  /\ next \in TaskState
             /\ \/ /\ task[t].at = "write" /\ task[t].outer
                   /\ next.at = "rollback" /\ next.raising = raising /\ Request(next) = <<"rollback">>
                \/ /\ ~(task[t].at = "write" /\ task[t].outer)
                   /\ next.at \in Ended \cup {"idle"} /\ Request(next) = << >>
                   /\ raising = "cancelled" => next.at \in Ended
<1>1. task[t] \in TaskState
  BY DEF DaemonTypeOK
<1> DEFINE next == [task[t] EXCEPT !.at = "rollback", !.raising = raising]
<1>2. CASE task[t].at = "write" /\ task[t].outer
  <2>1. Unwound(t, task[t], raising) = next
    BY <1>2 DEF Unwound
  <2>2. next \in TaskState /\ next.at = "rollback" /\ next.raising = raising
    BY <1>1 DEF TaskState, Waiting
  <2>3. Request(next) = <<"rollback">>
    BY <2>2 DEF Request
  <2>4. QED  BY <1>2, <2>1, <2>2, <2>3
<1>3. CASE ~(task[t].at = "write" /\ task[t].outer)
  BY <1>3, RaisedFacts DEF Unwound
<1>4. QED  BY <1>2, <1>3

\* Where a task is whose thread comes to a request.
LEMMA AtBegin ==
  ASSUME DaemonInv, NEW t \in Tasks, Serves(t, "begin")
  PROVE  /\ queue[t] = <<"begin">> /\ draft[t] = 0 /\ writer # t
         /\ (task[t].at = "begin" /\ task[t].done = 0 /\ task[t].outer) \/ task[t].at \in Ended
BY Literals DEF DaemonInv, UnitsOK, Unit, Undoing, Serves

LEMMA AtWrite ==
  ASSUME DaemonInv, NEW t \in Tasks, Serves(t, "write")
  PROVE  /\ writer = t
         /\ \/ /\ task[t].at = "write" /\ task[t].outer /\ queue[t] = <<"write">>
               /\ draft[t] = task[t].done /\ task[t].done < Statements
            \/ /\ queue[t] = <<"write", "rollback">>
               /\ task[t].at \in Ended \/ (task[t].at = "rollback" /\ task[t].raising # "none")
<1>1. /\ queue[t] # << >> /\ queue[t] # <<"begin">> /\ queue[t] # <<"commit">>
      /\ queue[t] # <<"rollback">>
  BY Literals DEF Serves
<1>2. Unit(t)
  BY DEF DaemonInv, UnitsOK
<1>3. \/ /\ task[t].at = "write" /\ task[t].outer /\ queue[t] = <<"write">>
         /\ draft[t] = task[t].done /\ task[t].done < Statements /\ writer = t
      \/ /\ Undoing(t)
         /\ task[t].at \in Ended \/ (task[t].at = "rollback" /\ task[t].raising # "none")
  BY <1>1, <1>2 DEF Unit
<1>4. QED  BY <1>1, <1>3 DEF Undoing

LEMMA AtCommit ==
  ASSUME DaemonInv, NEW t \in Tasks, Serves(t, "commit")
  PROVE  /\ queue[t] = <<"commit">> /\ draft[t] = Statements /\ writer = t
         /\ task[t].at \in {"commit"} \cup Ended
BY Literals DEF DaemonInv, UnitsOK, Unit, Undoing, Serves

LEMMA AtRollback ==
  ASSUME DaemonInv, NEW t \in Tasks, Serves(t, "rollback")
  PROVE  /\ queue[t] = <<"rollback">>
         /\ task[t].at \in Ended \/ (task[t].at = "rollback" /\ task[t].raising # "none")
<1>1. /\ queue[t] # << >> /\ queue[t] # <<"begin">> /\ queue[t] # <<"commit">>
      /\ queue[t] # <<"write">> /\ queue[t] # <<"write", "rollback">>
  BY Literals DEF Serves
<1>2. Unit(t)
  BY DEF DaemonInv, UnitsOK
<1>3. Undoing(t) /\ (task[t].at \in Ended \/ (task[t].at = "rollback" /\ task[t].raising # "none"))
  BY <1>1, <1>2 DEF Unit
<1>4. QED  BY <1>1, <1>3 DEF Undoing

-----------------------------------------------------------------------------
\* One lemma per step of a thread. What it does to its own task:

OwnStep(t) ==
    /\ Unit(t)' /\ stored' = stored
    /\ task' \in [Tasks -> TaskState] /\ queue' \in [Tasks -> Seq(Requests)]
    /\ draft' \in [Tasks -> Nat]
    /\ \A u \in Tasks \ {t} :
          task'[u] = task[u] /\ queue'[u] = queue[u] /\ draft'[u] = draft[u]
    /\ \A u \in (Tasks \cup Processes) \ {t} : writer' = u <=> writer = u
    /\ task[t].at \in Ended \cup {"unborn"} => task'[t].at = task[t].at
    /\ writer' = t \/ queue'[t] # << >> => task[t].at = "idle" \/ queue[t] # << >>

LEMMA BeginsStep ==
  ASSUME DaemonInv, NEW t \in Tasks, ThreadBegins(t)
  PROVE  OwnStep(t)
<1>1. /\ DaemonTypeOK /\ task[t] \in TaskState /\ queue[t] = <<"begin">> /\ draft[t] = 0
      /\ (task[t].at = "begin" /\ task[t].done = 0 /\ task[t].outer) \/ task[t].at \in Ended
      /\ writer = Nobody /\ writer' = t
  BY AtBegin, OwnConnection DEF DaemonInv, DaemonTypeOK, ThreadBegins
<1>2. draft' = draft /\ stored' = stored /\ draft' \in [Tasks -> Nat]
  BY <1>1 DEF ThreadBegins, DaemonTypeOK
<1>3. \A u \in (Tasks \cup Processes) \ {t} : writer' = u <=> writer = u
  BY <1>1, Names
<1>4. Through(t, Onward(t, task[t])) /\ "begin" \in Requests /\ queue[t] # << >>
  BY <1>1, Literals DEF ThreadBegins, Requests
<1>5. CASE task[t].at = "begin"
  <2> DEFINE next == [task[t] EXCEPT !.at = "write"]
  <2>1. Onward(t, task[t]) = next /\ task[t].done = 0 /\ task[t].outer
    BY <1>1, <1>5 DEF Onward, Ended
  <2>2. next \in TaskState /\ next.at = "write" /\ next.done = 0 /\ next.outer
    BY <1>1, <2>1 DEF TaskState, Waiting
  <2>3. Request(next) = <<"write">>
    BY <2>2 DEF Request
  <2>4. /\ task' \in [Tasks -> TaskState] /\ queue' \in [Tasks -> Seq(Requests)]
        /\ \A u \in Tasks \ {t} : task'[u] = task[u] /\ queue'[u] = queue[u]
        /\ task'[t] = next /\ queue'[t] = <<"write">>
    BY <1>1, <1>4, <1>5, <2>1, <2>2, <2>3, Answered
  <2>5. Unit(t)'
    BY <1>1, <1>2, <2>2, <2>4, Names DEF Unit
  <2>6. QED  BY <1>2, <1>3, <1>4, <1>5, <2>4, <2>5 DEF OwnStep, Ended
<1>6. CASE task[t].at \in Ended
  <2>1. /\ task' \in [Tasks -> TaskState] /\ queue' \in [Tasks -> Seq(Requests)]
        /\ \A u \in Tasks \ {t} : task'[u] = task[u] /\ queue'[u] = queue[u]
        /\ task'[t] = task[t] /\ queue'[t] = << >>
    BY <1>1, <1>4, <1>6, Unanswered DEF Ended
  <2>2. Unit(t)'
    BY <1>1, <1>2, <1>6, <2>1 DEF Unit
  <2>3. QED  BY <1>2, <1>3, <1>4, <2>1, <2>2 DEF OwnStep
<1>7. QED  BY <1>1, <1>5, <1>6

\* BEGIN fails: the unit has not begun.
LEMMA BeginFailsStep ==
  ASSUME DaemonInv, NEW t \in Tasks, ThreadTimesOut(t) \/ ThreadGivesUp(t)
  PROVE  OwnStep(t)
<1>1. /\ DaemonTypeOK /\ task[t] \in TaskState /\ queue[t] = <<"begin">> /\ draft[t] = 0
      /\ task[t].at = "begin" \/ task[t].at \in Ended
      /\ writer # t /\ writer' = writer
  BY AtBegin DEF DaemonInv, DaemonTypeOK, ThreadTimesOut, ThreadGivesUp, migrationVars
<1>2. draft' = draft /\ stored' = stored /\ draft' \in [Tasks -> Nat]
  BY <1>1 DEF ThreadTimesOut, ThreadGivesUp, DaemonTypeOK
<1>4. Through(t, Unwound(t, task[t], "failed")) /\ "begin" \in Requests /\ queue[t] # << >>
  BY <1>1, Literals DEF ThreadTimesOut, ThreadGivesUp, Requests
<1>5. CASE task[t].at = "begin"
  <2> DEFINE next == Unwound(t, task[t], "failed")
  <2>1. next \in TaskState /\ next.at \in Ended \cup {"idle"} /\ Request(next) = << >>
    BY <1>1, <1>5, UnwoundFacts DEF Waiting
  <2>2. /\ task' \in [Tasks -> TaskState] /\ queue' \in [Tasks -> Seq(Requests)]
        /\ \A u \in Tasks \ {t} : task'[u] = task[u] /\ queue'[u] = queue[u]
        /\ task'[t] = next /\ queue'[t] = << >>
    BY <1>1, <1>4, <1>5, <2>1, Answered
  <2>3. Unit(t)'
    BY <1>1, <1>2, <2>1, <2>2 DEF Unit
  <2>4. QED  BY <1>1, <1>2, <1>4, <1>5, <2>2, <2>3 DEF OwnStep, Ended
<1>6. CASE task[t].at \in Ended
  <2>1. /\ task' \in [Tasks -> TaskState] /\ queue' \in [Tasks -> Seq(Requests)]
        /\ \A u \in Tasks \ {t} : task'[u] = task[u] /\ queue'[u] = queue[u]
        /\ task'[t] = task[t] /\ queue'[t] = << >>
    BY <1>1, <1>4, <1>6, Unanswered DEF Ended
  <2>2. Unit(t)'
    BY <1>1, <1>2, <1>6, <2>1 DEF Unit
  <2>3. QED  BY <1>1, <1>2, <1>4, <2>1, <2>2 DEF OwnStep
<1>7. QED  BY <1>1, <1>5, <1>6

\* A statement goes through.
LEMMA WritesStep ==
  ASSUME DaemonInv, NEW t \in Tasks, ThreadWrites(t)
  PROVE  OwnStep(t)
<1>1. DaemonTypeOK /\ task[t] \in TaskState /\ draft[t] \in Nat /\ writer = t /\ writer' = writer
  BY AtWrite DEF DaemonInv, DaemonTypeOK, ThreadWrites, migrationVars
<1>2. /\ draft' \in [Tasks -> Nat] /\ draft'[t] = draft[t] + 1 /\ stored' = stored
      /\ \A u \in Tasks \ {t} : draft'[u] = draft[u]
  BY <1>1 DEF ThreadWrites, DaemonTypeOK
<1>3. Through(t, Onward(t, task[t])) /\ "write" \in Requests /\ queue[t] # << >>
  BY DEF ThreadWrites, Requests, Serves
<1>4. CASE /\ task[t].at = "write" /\ task[t].outer /\ queue[t] = <<"write">>
           /\ draft[t] = task[t].done /\ task[t].done < Statements
  <2>1. CASE task[t].done + 1 < Statements
    <3> DEFINE next == [task[t] EXCEPT !.done = @ + 1]
    <3>1. Onward(t, task[t]) = next
      BY <1>4, <2>1 DEF Onward
    <3>2. /\ next \in TaskState /\ next.at = "write" /\ next.done = task[t].done + 1
          /\ next.outer
      BY <1>1, <1>4 DEF TaskState
    <3>3. Request(next) = <<"write">>
      BY <3>2 DEF Request
    <3>4. /\ task' \in [Tasks -> TaskState] /\ queue' \in [Tasks -> Seq(Requests)]
          /\ \A u \in Tasks \ {t} : task'[u] = task[u] /\ queue'[u] = queue[u]
          /\ task'[t] = next /\ queue'[t] = <<"write">>
      BY <1>1, <1>3, <1>4, <3>1, <3>2, <3>3, Answered
    <3>5. Unit(t)'
      BY <1>1, <1>2, <1>4, <2>1, <3>2, <3>4 DEF Unit
    <3>6. QED  BY <1>1, <1>2, <1>3, <1>4, <3>4, <3>5 DEF OwnStep, Ended
  <2>2. CASE ~(task[t].done + 1 < Statements)
    <3> DEFINE next == [task[t] EXCEPT !.at = "commit"]
    <3>1. Onward(t, task[t]) = next
      BY <1>4, <2>2 DEF Onward
    <3>2. next \in TaskState /\ next.at = "commit"
      BY <1>1 DEF TaskState, Waiting
    <3>3. Request(next) = <<"commit">>
      BY <3>2 DEF Request
    <3>4. /\ task' \in [Tasks -> TaskState] /\ queue' \in [Tasks -> Seq(Requests)]
          /\ \A u \in Tasks \ {t} : task'[u] = task[u] /\ queue'[u] = queue[u]
          /\ task'[t] = next /\ queue'[t] = <<"commit">>
      BY <1>1, <1>3, <1>4, <3>1, <3>2, <3>3, Answered
    <3>5. draft'[t] = Statements
      BY <1>1, <1>2, <1>4, <2>2, Names DEF TaskState
    <3>6. Unit(t)'
      BY <1>1, <3>2, <3>4, <3>5 DEF Unit
    <3>7. QED  BY <1>1, <1>2, <1>3, <1>4, <3>4, <3>6 DEF OwnStep, Ended
  <2>3. QED  BY <2>1, <2>2
<1>5. CASE /\ queue[t] = <<"write", "rollback">>
           /\ task[t].at \in Ended \/ (task[t].at = "rollback" /\ task[t].raising # "none")
  <2>1. /\ task' \in [Tasks -> TaskState] /\ queue' \in [Tasks -> Seq(Requests)]
        /\ \A u \in Tasks \ {t} : task'[u] = task[u] /\ queue'[u] = queue[u]
        /\ task'[t] = task[t] /\ queue'[t] = <<"rollback">>
    BY <1>1, <1>3, <1>5, UnansweredWrite DEF Ended
  <2>2. Unit(t)'
    BY <1>5, <2>1 DEF Unit, Undoing
  <2>3. QED  BY <1>1, <1>2, <1>3, <2>1, <2>2 DEF OwnStep
<1>6. QED  BY <1>4, <1>5, AtWrite DEF ThreadWrites

\* A statement fails, and perhaps takes the transaction with it.
LEMMA WriteFailsStep ==
  ASSUME DaemonInv, NEW t \in Tasks, WriteFails(t) \/ WriteFailsForGood(t)
  PROVE  OwnStep(t)
<1>1. DaemonTypeOK /\ task[t] \in TaskState /\ writer = t /\ Serves(t, "write")
  BY AtWrite DEF DaemonInv, DaemonTypeOK, WriteFails, WriteFailsForGood
<1>2. /\ draft' \in [Tasks -> Nat] /\ stored' = stored
      /\ \A u \in Tasks \ {t} : draft'[u] = draft[u]
      /\ writer' \in {t, Nobody}
  BY <1>1, OwnConnection
  DEF WriteFails, WriteFailsForGood, DaemonTypeOK, Drop, Unlocked, migrationVars
<1>3. \A u \in (Tasks \cup Processes) \ {t} : writer' = u <=> writer = u
  BY <1>1, <1>2, Names
<1>4. Through(t, Unwound(t, task[t], "failed")) /\ "write" \in Requests /\ queue[t] # << >>
  BY DEF WriteFails, WriteFailsForGood, Requests, Serves
<1>5. CASE task[t].at = "write" /\ task[t].outer /\ queue[t] = <<"write">>
  <2> DEFINE next == Unwound(t, task[t], "failed")
  <2>1. /\ next \in TaskState /\ next.at = "rollback" /\ next.raising # "none"
        /\ Request(next) = <<"rollback">>
    BY <1>1, <1>5, UnwoundFacts DEF Waiting
  <2>2. /\ task' \in [Tasks -> TaskState] /\ queue' \in [Tasks -> Seq(Requests)]
        /\ \A u \in Tasks \ {t} : task'[u] = task[u] /\ queue'[u] = queue[u]
        /\ task'[t] = next /\ queue'[t] = <<"rollback">>
    BY <1>1, <1>4, <1>5, <2>1, Answered
  <2>3. Unit(t)'
    BY <2>1, <2>2 DEF Unit, Undoing
  <2>4. QED  BY <1>2, <1>3, <1>4, <1>5, <2>2, <2>3 DEF OwnStep, Ended
<1>6. CASE /\ queue[t] = <<"write", "rollback">>
           /\ task[t].at \in Ended \/ (task[t].at = "rollback" /\ task[t].raising # "none")
  <2>1. /\ task' \in [Tasks -> TaskState] /\ queue' \in [Tasks -> Seq(Requests)]
        /\ \A u \in Tasks \ {t} : task'[u] = task[u] /\ queue'[u] = queue[u]
        /\ task'[t] = task[t] /\ queue'[t] = <<"rollback">>
    BY <1>1, <1>4, <1>6, UnansweredWrite DEF Ended
  <2>2. Unit(t)'
    BY <1>6, <2>1 DEF Unit, Undoing
  <2>3. QED  BY <1>2, <1>3, <1>4, <2>1, <2>2 DEF OwnStep
<1>7. QED  BY <1>1, <1>5, <1>6, AtWrite

\* A COMMIT commits a whole unit: no other statements are in the transaction.
LEMMA CommitsStep ==
  ASSUME DaemonInv, NEW t \in Tasks, ThreadCommits(t)
  PROVE  OwnStep(t)
<1>1. /\ DaemonTypeOK /\ task[t] \in TaskState /\ queue[t] = <<"commit">>
      /\ draft[t] = Statements /\ writer = t /\ task[t].at \in {"commit"} \cup Ended
  BY AtCommit DEF DaemonInv, DaemonTypeOK, ThreadCommits
<1>2. /\ draft' \in [Tasks -> Nat] /\ draft'[t] = 0 /\ writer' = Nobody
      /\ \A u \in Tasks \ {t} : draft'[u] = draft[u]
  BY <1>1, OwnConnection DEF ThreadCommits, DaemonTypeOK, Drop, Unlocked
<1>3. \A u \in (Tasks \cup Processes) \ {t} : writer' = u <=> writer = u
  BY <1>1, <1>2, Names
<1>4. stored' = stored
  <2>1. stored = [u \in Tasks |-> 0] /\ Statements % Statements = 0 /\ 0 + Statements = Statements
    BY Names DEF DaemonInv, UnitsOK
  <2>2. stored' = [u \in Tasks |-> IF u \in {t} THEN (stored[u] + draft[u]) % Statements ELSE stored[u]]
    BY OwnConnection DEF ThreadCommits
  <2>3. ASSUME NEW u \in Tasks PROVE stored'[u] = 0
    BY <1>1, <2>1, <2>2
  <2>4. QED  BY <2>1, <2>2, <2>3
<1>5. Through(t, Onward(t, task[t])) /\ "commit" \in Requests /\ queue[t] # << >>
  BY DEF ThreadCommits, Requests, Serves
<1>6. CASE task[t].at = "commit"
  <2>1. Onward(t, task[t]) = Resting("idle")
    BY <1>6 DEF Onward
  <2>2. Resting("idle") \in TaskState /\ Resting("idle").at = "idle"
    BY RestingFacts DEF Waiting
  <2>3. Request(Resting("idle")) = << >>
    BY <2>2 DEF Request
  <2>4. /\ task' \in [Tasks -> TaskState] /\ queue' \in [Tasks -> Seq(Requests)]
        /\ \A u \in Tasks \ {t} : task'[u] = task[u] /\ queue'[u] = queue[u]
        /\ task'[t] = Resting("idle") /\ queue'[t] = << >>
    BY <1>1, <1>5, <1>6, <2>1, <2>2, <2>3, Answered
  <2>5. Unit(t)'
    BY <1>2, <2>2, <2>4, Names DEF Unit
  <2>6. QED  BY <1>2, <1>3, <1>4, <1>5, <1>6, <2>4, <2>5 DEF OwnStep, Ended
<1>7. CASE task[t].at \in Ended
  <2>1. /\ task' \in [Tasks -> TaskState] /\ queue' \in [Tasks -> Seq(Requests)]
        /\ \A u \in Tasks \ {t} : task'[u] = task[u] /\ queue'[u] = queue[u]
        /\ task'[t] = task[t] /\ queue'[t] = << >>
    BY <1>1, <1>5, <1>7, Unanswered DEF Ended
  <2>2. Unit(t)'
    BY <1>2, <1>7, <2>1 DEF Unit
  <2>3. QED  BY <1>2, <1>3, <1>4, <1>5, <2>1, <2>2 DEF OwnStep
<1>8. QED  BY <1>1, <1>6, <1>7

LEMMA CommitFailsStep ==
  ASSUME DaemonInv, NEW t \in Tasks, CommitFails(t)
  PROVE  OwnStep(t)
<1>1. /\ DaemonTypeOK /\ task[t] \in TaskState /\ queue[t] = <<"commit">>
      /\ writer = t /\ task[t].at \in {"commit"} \cup Ended
  BY AtCommit DEF DaemonInv, DaemonTypeOK, CommitFails
<1>2. /\ draft' \in [Tasks -> Nat] /\ draft'[t] = 0 /\ writer' = Nobody /\ stored' = stored
      /\ \A u \in Tasks \ {t} : draft'[u] = draft[u]
  BY <1>1, OwnConnection DEF CommitFails, DaemonTypeOK, Drop, Unlocked
<1>3. \A u \in (Tasks \cup Processes) \ {t} : writer' = u <=> writer = u
  BY <1>1, <1>2, Names
<1>4. Through(t, Unwound(t, task[t], "failed")) /\ "commit" \in Requests /\ queue[t] # << >>
  BY DEF CommitFails, Requests, Serves
<1>5. CASE task[t].at = "commit"
  <2> DEFINE next == Unwound(t, task[t], "failed")
  <2>1. next \in TaskState /\ next.at \in Ended \cup {"idle"} /\ Request(next) = << >>
    BY <1>1, <1>5, UnwoundFacts DEF Waiting
  <2>2. /\ task' \in [Tasks -> TaskState] /\ queue' \in [Tasks -> Seq(Requests)]
        /\ \A u \in Tasks \ {t} : task'[u] = task[u] /\ queue'[u] = queue[u]
        /\ task'[t] = next /\ queue'[t] = << >>
    BY <1>1, <1>4, <1>5, <2>1, Answered
  <2>3. Unit(t)'
    BY <1>2, <2>1, <2>2, Names DEF Unit
  <2>4. QED  BY <1>2, <1>3, <1>4, <1>5, <2>2, <2>3 DEF OwnStep, Ended
<1>6. CASE task[t].at \in Ended
  <2>1. /\ task' \in [Tasks -> TaskState] /\ queue' \in [Tasks -> Seq(Requests)]
        /\ \A u \in Tasks \ {t} : task'[u] = task[u] /\ queue'[u] = queue[u]
        /\ task'[t] = task[t] /\ queue'[t] = << >>
    BY <1>1, <1>4, <1>6, Unanswered DEF Ended
  <2>2. Unit(t)'
    BY <1>2, <1>6, <2>1 DEF Unit
  <2>3. QED  BY <1>2, <1>3, <1>4, <2>1, <2>2 DEF OwnStep
<1>7. QED  BY <1>1, <1>5, <1>6

\* A ROLLBACK ends the transaction, or fails over none.
LEMMA RollsBackStep ==
  ASSUME DaemonInv, NEW t \in Tasks, ThreadRollsBack(t)
  PROVE  OwnStep(t)
<1> DEFINE next == IF writer = Conn(t) THEN Onward(t, task[t]) ELSE Raised(t, "failed")
<1>1. /\ DaemonTypeOK /\ task[t] \in TaskState /\ queue[t] = <<"rollback">>
      /\ task[t].at \in Ended \/ (task[t].at = "rollback" /\ task[t].raising # "none")
  BY AtRollback DEF DaemonInv, DaemonTypeOK, ThreadRollsBack
<1>2. /\ draft' \in [Tasks -> Nat] /\ draft'[t] = 0 /\ stored' = stored
      /\ \A u \in Tasks \ {t} : draft'[u] = draft[u]
      /\ writer' = IF writer = t THEN Nobody ELSE writer
  BY <1>1, OwnConnection DEF ThreadRollsBack, DaemonTypeOK, Drop, Unlocked
<1>3. writer' # t /\ \A u \in (Tasks \cup Processes) \ {t} : writer' = u <=> writer = u
  BY <1>2, Names
<1>4. Through(t, next) /\ "rollback" \in Requests /\ queue[t] # << >>
  BY DEF ThreadRollsBack, Requests, Serves
<1>5. CASE task[t].at = "rollback" /\ task[t].raising # "none"
  <2>1. task[t].raising \in {"failed", "cancelled"}
    BY <1>1, <1>5 DEF TaskState
  <2>2. next = Raised(t, task[t].raising) \/ next = Raised(t, "failed")
    BY <1>5 DEF Onward
  <2>3. next \in TaskState /\ next.at \in Ended \cup {"idle"} /\ Request(next) = << >>
    BY <2>1, <2>2, RaisedFacts
  <2>4. /\ task' \in [Tasks -> TaskState] /\ queue' \in [Tasks -> Seq(Requests)]
        /\ \A u \in Tasks \ {t} : task'[u] = task[u] /\ queue'[u] = queue[u]
        /\ task'[t] = next /\ queue'[t] = << >>
    <3> HIDE DEF next
    <3>1. QED  BY <1>1, <1>4, <1>5, <2>3, Answered
  <2>5. Unit(t)'
    BY <1>2, <1>3, <2>3, <2>4 DEF Unit
  <2>6. QED  BY <1>2, <1>3, <1>4, <1>5, <2>4, <2>5 DEF OwnStep, Ended
<1>6. CASE task[t].at \in Ended
  <2>1. /\ task' \in [Tasks -> TaskState] /\ queue' \in [Tasks -> Seq(Requests)]
        /\ \A u \in Tasks \ {t} : task'[u] = task[u] /\ queue'[u] = queue[u]
        /\ task'[t] = task[t] /\ queue'[t] = << >>
    <3> HIDE DEF next
    <3>1. QED  BY <1>1, <1>4, <1>6, Unanswered DEF Ended
  <2>2. Unit(t)'
    BY <1>2, <1>6, <2>1 DEF Unit
  <2>3. QED  BY <1>2, <1>3, <1>4, <2>1, <2>2 DEF OwnStep
<1>7. QED  BY <1>1, <1>5, <1>6

\* The event loop's share: a task enters a unit, or ends between two.
LEMMA EnterStep ==
  ASSUME DaemonInv, NEW t \in Tasks, Enter(t)
  PROVE  OwnStep(t)
<1> DEFINE next == [Resting("begin") EXCEPT !.outer = TRUE]
<1>1. /\ DaemonTypeOK /\ Unit(t) /\ task[t].at = "idle" /\ queue[t] = << >> /\ draft[t] = 0
      /\ writer # t /\ Conn(t) = t
  BY Literals, OwnConnection DEF DaemonInv, UnitsOK, Unit, Enter, Ended
<1>2. next \in TaskState /\ next.at = "begin" /\ next.done = 0 /\ next.outer
  BY DEF Resting, TaskState, Waiting
<1>3. Append(<< >>, "begin") = <<"begin">> /\ <<"begin">> \in Seq(Requests)
  BY Joins DEF Requests
<1>4. /\ task' = [task EXCEPT ![t] = next] /\ queue' = [queue EXCEPT ![t] = <<"begin">>]
  BY <1>1, <1>2, <1>3 DEF Enter, DaemonTypeOK
<1>5. draft' = draft /\ stored' = stored /\ writer' = writer
  BY DEF Enter, migrationVars
<1>6. /\ task'[t] = next /\ queue'[t] = <<"begin">>
      /\ task' \in [Tasks -> TaskState] /\ queue' \in [Tasks -> Seq(Requests)]
      /\ \A u \in Tasks \ {t} : task'[u] = task[u] /\ queue'[u] = queue[u]
  BY <1>1, <1>2, <1>3, <1>4 DEF DaemonTypeOK
<1>7. Unit(t)'
  BY <1>1, <1>2, <1>5, <1>6 DEF Unit
<1>8. QED
  BY <1>1, <1>5, <1>6, <1>7 DEF OwnStep, DaemonTypeOK, Ended

LEMMA EndsStep ==
  ASSUME DaemonInv, NEW t \in Tasks, NEW at \in Ended, task[t].at = "idle",
         task' = [task EXCEPT ![t] = Resting(at)], UNCHANGED <<writer, queue, draft, stored>>
  PROVE  OwnStep(t)
<1>1. DaemonTypeOK /\ Unit(t)
  BY DEF DaemonInv, UnitsOK
<1>2. queue[t] = << >> /\ draft[t] = 0 /\ writer # t
  BY <1>1, Literals DEF Unit, Ended
<1>3. Resting(at) \in TaskState /\ Resting(at).at = at
  BY RestingFacts
<1>4. task'[t] = Resting(at) /\ task' \in [Tasks -> TaskState]
      /\ \A u \in Tasks \ {t} : task'[u] = task[u]
  BY <1>1, <1>3 DEF DaemonTypeOK
<1>5. Unit(t)'
  BY <1>2, <1>3, <1>4 DEF Unit
<1>6. QED  BY <1>1, <1>2, <1>4, <1>5 DEF OwnStep, DaemonTypeOK, Ended

\* A step of one task or its thread preserves the invariant.
LEMMA OwnStepPreserves ==
  ASSUME DaemonInv, NEW t \in Tasks, OwnStep(t),
         UNCHANGED <<directory, database, runner, main, opened>>
  PROVE  DaemonInv'
<1>1. \A q \in Processes : writer' = q <=> writer = q
  BY Names DEF OwnStep
<1>2. MigrationInv'
  <2>1. \A q \in Processes : InStep(q)'
    BY <1>1, Bystander DEF DaemonInv, MigrationInv, TablesOK, directory, database
  <2>2. QED
    BY <2>1 DEF DaemonInv, MigrationInv, TablesOK, SchemaIsRecorded, directory, database
<1>3. DaemonTypeOK'
  BY DEF DaemonInv, DaemonTypeOK, OwnStep
<1>4. UnitsOK'
  <2>1. ASSUME NEW u \in Tasks, u # t PROVE Unit(u)'
    BY <2>1, UnitBystander DEF DaemonInv, UnitsOK, OwnStep
  <2>2. QED  BY <2>1 DEF DaemonInv, UnitsOK, OwnStep
<1>5. MainOK'
  <2>1. \A u \in Tasks : task[u].at \in Ended \cup {"unborn"} => task'[u].at = task[u].at
    BY DEF OwnStep
  <2>2. QED  BY <2>1 DEF DaemonInv, MainOK
<1>6. OnOpen'
  <2>1. task[t].at = "idle" => t \in opened
    BY DEF DaemonInv, MainOK, DaemonTypeOK, MainState, Ended
  <2>2. \A u \in Tasks : writer' = u \/ queue'[u] # << >> => u \in opened
    BY <2>1 DEF DaemonInv, OnOpen, OwnStep
  <2>3. InScript("daemon")' <=> InScript("daemon")
    BY DEF InScript
  <2>4. QED  BY <1>1, <2>2, <2>3, Names DEF DaemonInv, OnOpen
<1>7. QED  BY <1>2, <1>3, <1>4, <1>5, <1>6 DEF DaemonInv

LEMMA TasksPreserve ==
  ASSUME DaemonInv,
         (\E t \in Tasks : Enter(t) \/ Thread(t) \/ ThreadFails(t) \/ TaskFails(t)) \/ ScanReturns
  PROVE  DaemonInv'
<1>1. ASSUME NEW t \in Tasks, Enter(t) PROVE DaemonInv'
  BY <1>1, EnterStep, OwnStepPreserves DEF Enter, migrationVars
<1>2. ASSUME NEW t \in Tasks, Thread(t) PROVE DaemonInv'
  <2>1. OwnStep(t)
    BY <1>2, BeginsStep, BeginFailsStep, WritesStep, CommitsStep, RollsBackStep DEF Thread
  <2>2. UNCHANGED <<directory, database, runner, main, opened>>
    BY <1>2 DEF Thread, ThreadBegins, ThreadGivesUp, ThreadWrites, ThreadCommits,
                ThreadRollsBack, migrationVars
  <2>3. QED  BY <2>1, <2>2, OwnStepPreserves
<1>3. ASSUME NEW t \in Tasks, ThreadFails(t) PROVE DaemonInv'
  <2>1. OwnStep(t)
    BY <1>3, BeginFailsStep, WriteFailsStep, CommitFailsStep DEF ThreadFails
  <2>2. UNCHANGED <<directory, database, runner, main, opened>>
    BY <1>3 DEF ThreadFails, ThreadTimesOut, WriteFails, WriteFailsForGood, CommitFails,
                migrationVars
  <2>3. QED  BY <2>1, <2>2, OwnStepPreserves
<1>4. ASSUME NEW t \in Tasks, TaskFails(t) PROVE DaemonInv'
  BY <1>4, EndsStep, OwnStepPreserves DEF TaskFails, migrationVars, Ended
<1>5. ASSUME ScanReturns PROVE DaemonInv'
  BY <1>5, EndsStep, OwnStepPreserves, Names DEF ScanReturns, migrationVars, Ended
<1>6. QED  BY <1>1, <1>2, <1>3, <1>4, <1>5

-----------------------------------------------------------------------------
\* Cancelling takes back no request.
LEMMA CancelPreserves ==
  ASSUME DaemonInv, CancelAll, UNCHANGED <<writer, draft, stored>>
  PROVE  /\ UnitsOK' /\ task' \in [Tasks -> TaskState] /\ queue' \in [Tasks -> Seq(Requests)]
         /\ \A t \in Tasks : task'[t].at # "unborn" \/ task[t].at = "unborn"
<1>1. ASSUME NEW t \in Tasks
      PROVE  /\ Unit(t)' /\ task'[t] \in TaskState /\ queue'[t] \in Seq(Requests)
             /\ task'[t].at # "unborn" \/ task[t].at = "unborn"
  <2> DEFINE s == task[t]  next == Unwound(t, s, "cancelled")
  <2>1. /\ DaemonTypeOK /\ Unit(t) /\ s \in TaskState /\ queue[t] \in Seq(Requests)
        /\ queue[t] \o << >> = queue[t]
    BY ConcatEmptySeq DEF DaemonInv, UnitsOK, DaemonTypeOK
  <2>2. task'[t] = IF s.at \in Waiting THEN next ELSE s
    BY DEF CancelAll, Cancelled
  <2>3. queue'[t] = queue[t] \o (IF task'[t] = s THEN << >> ELSE Request(task'[t]))
    BY DEF CancelAll
  <2>4. CASE s.at = "write"
    <3>1. s.outer /\ queue[t] = <<"write">> /\ writer = t
      BY <2>1, <2>4 DEF Unit, Ended
    <3>2. task'[t] = next /\ next \in TaskState /\ next.at = "rollback" /\ next.raising # "none"
          /\ Request(next) = <<"rollback">>
      BY <2>1, <2>2, <2>4, <3>1, UnwoundFacts DEF Waiting
    <3>3. queue'[t] = <<"write", "rollback">> /\ queue'[t] \in Seq(Requests)
      BY <2>3, <2>4, <3>1, <3>2, Joins DEF Requests
    <3>4. QED  BY <3>1, <3>2, <3>3 DEF Unit, Undoing
  <2>5. CASE s.at \in Waiting \ {"write"}
    <3>1. task'[t] = next /\ next \in TaskState /\ next.at \in Ended /\ Request(next) = << >>
      BY <2>1, <2>2, <2>5, UnwoundFacts
    <3>2. queue'[t] = queue[t]
      BY <2>1, <2>3, <3>1
    <3>3. Unit(t)'
      BY <2>1, <2>5, <3>1, <3>2 DEF Unit, Undoing, Waiting, Ended
    <3>4. QED  BY <2>1, <3>1, <3>2, <3>3 DEF Ended
  <2>6. CASE s.at \notin Waiting
    <3>1. task'[t] = s /\ queue'[t] = queue[t]
      BY <2>1, <2>2, <2>3, <2>6
    <3>2. QED  BY <2>1, <3>1, UnitBystander
  <2>7. QED  BY <2>4, <2>5, <2>6
<1>2. task' \in [Tasks -> TaskState] /\ queue' \in [Tasks -> Seq(Requests)]
  BY <1>1 DEF CancelAll
<1>3. QED  BY <1>1, <1>2 DEF DaemonInv, UnitsOK

\* A step that leaves the units and the locks of the tasks alone.
LEMMA UnitsBystander ==
  ASSUME DaemonInv, UNCHANGED units, \A t \in Tasks : writer' = t <=> writer = t
  PROVE  UnitsOK'
BY UnitBystander DEF DaemonInv, UnitsOK, units

-----------------------------------------------------------------------------
\* Steps of apply_migrations, by the daemon or by another process.

AnyStep(p) == Start(p) \/ Migrate(p) \/ DbError(p) \/ Leave(p)

LEMMA RunnerStep ==
  ASSUME DaemonInv, NEW p \in Processes, AnyStep(p)
  PROVE  /\ \A t \in Tasks : writer' = t <=> writer = t
         /\ writer' = "daemon" => runner'["daemon"].pc \in {"body", "commit"}
         /\ InScript("daemon")' => InScript("daemon") \/ p = "daemon"
<1>1. /\ runner \in [Processes -> Runner] /\ InStep(p)
      /\ writer = "daemon" => runner["daemon"].pc \in {"body", "commit"}
  BY DEF DaemonInv, MigrationInv, TablesOK, OnOpen
<1>2. /\ \A q \in Processes \ {p} : runner'[q] = runner[q]
      /\ \/ writer' = writer /\ runner[p].pc \notin {"body", "commit"}
         \/ writer' = writer /\ runner'[p].pc = "commit"
         \/ writer = Nobody /\ writer' = p /\ runner'[p].pc = "body"
         \/ writer = p /\ writer' = Nobody
         \/ writer' = Unlocked(p)
  <2>1. CASE Start(p) \/ DbError(p) \/ Leave(p)
    BY <1>1, <2>1 DEF Start, DbError, Leave, Fail
  <2>2. CASE Look(p) \/ Finish(p)
    BY <1>1, <2>2 DEF Look, Finish
  <2>3. CASE Visit(p)
    BY <1>1, <2>3 DEF Visit, Fail
  <2>4. CASE Begin(p)
    BY <1>1, <2>4 DEF Begin, Runner
  <2>5. CASE Body(p)
    BY <1>1, <2>5 DEF Body, Fail, InStep, Runner
  <2>6. CASE Commit(p)
    BY <1>1, <2>6 DEF Commit, InStep
  <2>7. QED  BY <2>1, <2>2, <2>3, <2>4, <2>5, <2>6 DEF AnyStep, Migrate
<1>3. QED  BY <1>1, <1>2, Names DEF Unlocked, InScript

LEMMA RunnerPreserves ==
  ASSUME DaemonInv, NEW p \in Processes, AnyStep(p), UNCHANGED <<units, opened>>,
         p = "daemon" => "scan" \in opened,
         DaemonTypeOK', MainOK'
  PROVE  DaemonInv'
<1>1. MigrationInv'
  BY MigratePreserves, AroundPreserves DEF DaemonInv, AnyStep
<1>2. UnitsOK'
  BY RunnerStep, UnitsBystander
<1>3. OnOpen'
  BY RunnerStep DEF DaemonInv, OnOpen, units
<1>4. QED  BY <1>1, <1>2, <1>3 DEF DaemonInv

\* The types and MainOK speak of the daemon only.
LEMMA MainBystander ==
  ASSUME DaemonInv, UNCHANGED <<main, opened, units>>
  PROVE  DaemonTypeOK' /\ MainOK'
BY DEF DaemonInv, DaemonTypeOK, MainOK, units

\* The boot step that migrates comes after the one that opens its connection.
LEMMA MigratesOnOpen ==
  ASSUME DaemonInv, AtStep("migrate")
  PROVE  "scan" \in opened
<1>1. PICK j \in 1..(main.step - 1) : BootPlan[j] = "scan"
  BY DaemonAssumption DEF AtStep
<1>2. QED  BY <1>1, Names DEF DaemonInv, MainOK, AtStep

LEMMA MigratingPreserves ==
  ASSUME DaemonInv,
         BootMigrates \/ MigrationFails \/ ScriptGoesOn \/ OthersMigrate \/ OthersFail
  PROVE  DaemonInv'
<1>1. UNCHANGED <<main, opened, units>>
  BY DEF BootMigrates, MigrationFails, ScriptGoesOn, OthersMigrate, OthersFail, daemonVars, units
<1>2. DaemonTypeOK' /\ MainOK'
  BY <1>1, MainBystander
<1>3. CASE BootMigrates \/ MigrationFails
  BY <1>1, <1>2, <1>3, RunnerPreserves, MigratesOnOpen, Names
  DEF BootMigrates, MigrationFails, AnyStep
<1>4. CASE ScriptGoesOn
  BY <1>1, <1>2, <1>4, RunnerPreserves, Names DEF ScriptGoesOn, AnyStep, DaemonInv, OnOpen
<1>5. CASE OthersMigrate \/ OthersFail
  BY <1>1, <1>2, <1>5, RunnerPreserves DEF OthersMigrate, OthersFail, Others, AnyStep
<1>6. QED  BY <1>3, <1>4, <1>5

LEMMA MigratedPreserves ==
  ASSUME DaemonInv, Migrated \/ NotMigrated
  PROVE  DaemonInv'
<1>1. /\ AtStep("migrate") /\ Leave("daemon") /\ UNCHANGED <<opened, units>>
      /\ main \in MainState /\ main.step \in DOMAIN BootPlan /\ main.pc = "boot"
  BY DEF Migrated, NotMigrated, AtStep, DaemonInv, DaemonTypeOK
<1>2. DOMAIN BootPlan = 1..Len(BootPlan) /\ Len(BootPlan) \in Nat
  BY DaemonAssumption
<1>3. CASE Migrated
  <2>1. main' = [main EXCEPT !.step = @ + 1]
    BY <1>3 DEF Migrated
  <2>2. main' \in MainState /\ main'.pc = "boot" /\ main'.step = main.step + 1
    BY <1>1, <1>2, <2>1 DEF MainState
  <2>3. DaemonTypeOK'
    BY <1>1, <2>2 DEF DaemonInv, DaemonTypeOK, units
  <2>4. \A j \in 1..(main'.step - 1) : j \in 1..(main.step - 1) \/ j = main.step
    BY <1>1, <1>2, <2>2 DEF MainState
  <2>5. BootPlan[main.step] \notin Tasks
    BY <1>1 DEF AtStep, Tasks
  <2>6. MainOK'
    BY <1>1, <2>2, <2>4, <2>5 DEF DaemonInv, MainOK, units
  <2>7. QED  BY <1>1, <2>3, <2>6, RunnerPreserves, MigratesOnOpen, Names DEF AnyStep
<1>4. CASE NotMigrated
  <2>1. main' = [main EXCEPT !.pc = "close", !.raised = "failure"]
    BY <1>4 DEF NotMigrated, Unwind
  <2>2. main' \in MainState /\ main'.pc = "close"
    BY <1>1, <2>1 DEF MainState
  <2>3. DaemonTypeOK'
    BY <1>1, <2>2 DEF DaemonInv, DaemonTypeOK, units
  <2>4. MainOK'
    BY <1>1, <2>2 DEF DaemonInv, MainOK, units
  <2>5. QED  BY <1>1, <2>3, <2>4, RunnerPreserves, MigratesOnOpen, Names DEF AnyStep
<1>5. QED  BY <1>3, <1>4

-----------------------------------------------------------------------------
\* Steps of the main coroutine on its own.

LEMMA QuietPreserves ==
  ASSUME DaemonInv, UNCHANGED <<migrationVars, units>>, opened \subseteq opened',
         DaemonTypeOK', MainOK'
  PROVE  DaemonInv'
<1>1. MigrationInv'
  BY StutterPreserves DEF DaemonInv
<1>2. UnitsOK'
  BY UnitsBystander DEF migrationVars
<1>3. OnOpen'
  BY DEF DaemonInv, OnOpen, InScript, migrationVars, units
<1>4. QED  BY <1>1, <1>2, <1>3 DEF DaemonInv

LEMMA BootPreserves ==
  ASSUME DaemonInv,
         \/ Launch \/ Gather
         \/ \E i \in DOMAIN BootPlan : BootStep(BootPlan[i]) \/ BootFails(BootPlan[i])
  PROVE  DaemonInv'
<1>1. DOMAIN BootPlan = 1..Len(BootPlan) /\ Len(BootPlan) \in Nat
  BY DaemonAssumption
<1>2. main \in MainState /\ DaemonTypeOK /\ MainOK
  BY DEF DaemonInv, DaemonTypeOK
<1>3. CASE Launch
  <2>1. main' = [pc |-> "boot", step |-> 1, raised |-> "none", code |-> "none"]
    BY <1>3 DEF Launch
  <2>2. main' \in MainState /\ main'.pc = "boot" /\ main'.step = 1
    BY <1>1, <2>1 DEF MainState
  <2>3. UNCHANGED <<migrationVars, opened, units>> /\ main.pc = "down"
    BY <1>3 DEF Launch
  <2>4. DaemonTypeOK' /\ MainOK'
    BY <1>2, <2>2, <2>3 DEF DaemonTypeOK, MainOK, units
  <2>5. QED  BY <2>3, <2>4, QuietPreserves
<1>4. CASE Gather
  <2>1. PICK raised \in {"none", "failure", "cancel"} :
           main' = [main EXCEPT !.pc = "close", !.raised = raised]
    BY <1>2, <1>4 DEF Gather, Unwind, MainState
  <2>2. main' \in MainState /\ main'.pc = "close"
    BY <1>2, <2>1 DEF MainState
  <2>3. UNCHANGED <<migrationVars, opened, units>> /\ \A t \in Tasks : task[t].at \in Ended
    BY <1>4 DEF Gather
  <2>4. DaemonTypeOK' /\ MainOK'
    BY <1>2, <2>2, <2>3 DEF DaemonTypeOK, MainOK, units
  <2>5. QED  BY <2>3, <2>4, QuietPreserves
<1>5. ASSUME NEW i \in DOMAIN BootPlan, BootStep(BootPlan[i]) PROVE DaemonInv'
  <2> DEFINE what == BootPlan[i]
  <2>1. /\ main.pc = "boot" /\ main.step \in DOMAIN BootPlan /\ BootPlan[main.step] = what
        /\ opened' = opened \cup ({what} \cap Tasks) /\ main' = [main EXCEPT !.step = @ + 1]
        /\ UNCHANGED <<migrationVars, units>>
    BY <1>5 DEF BootStep, AtStep
  <2>2. main' \in MainState /\ main'.pc = "boot" /\ main'.step = main.step + 1
    BY <1>1, <1>2, <2>1 DEF MainState
  <2>3. DaemonTypeOK'
    BY <1>2, <2>1, <2>2 DEF DaemonTypeOK, units
  <2>4. \A j \in 1..(main'.step - 1) : j \in 1..(main.step - 1) \/ j = main.step
    BY <1>1, <2>1, <2>2
  <2>5. MainOK'
    BY <1>2, <2>1, <2>2, <2>4 DEF MainOK, units
  <2>6. QED  BY <2>1, <2>3, <2>5, QuietPreserves
<1>6. ASSUME NEW i \in DOMAIN BootPlan, BootFails(BootPlan[i]) PROVE DaemonInv'
  <2>1. main.pc = "boot" /\ main' = [main EXCEPT !.pc = "close", !.raised = "failure"]
        /\ UNCHANGED <<migrationVars, opened, units>>
    BY <1>6 DEF BootFails, AtStep, Unwind
  <2>2. main' \in MainState /\ main'.pc = "close"
    BY <1>2, <2>1 DEF MainState
  <2>3. DaemonTypeOK' /\ MainOK'
    BY <1>2, <2>1, <2>2 DEF DaemonTypeOK, MainOK, units
  <2>4. QED  BY <2>1, <2>3, QuietPreserves
<1>7. QED  BY <1>3, <1>4, <1>5, <1>6

\* The tasks start when every connection is open.
LEMMA SupervisePreserves ==
  ASSUME DaemonInv, Supervise
  PROVE  DaemonInv'
<1>1. DOMAIN BootPlan = 1..Len(BootPlan) /\ Len(BootPlan) \in Nat
  BY DaemonAssumption
<1>2. /\ main \in MainState /\ DaemonTypeOK /\ MainOK /\ main.pc = "boot"
      /\ main.step = Len(BootPlan) + 1
      /\ main' = [main EXCEPT !.pc = "supervise"] /\ task' = [t \in Tasks |-> Resting("idle")]
      /\ UNCHANGED <<migrationVars, opened, queue, draft, stored>>
  BY DEF DaemonInv, DaemonTypeOK, Supervise
<1>3. main' \in MainState /\ main'.pc = "supervise"
  BY <1>2 DEF MainState
<1>4. Resting("idle") \in TaskState /\ Resting("idle").at = "idle"
  BY RestingFacts DEF Waiting
<1>5. opened = Tasks
  <2>1. ASSUME NEW t \in Tasks PROVE t \in opened
    <3>1. PICK j \in 1..Len(BootPlan) : t = BootPlan[j]
      BY <1>1 DEF Tasks
    <3>2. j \in 1..(main.step - 1)
      BY <1>1, <1>2
    <3>3. QED  BY <1>2, <3>1, <3>2 DEF MainOK
  <2>2. QED  BY <1>2, <2>1 DEF DaemonTypeOK
<1>6. DaemonTypeOK'
  BY <1>2, <1>3, <1>4 DEF DaemonTypeOK
<1>7. MainOK'
  BY <1>2, <1>3, <1>5 DEF MainOK
<1>8. ASSUME NEW t \in Tasks PROVE Unit(t)'
  <2>1. task[t].at = "unborn" /\ Unit(t)
    BY <1>2 DEF MainOK, DaemonInv, UnitsOK
  <2>2. queue[t] = << >> /\ draft[t] = 0 /\ writer # t
    BY <2>1 DEF Unit, Ended
  <2>3. QED  BY <1>2, <1>4, <2>2 DEF Unit, migrationVars
<1>9. MigrationInv'
  BY <1>2, StutterPreserves DEF DaemonInv
<1>10. OnOpen'
  BY <1>2 DEF DaemonInv, OnOpen, InScript, migrationVars
<1>11. QED  BY <1>2, <1>6, <1>7, <1>8, <1>9, <1>10 DEF DaemonInv, UnitsOK

\* The first task to end, and the first SIGTERM.
LEMMA WakePreserves ==
  ASSUME DaemonInv, Wake \/ Terminate
  PROVE  DaemonInv'
<1>1. main \in MainState /\ DaemonTypeOK /\ MainOK
  BY DEF DaemonInv, DaemonTypeOK
<1>2. CASE /\ main.pc \in {"supervise", "drain"} /\ CancelAll
           /\ main'.pc = "drain" /\ main' \in MainState
           /\ UNCHANGED <<migrationVars, opened, draft, stored>>
  <2>1. UnitsOK' /\ task' \in [Tasks -> TaskState] /\ queue' \in [Tasks -> Seq(Requests)]
    BY <1>2, CancelPreserves DEF migrationVars
  <2>2. DaemonTypeOK' /\ MainOK'
    BY <1>1, <1>2, <2>1 DEF DaemonTypeOK, MainOK
  <2>3. MigrationInv'
    BY <1>2, StutterPreserves DEF DaemonInv
  <2>4. opened' = Tasks
    BY <1>1, <1>2 DEF MainOK
  <2>5. OnOpen'
    BY <1>2, <2>4 DEF DaemonInv, OnOpen, InScript, migrationVars
  <2>6. QED  BY <2>1, <2>2, <2>3, <2>5 DEF DaemonInv
<1>3. CASE Wake
  <2>1. main' = [main EXCEPT !.pc = "drain"]
    BY <1>3 DEF Wake
  <2>2. main'.pc = "drain" /\ main' \in MainState
    BY <1>1, <2>1 DEF MainState
  <2>3. QED  BY <1>2, <1>3, <2>2 DEF Wake
<1>4. CASE Terminate /\ main.pc # "boot"
  <2>1. main' = [main EXCEPT !.pc = "drain", !.raised = "cancel"]
    BY <1>4 DEF Terminate
  <2>2. main'.pc = "drain" /\ main' \in MainState
    BY <1>1, <2>1 DEF MainState
  <2>3. QED  BY <1>2, <1>4, <2>2 DEF Terminate
<1>5. CASE Terminate /\ main.pc = "boot"
  <2>1. main' = [main EXCEPT !.pc = "close", !.raised = "cancel"]
        /\ UNCHANGED <<migrationVars, opened, units>>
    BY <1>5 DEF Terminate, units
  <2>2. main'.pc = "close" /\ main' \in MainState
    BY <1>1, <2>1 DEF MainState
  <2>3. DaemonTypeOK' /\ MainOK'
    BY <1>1, <1>5, <2>1, <2>2 DEF DaemonTypeOK, MainOK, units
  <2>4. QED  BY <2>1, <2>3, QuietPreserves
<1>6. QED  BY <1>3, <1>4, <1>5

-----------------------------------------------------------------------------
\* The way out.

LEMMA ClosePreserves ==
  ASSUME DaemonInv, Close
  PROVE  DaemonInv'
<1>1. PICK i \in DOMAIN BootPlan :
         LET c == BootPlan[i]
         IN  /\ c \in opened /\ \A t \in On(c) : queue[t] = << >>
             /\ c = "scan" => ~InScript("daemon")
             /\ opened' = opened \ {c} /\ writer' = Unlocked(c) /\ Drop(c)
  BY DEF Close
<1> DEFINE c == BootPlan[i]
<1>2. /\ main.pc = "close" /\ DaemonTypeOK /\ MainOK /\ OnOpen /\ c \in Tasks
      /\ UNCHANGED <<directory, database, runner, main, task, queue, stored>>
  BY <1>1 DEF DaemonInv, DaemonTypeOK, Close
<1>3. /\ queue[c] = << >> /\ opened' = opened \ {c}
      /\ draft' = [t \in Tasks |-> IF t = c THEN 0 ELSE draft[t]]
      /\ writer' = IF writer = c THEN Nobody ELSE writer
  BY <1>1, <1>2, OwnConnection DEF Drop, Conn, On, Unlocked
<1>4. writer' # c /\ \A u \in (Tasks \cup Processes) \ {c} : writer' = u <=> writer = u
  BY <1>2, <1>3, Names
<1>5. \A q \in Processes : writer' = q <=> writer = q
  BY <1>2, <1>4, Names
<1>6. MigrationInv'
  <2>1. \A q \in Processes : InStep(q)'
    BY <1>2, <1>5, Bystander DEF DaemonInv, MigrationInv, TablesOK, directory, database
  <2>2. QED
    BY <1>2, <2>1 DEF DaemonInv, MigrationInv, TablesOK, SchemaIsRecorded, directory, database
<1>7. DaemonTypeOK'
  BY <1>2, <1>3 DEF DaemonTypeOK
<1>8. UnitsOK'
  <2>1. ASSUME NEW t \in Tasks, t # c PROVE Unit(t)'
    BY <1>2, <1>3, <1>4, <2>1, UnitBystander DEF DaemonInv, UnitsOK
  <2>2. task[c].at \in Ended \cup {"unborn"}
    BY <1>2 DEF MainOK
  <2>3. Unit(c)'
    BY <1>2, <1>3, <1>4, <2>2 DEF Unit
  <2>4. QED  BY <1>2, <2>1, <2>3 DEF DaemonInv, UnitsOK
<1>9. MainOK'
  BY <1>2, <1>3 DEF MainOK
<1>10. OnOpen'
  <2>1. \A t \in Tasks : writer' = t \/ queue'[t] # << >> => t \in opened'
    BY <1>2, <1>3, <1>4 DEF OnOpen
  <2>2. InScript("daemon")' => "scan" \in opened'
    BY <1>1, <1>2, <1>3 DEF OnOpen, InScript
  <2>3. QED  BY <1>2, <1>5, <2>1, <2>2, Names DEF OnOpen
<1>11. QED  BY <1>6, <1>7, <1>8, <1>9, <1>10 DEF DaemonInv

\* A process whose connections are closed holds nothing.
LEMMA NothingHeld ==
  ASSUME DaemonInv, opened = {}
  PROVE  /\ ~InScript("daemon") /\ writer \notin Tasks \cup {"daemon"}
         /\ \A t \in Tasks : queue[t] = << >>
BY DEF DaemonInv, OnOpen, InScript

LEMMA ExitPreserves ==
  ASSUME DaemonInv, Exit
  PROVE  DaemonInv'
<1>1. PICK code \in {"0", "1"} : main' = [main EXCEPT !.pc = "exited", !.code = code]
  BY DEF Exit
<1>2. main \in MainState /\ main.pc = "close" /\ opened = {} /\ MainOK
      /\ UNCHANGED <<directory, database, writer, opened, units>>
      /\ runner' = [runner EXCEPT !["daemon"] = AtRest("down")]
  BY DEF DaemonInv, DaemonTypeOK, Exit
<1>3. main' \in MainState /\ main'.pc = "exited"
  BY <1>1, <1>2 DEF MainState
<1>4. MigrationInv'
  BY <1>2, RestPreserves, Names DEF DaemonInv, directory
<1>5. DaemonTypeOK' /\ MainOK'
  BY <1>2, <1>3 DEF DaemonInv, DaemonTypeOK, MainOK, units
<1>6. UnitsOK'
  BY <1>2, UnitsBystander
<1>7. OnOpen'
  <2>1. runner'["daemon"].pc = "down"
    BY <1>2, RestFacts, Names DEF DaemonInv, MigrationInv, TablesOK
  <2>2. QED  BY <1>2, <2>1, NothingHeld DEF OnOpen, InScript, units
<1>8. QED  BY <1>4, <1>5, <1>6, <1>7 DEF DaemonInv

\* A process without tasks: it died, or the next one is about to start.
LEMMA BlankPreserves ==
  ASSUME DaemonInv, Blank, writer' \notin Tasks, stored' = stored,
         main' \in MainState, main'.pc \in {"down", "exited"}, opened' = {}
  PROVE  DaemonTypeOK' /\ UnitsOK' /\ MainOK'
         /\ \A t \in Tasks : writer' # t /\ queue'[t] = << >>
<1>1. Resting("unborn") \in TaskState /\ Resting("unborn").at = "unborn"
  BY RestingFacts
<1>2. /\ task' = [t \in Tasks |-> Resting("unborn")] /\ queue' = [t \in Tasks |-> << >>]
      /\ draft' = [t \in Tasks |-> 0]
  BY DEF Blank
<1>3. DaemonTypeOK'
  BY <1>1, <1>2 DEF DaemonTypeOK
<1>4. \A t \in Tasks : Unit(t)'
  BY <1>1, <1>2 DEF Unit
<1>5. MainOK'
  BY <1>1, <1>2 DEF MainOK
<1>6. QED  BY <1>2, <1>3, <1>4, <1>5 DEF DaemonInv, UnitsOK

LEMMA DiePreserves ==
  ASSUME DaemonInv, TerminateAtOnce \/ Crash
  PROVE  DaemonInv'
<1>1. PICK code \in {"SIGTERM", "SIGKILL"} : Die(code)
  BY DEF TerminateAtOnce, Crash
<1>2. main \in MainState /\ main' = [main EXCEPT !.pc = "exited", !.code = code] /\ opened' = {}
      /\ Blank /\ writer' = (IF writer \in Tasks \cup {"daemon"} THEN Nobody ELSE writer)
      /\ runner' = [runner EXCEPT !["daemon"] = AtRest("down")]
      /\ UNCHANGED <<directory, database, stored>>
  BY <1>1 DEF Die, DaemonInv, DaemonTypeOK
<1>3. main' \in MainState /\ main'.pc = "exited"
  BY <1>2 DEF MainState
<1>4. writer' \notin Tasks \cup {"daemon"}
  BY <1>2, Names
<1>5. MigrationInv'
  <2>1. \A q \in Processes \ {"daemon"} : writer = q => writer' = q
    BY <1>2, Names
  <2>2. QED  BY <1>2, <2>1, RestPreserves, Names DEF DaemonInv, directory
<1>6. /\ DaemonTypeOK' /\ UnitsOK' /\ MainOK'
      /\ \A t \in Tasks : writer' # t /\ queue'[t] = << >>
  BY <1>2, <1>3, <1>4, BlankPreserves
<1>7. runner'["daemon"].pc = "down"
  BY <1>2, RestFacts, Names DEF DaemonInv, MigrationInv, TablesOK
<1>8. OnOpen'
  BY <1>4, <1>6, <1>7 DEF OnOpen, InScript
<1>9. QED  BY <1>5, <1>6, <1>8 DEF DaemonInv

LEMMA RestartPreserves ==
  ASSUME DaemonInv, Restart
  PROVE  DaemonInv'
<1>1. main \in MainState /\ main.pc = "exited" /\ main' = [main EXCEPT !.pc = "down"] /\ Blank
      /\ UNCHANGED <<migrationVars, opened, stored>> /\ opened = {}
  BY DEF Restart, DaemonInv, DaemonTypeOK, MainOK
<1>2. main' \in MainState /\ main'.pc = "down"
  BY <1>1 DEF MainState
<1>3. writer' \notin Tasks \cup {"daemon"} /\ ~InScript("daemon")'
  BY <1>1, NothingHeld DEF migrationVars, InScript
<1>4. /\ DaemonTypeOK' /\ UnitsOK' /\ MainOK'
      /\ \A t \in Tasks : writer' # t /\ queue'[t] = << >>
  BY <1>1, <1>2, <1>3, BlankPreserves
<1>5. MigrationInv'
  BY <1>1, StutterPreserves DEF DaemonInv
<1>6. OnOpen'
  BY <1>3, <1>4 DEF OnOpen
<1>7. QED  BY <1>4, <1>5, <1>6 DEF DaemonInv

LEMMA DeploysPreserve ==
  ASSUME DaemonInv, Deploy, UNCHANGED daemonVars
  PROVE  DaemonInv'
<1>1. UNCHANGED <<database, writer, runner>>
  BY DEF Deploy, Ship, Edit
<1>2. MigrationInv'
  BY DeployPreserves DEF DaemonInv
<1>3. DaemonTypeOK' /\ MainOK'
  BY MainBystander DEF daemonVars, units
<1>4. UnitsOK'
  BY <1>1, UnitsBystander DEF daemonVars, units
<1>5. OnOpen'
  BY <1>1 DEF DaemonInv, OnOpen, InScript, daemonVars
<1>6. QED  BY <1>2, <1>3, <1>4, <1>5 DEF DaemonInv

-----------------------------------------------------------------------------

LEMMA DaemonInitInv ==
  ASSUME Init
  PROVE  DaemonInv
<1>1. Resting("unborn") \in TaskState /\ Resting("unborn").at = "unborn"
  BY RestingFacts
<1>2. /\ task = [t \in Tasks |-> Resting("unborn")] /\ queue = [t \in Tasks |-> << >>]
      /\ draft = [t \in Tasks |-> 0] /\ stored = [t \in Tasks |-> 0] /\ writer = Nobody
      /\ opened = {} /\ main = [pc |-> "down", step |-> 1, raised |-> "none", code |-> "none"]
  BY DEF Init, MigrationInit
<1>3. MigrationInv
  BY MigrationInitInv DEF Init
<1>4. DaemonTypeOK
  <2>1. Len(BootPlan) \in Nat
    BY DaemonAssumption
  <2>2. main \in MainState
    BY <1>2, <2>1 DEF MainState
  <2>3. QED  BY <1>1, <1>2, <2>2 DEF DaemonTypeOK
<1>5. UnitsOK
  BY <1>1, <1>2, Names DEF UnitsOK, Unit
<1>6. MainOK
  BY <1>1, <1>2 DEF MainOK
<1>7. OnOpen
  <2>1. runner["daemon"].pc = "down"
    BY RestFacts, Names DEF Init, MigrationInit
  <2>2. QED  BY <1>2, <2>1, Names DEF OnOpen, InScript
<1>8. QED  BY <1>3, <1>4, <1>5, <1>6, <1>7 DEF DaemonInv

LEMMA DaemonStep ==
  ASSUME DaemonInv, [Next]_vars
  PROVE  DaemonInv'
<1>1. CASE UNCHANGED vars
  <2>1. DaemonTypeOK' /\ MainOK'
    BY <1>1, MainBystander DEF vars, daemonVars, units
  <2>2. QED  BY <1>1, <2>1, QuietPreserves DEF vars, daemonVars, units
<1>2. CASE Main
  BY <1>2, BootPreserves, MigratingPreserves, MigratedPreserves, SupervisePreserves,
     WakePreserves, ClosePreserves, ExitPreserves, RestartPreserves DEF Main
<1>3. CASE (\E t \in Tasks : Enter(t) \/ Thread(t) \/ ThreadFails(t) \/ TaskFails(t)) \/ ScanReturns
  BY <1>3, TasksPreserve
<1>4. CASE MigrationFails \/ OthersMigrate \/ OthersFail
  BY <1>4, MigratingPreserves
<1>5. CASE \E i \in DOMAIN BootPlan : BootFails(BootPlan[i])
  BY <1>5, BootPreserves
<1>6. CASE Terminate \/ TerminateAtOnce \/ Crash
  BY <1>6, WakePreserves, DiePreserves
<1>7. CASE Deploy /\ UNCHANGED daemonVars
  BY <1>7, DeploysPreserve
<1>8. QED  BY <1>1, <1>2, <1>3, <1>4, <1>5, <1>6, <1>7 DEF Next

LEMMA DaemonInvariance == Spec => []DaemonInv
<1>1. Init => DaemonInv
  BY DaemonInitInv
<1>2. DaemonInv /\ [Next]_vars => DaemonInv'
  BY DaemonStep
<1>3. QED  BY <1>1, <1>2, PTL DEF Spec

\* What the tasks commit is whole units of work, whatever fails, is cancelled or
\* dies: on each connection, only its own task writes between BEGIN and COMMIT.
THEOREM UnitsAreWhole == Spec => []WholeUnits
<1>1. DaemonInv => WholeUnits
  BY DEF DaemonInv, UnitsOK, WholeUnits
<1>2. QED  BY <1>1, DaemonInvariance, PTL

\* A task that has ended has no statement left in an open transaction.
THEOREM NothingIsAbandoned == Spec => []NothingHalfDoneIsLeft
<1>1. ASSUME DaemonInv, NEW t \in Tasks, task[t].at \in Ended, queue[t] = << >>
      PROVE  draft[t] = 0
  BY <1>1, Literals DEF DaemonInv, UnitsOK, Unit, Undoing, Ended
<1>2. DaemonInv => NothingHalfDoneIsLeft
  BY <1>1 DEF NothingHalfDoneIsLeft
<1>3. QED  BY <1>2, DaemonInvariance, PTL

\* A daemon that exits by itself leaves no task, no connection, no request and no
\* lock; one that is killed leaves none either.
THEOREM ExitsAreClean == Spec => []CleanExit
<1>1. DaemonInv => CleanExit
  BY NothingHeld DEF DaemonInv, MainOK, CleanExit
<1>2. QED  BY <1>1, DaemonInvariance, PTL

\* The schema and its bookkeeping agree in the running system too: a daemon that
\* is cancelled, fails and dies within its migrations, next to other processes.
THEOREM DaemonsSchemaIsRecorded == Spec => []SchemaIsRecorded
<1>1. DaemonInv => SchemaIsRecorded
  BY DEF DaemonInv, MigrationInv
<1>2. QED  BY <1>1, DaemonInvariance, PTL

\* The daemon gets past its migrations only over the files it read.
THEOREM DaemonStartsOnItsSchema == Spec => []StartsOnItsSchema
<1>1. DaemonInv => StartsOnItsSchema
  BY InStepStarts DEF DaemonInv
<1>2. QED  BY <1>1, DaemonInvariance, PTL

-----------------------------------------------------------------------------
\* The daemon refines the migration runners.

\* For the other runners a lock that a task's connection holds is just not
\* there yet: they wait for it, or fail.
Holder == IF writer \in Processes THEN writer ELSE Nobody

Runners == INSTANCE Migrations WITH writer <- Holder

RestIsBlank == \A p \in Processes : runner[p].pc = "down" => runner[p] = AtRest("down")

\* The daemon's runner is gone with its process, and so is what it held.
RunnerDies ==
    /\ runner' = [runner EXCEPT !["daemon"] = AtRest("down")]
    /\ writer' = IF writer \in Tasks \cup {"daemon"} THEN Nobody ELSE writer
    /\ UNCHANGED <<directory, database>>

\* What tasks do with the lock is not seen by the runners.
LEMMA TaskLocks ==
  ASSUME NEW t \in Tasks,
         writer' = writer \/ (writer = Nobody /\ writer' = t) \/ writer' = Unlocked(t)
  PROVE  Holder' = Holder
BY Names DEF Holder, Unlocked

LEMMA TasksAreUnseen ==
  ASSUME NEW t \in Tasks, Enter(t) \/ Thread(t) \/ ThreadFails(t) \/ TaskFails(t)
  PROVE  UNCHANGED <<directory, database, runner>> /\ Holder' = Holder
<1>1. Conn(t) = t
  BY DEF Conn
<1>2. CASE UNCHANGED migrationVars
  BY <1>2 DEF migrationVars, Holder
<1>3. CASE ThreadBegins(t)
  BY <1>1, <1>3, TaskLocks DEF ThreadBegins
<1>4. CASE WriteFailsForGood(t) \/ ThreadCommits(t) \/ CommitFails(t) \/ ThreadRollsBack(t)
  BY <1>1, <1>4, TaskLocks DEF WriteFailsForGood, ThreadCommits, CommitFails, ThreadRollsBack
<1>5. CASE Enter(t) \/ TaskFails(t)
  BY <1>2, <1>5 DEF Enter, TaskFails
<1>6. CASE ThreadGivesUp(t) \/ ThreadWrites(t) \/ ThreadTimesOut(t) \/ WriteFails(t)
  BY <1>2, <1>6 DEF ThreadGivesUp, ThreadWrites, ThreadTimesOut, WriteFails
<1>7. QED  BY <1>3, <1>4, <1>5, <1>6 DEF Thread, ThreadFails

\* Everything the daemon does is, for the migrations, one of four kinds.
LEMMA StepKinds ==
  ASSUME DaemonInv, [Next]_vars
  PROVE  \/ \E p \in Processes : AnyStep(p)
         \/ Deploy
         \/ UNCHANGED <<directory, database, runner>> /\ Holder' = Holder
         \/ RunnerDies
<1>1. CASE UNCHANGED migrationVars
  BY <1>1 DEF migrationVars, Holder
<1>2. CASE BootMigrates \/ MigrationFails \/ Migrated \/ NotMigrated \/ ScriptGoesOn
  BY <1>2, Names DEF BootMigrates, MigrationFails, Migrated, NotMigrated, ScriptGoesOn, AnyStep
<1>3. CASE OthersMigrate \/ OthersFail
  BY <1>3 DEF OthersMigrate, OthersFail, Others, AnyStep
<1>4. CASE \E t \in Tasks : Enter(t) \/ Thread(t) \/ ThreadFails(t) \/ TaskFails(t)
  BY <1>4, TasksAreUnseen
<1>5. CASE Close
  <2>1. PICK c \in opened : writer' = Unlocked(c)
    BY <1>5 DEF Close
  <2>2. c \in Tasks
    BY DEF DaemonInv, DaemonTypeOK
  <2>3. UNCHANGED <<directory, database, runner>>
    BY <1>5 DEF Close
  <2>4. QED  BY <2>1, <2>2, <2>3, TaskLocks
<1>6. CASE Exit
  BY <1>6, NothingHeld DEF Exit, RunnerDies
<1>7. CASE TerminateAtOnce \/ Crash
  BY <1>7 DEF TerminateAtOnce, Crash, Die, RunnerDies
<1>8. CASE Launch \/ Supervise \/ Wake \/ Gather \/ Restart \/ ScanReturns \/ Terminate
           \/ UNCHANGED vars
  BY <1>1, <1>8 DEF Launch, Supervise, Wake, Gather, Restart, ScanReturns, Terminate, vars
<1>9. CASE \E i \in DOMAIN BootPlan : BootStep(BootPlan[i]) \/ BootFails(BootPlan[i])
  BY <1>1, <1>9 DEF BootStep, BootFails
<1>10. QED
  BY <1>2, <1>3, <1>4, <1>5, <1>6, <1>7, <1>8, <1>9 DEF Next, Main

LEMMA StaysBlank ==
  ASSUME DaemonInv, RestIsBlank, [Next]_vars
  PROVE  RestIsBlank'
<1>1. runner \in [Processes -> Runner]
  BY DEF DaemonInv, MigrationInv, TablesOK
<1>2. CASE UNCHANGED runner
  BY <1>2 DEF RestIsBlank, AtRest
<1>3. ASSUME NEW p \in Processes, NEW pc \in {"down", "look", "failed"},
             runner' = [runner EXCEPT ![p] = AtRest(pc)]
      PROVE  RestIsBlank'
  BY <1>1, <1>3, RestFacts DEF RestIsBlank, AtRest
<1>4. ASSUME NEW p \in Processes, runner'[p].pc # "down",
             \A q \in Processes \ {p} : runner'[q] = runner[q]
      PROVE  RestIsBlank'
  BY <1>4 DEF RestIsBlank, AtRest
<1>5. ASSUME NEW p \in Processes, AnyStep(p) PROVE RestIsBlank'
  <2>1. CASE Start(p) \/ DbError(p) \/ Leave(p)
    BY <1>3, <2>1 DEF Start, DbError, Leave, Fail
  <2>2. CASE Look(p) \/ Finish(p)
    <3>1. runner'[p].pc # "down" /\ \A q \in Processes \ {p} : runner'[q] = runner[q]
      BY <1>1, <2>2 DEF Look, Finish, Runner
    <3>2. QED  BY <1>4, <3>1
  <2>3. CASE Visit(p)
    <3>1. CASE Fail(p)
      BY <1>3, <3>1 DEF Fail
    <3>2. CASE ~Fail(p)
      <4>1. runner'[p].pc # "down" /\ \A q \in Processes \ {p} : runner'[q] = runner[q]
        BY <1>1, <2>3, <3>2 DEF Visit, Runner
      <4>2. QED  BY <1>4, <4>1
    <3>3. QED  BY <3>1, <3>2
  <2>4. CASE Begin(p) \/ Commit(p)
    <3>1. runner'[p].pc # "down" /\ \A q \in Processes \ {p} : runner'[q] = runner[q]
      BY <1>1, <2>4 DEF Begin, Commit, Runner
    <3>2. QED  BY <1>4, <3>1
  <2>5. CASE Body(p)
    <3>1. CASE Fail(p)
      BY <1>3, <3>1 DEF Fail
    <3>2. CASE ~Fail(p)
      <4>1. runner'[p].pc # "down" /\ \A q \in Processes \ {p} : runner'[q] = runner[q]
        BY <1>1, <2>5, <3>2 DEF Body, Runner
      <4>2. QED  BY <1>4, <4>1
    <3>3. QED  BY <3>1, <3>2
  <2>6. QED  BY <1>5, <2>1, <2>2, <2>3, <2>4, <2>5 DEF AnyStep, Migrate
<1>6. CASE Deploy
  BY <1>2, <1>6 DEF Deploy, Ship, Edit
<1>7. CASE RunnerDies
  BY <1>3, <1>7, Names DEF RunnerDies
<1>8. QED  BY <1>2, <1>5, <1>6, <1>7, StepKinds

\* A step of a runner is that step under the mapping.
LEMMA RunnerImplements ==
  ASSUME NEW p \in Processes, AnyStep(p)
  PROVE  Runners!MigrationNext
<1>1. /\ writer = Nobody => Holder = Nobody
      /\ writer' = Nobody => Holder' = Nobody
      /\ writer' = p => Holder' = p
      /\ writer' = writer => Holder' = Holder
      /\ writer' = Unlocked(p) => Holder' = Runners!Unlocked(p)
  <2>1. /\ writer = Nobody => Holder = Nobody
        /\ writer' = Nobody => Holder' = Nobody
        /\ writer' = p => Holder' = p
        /\ writer' = writer => Holder' = Holder
    BY Names DEF Holder
  <2>2. Runners!Unlocked(p) = IF Holder = p THEN Nobody ELSE Holder
    BY DEF Runners!Unlocked, Runners!Nobody, Nobody
  <2>3. Holder = p <=> writer = p
    BY Names DEF Holder
  <2>4. QED  BY <2>1, <2>2, <2>3 DEF Unlocked
<1>2. CASE Start(p)
  <2>1. Runners!Start(p)
    BY <1>1, <1>2 DEF Start, Runners!Start, AtRest, Runners!AtRest, directory, database,
       Runners!directory, Runners!database
  <2>2. QED  BY <2>1 DEF Runners!MigrationNext
<1>3. CASE Look(p)
  <2>1. Runners!Look(p)
    BY <1>1, <1>3 DEF Look, Runners!Look, directory, database,
       Runners!directory, Runners!database
  <2>2. QED  BY <2>1 DEF Runners!MigrationNext, Runners!Migrate
<1>4. CASE Visit(p)
  <2>1. Runners!Visit(p)
    BY <1>1, <1>4 DEF Visit, Runners!Visit, Fail, Runners!Fail, AtRest, Runners!AtRest,
       Versions, Runners!Versions, directory, database, Runners!directory, Runners!database
  <2>2. QED  BY <2>1 DEF Runners!MigrationNext, Runners!Migrate
<1>5. CASE Finish(p)
  <2>1. Runners!Finish(p)
    BY <1>1, <1>5 DEF Finish, Runners!Finish, directory, database,
       Runners!directory, Runners!database
  <2>2. QED  BY <2>1 DEF Runners!MigrationNext, Runners!Migrate
<1>6. CASE Begin(p)
  <2>1. Runners!Begin(p)
    BY <1>1, <1>6 DEF Begin, Runners!Begin, Runners!Nobody, directory, database,
       Runners!directory, Runners!database, Nobody
  <2>2. QED  BY <2>1 DEF Runners!MigrationNext, Runners!Migrate
<1>7. CASE Body(p)
  <2>1. Runners!Body(p)
    BY <1>1, <1>7 DEF Body, Runners!Body, Fail, Runners!Fail, AtRest, Runners!AtRest,
       Current, Runners!Current, Versions, Runners!Versions, Nobody, Runners!Nobody,
       directory, database, Runners!directory, Runners!database
  <2>2. QED  BY <2>1 DEF Runners!MigrationNext, Runners!Migrate
<1>8. CASE Commit(p)
  <2>1. Runners!Commit(p)
    BY <1>1, <1>8 DEF Commit, Runners!Commit, Current, Runners!Current, Nobody,
       Runners!Nobody, directory, Runners!directory
  <2>2. QED  BY <2>1 DEF Runners!MigrationNext, Runners!Migrate
<1>9. CASE DbError(p)
  <2>1. Runners!DbError(p)
    BY <1>1, <1>9 DEF DbError, Runners!DbError, InScript, Runners!InScript, Fail,
       Runners!Fail, AtRest, Runners!AtRest, directory, database,
       Runners!directory, Runners!database
  <2>2. QED  BY <2>1 DEF Runners!MigrationNext
<1>10. CASE Leave(p)
  <2>1. Runners!Leave(p)
    BY <1>1, <1>10 DEF Leave, Runners!Leave, AtRest, Runners!AtRest, directory, database,
       Runners!directory, Runners!database
  <2>2. QED  BY <2>1 DEF Runners!MigrationNext
<1>11. QED
  BY <1>2, <1>3, <1>4, <1>5, <1>6, <1>7, <1>8, <1>9, <1>10 DEF AnyStep, Migrate

LEMMA StepImplements ==
  ASSUME DaemonInv, RestIsBlank, [Next]_vars
  PROVE  [Runners!MigrationNext]_(Runners!migrationVars)
<1>1. CASE \E p \in Processes : AnyStep(p)
  BY <1>1, RunnerImplements
<1>2. CASE Deploy
  <2>1. Holder' = Holder
    BY <1>2 DEF Deploy, Ship, Edit, Holder
  <2>2. Runners!Deploy
    BY <1>2, <2>1 DEF Deploy, Ship, Edit, Runners!Deploy, Runners!Ship, Runners!Edit,
       database, Runners!database
  <2>3. QED  BY <2>2 DEF Runners!MigrationNext
<1>3. CASE UNCHANGED <<directory, database, runner>> /\ Holder' = Holder
  BY <1>3 DEF Runners!migrationVars, directory, database, Runners!directory, Runners!database
<1>4. CASE RunnerDies
  <2>1. Holder' = IF Holder = "daemon" THEN Nobody ELSE Holder
    BY <1>4, Names DEF RunnerDies, Holder
  <2>2. CASE runner["daemon"].pc # "down"
    <3>1. Runners!Leave("daemon")
      BY <1>4, <2>1, <2>2 DEF RunnerDies, Runners!Leave, Runners!Unlocked, Nobody,
         Runners!Nobody, AtRest, Runners!AtRest, directory, database,
         Runners!directory, Runners!database
    <3>2. QED  BY <3>1, Names DEF Runners!MigrationNext
  <2>3. CASE runner["daemon"].pc = "down"
    <3>1. runner["daemon"] = AtRest("down") /\ writer # "daemon"
      BY <2>3, Names DEF RestIsBlank, DaemonInv, OnOpen
    <3>2. runner' = runner
      <4>1. runner \in [Processes -> Runner]
        BY DEF DaemonInv, MigrationInv, TablesOK
      <4>2. QED  BY <1>4, <3>1, <4>1 DEF RunnerDies
    <3>3. Holder' = Holder
      BY <2>1, <3>1, Names DEF Holder
    <3>4. QED
      BY <1>4, <3>2, <3>3 DEF RunnerDies, Runners!migrationVars, directory, database,
         Runners!directory, Runners!database
  <2>4. QED  BY <2>2, <2>3
<1>5. QED  BY <1>1, <1>2, <1>3, <1>4, StepKinds

LEMMA BlankInvariance == Spec => []RestIsBlank
<1>1. Init => RestIsBlank
  BY DEF Init, MigrationInit, RestIsBlank
<1>2. DaemonInv /\ RestIsBlank /\ [Next]_vars => RestIsBlank'
  BY StaysBlank
<1>3. QED  BY <1>1, <1>2, DaemonInvariance, PTL DEF Spec

\* The daemon does to the schema, its bookkeeping and the directory nothing that
\* migration runners on their own could not do: the tasks with their
\* transactions, the order of the boot, cancellation, the closing of the
\* connections, exits, crashes and restarts are all steps of runners or none
\* (_run_daemon, _run_supervised, apply_migrations).
THEOREM DaemonRefinesRunners == Spec => Runners!MigrationSpec
<1>1. Init => Runners!MigrationInit
  BY Names DEF Init, MigrationInit, Runners!MigrationInit, Holder, AtRest, Runners!AtRest,
     Nobody, Runners!Nobody
<1>2. DaemonInv /\ RestIsBlank /\ [Next]_vars => [Runners!MigrationNext]_(Runners!migrationVars)
  BY StepImplements
<1>3. QED
  BY <1>1, <1>2, DaemonInvariance, BlankInvariance, PTL DEF Spec, Runners!MigrationSpec

=============================================================================
