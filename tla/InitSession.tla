---------------------------- MODULE InitSession ----------------------------
(***************************************************************************)
(* The bulk-label session (init.py, InitSessionRepository) worked on by    *)
(* two processes at once: the daemon's command loop, fed by Telegram       *)
(* (telegram.commands, run_command_loop), and `blesentry init` on a        *)
(* terminal (run_cli_session). They share only the database, and only      *)
(* _apply_current is one transaction: every other handler is a series of   *)
(* separate statements, with a session read once and written later.        *)
(*                                                                         *)
(* A step of this module is one database statement, or one transaction,    *)
(* with the local work around it. _advance_to_next reads the labels one by *)
(* one; here at once, at the last of those reads.                          *)
(*                                                                         *)
(* A name is abstracted to who typed it and which device was meant.        *)
(***************************************************************************)
EXTENDS Integers, Sequences, FiniteSets

CONSTANTS
    NumDevices,
    MaxMessages,    \* bound: updates the operator ever sends
    MaxBatch,       \* bound: updates waiting at Telegram at a time
    MaxTyped,       \* bound: lines typed on the terminal
    MaxSessions,    \* bound: sessions ever created
    Kinds,          \* what the operator may send by chat (a subset of AllKinds) ...
    CliKinds        \* ... and type on the terminal (a subset of those)

Devices  == 1..NumDevices
Surfaces == {"chat", "cli"}
AllKinds == {"name", "skip", "done", "cancel", "init", "ignore", "label", "unlabel"}

\* Every kind that can name a device by its id; 0 stands for none.
Lines == [kind: Kinds \cap {"ignore"}, meant: {0} \cup Devices]
         \cup [kind: Kinds \cap {"label", "unlabel"}, meant: Devices]
         \cup [kind: Kinds \ {"ignore", "label", "unlabel"}, meant: {0}]

Unlabeled == <<"nobody", 0>>
Ignored   == <<"ignored", 0>>
Labels    == {Unlabeled, Ignored} \cup (Surfaces \X (0..NumDevices))

Session == [status: {"ACTIVE", "DONE", "CANCELLED", "EXPIRED"},
            cursor: 0..NumDevices, ids: Seq(Devices), last: 0..MaxMessages,
            due: BOOLEAN]                   \* due: expires_at has passed

ASSUME InitAssumption ==
    /\ NumDevices \in Nat \ {0} /\ MaxMessages \in Nat /\ MaxBatch \in Nat
    /\ MaxSessions \in Nat
    /\ Kinds \subseteq {"name", "skip", "done", "cancel", "init", "ignore", "label", "unlabel"}

VARIABLES
    labels,     \* devices.label
    sessions,   \* init_sessions of the site, by id
    inbox,      \* the operator's updates Telegram holds
    acked,      \* how many updates were confirmed before those
    batch,      \* the updates last fetched: how many, and how many are handled
    task,       \* what each surface is doing, with its local variables
    bound,      \* cli: expected_device_id (0: None)
    typed,      \* how many lines the terminal has read
    printed,    \* cli: the device of the latest prompt on the terminal
    dismissed,  \* session positions the operator gave up (skip, done, unlabel)
    used        \* <<update, session, position>> of the updates that acted on one

database == <<labels, sessions>>
terminal == <<bound, printed, typed>>
telegram == <<inbox, acked, batch>>
history  == <<dismissed, used>>
sessionVars == <<database, telegram, task, terminal, history>>

Task == [pc: {"down", "idle", "replay", "route", "current", "direct", "expire",
              "list", "create", "existing", "skip", "close", "apply", "advance",
              "move", "finish", "note", "reply", "read"},
         line: [kind: AllKinds \cup {"replay"}, meant: 0..NumDevices],
         id: 0..MaxMessages,                \* message_id (0: None)
         sid: 0..MaxSessions,               \* the session last read ...
         cursor: 0..NumDevices,             \* ... and its cursor then
         next: 0..NumDevices,               \* where _advance_to_next is to start or go
         ids: Seq(Devices),                 \* what list_present_unlabeled returned
         prompt: 0..NumDevices]             \* the device of the reply's prompt

Resting(pc) == [pc |-> pc, line |-> [kind |-> "init", meant |-> 0], id |-> 0,
                sid |-> 0, cursor |-> 0, next |-> 0, ids |-> << >>, prompt |-> 0]

-----------------------------------------------------------------------------
\* Reading the database.

StaleNever(i) == FALSE      \* mutant: no look at expires_at
\* _expire_if_stale, its condition.
Stale(i) == sessions[i].due

Active == {i \in DOMAIN sessions : sessions[i].status = "ACTIVE"}

\* _cursor_device: positions count from 0, as in the code.
DeviceAt(i, position) ==
    IF position < Len(sessions[i].ids) THEN sessions[i].ids[position + 1] ELSE 0

MismatchUnbound(s, i) == FALSE      \* mutant: expected_device_id is not compared

\* _expected_mismatch: only the CLI binds a device.
Mismatch(s, i) == s = "cli" /\ bound # 0 /\ DeviceAt(i, sessions[i].cursor) # bound

\* The snapshot positions _advance_to_next can stop at.
Open(i, from, labelsNow) ==
    {p \in from..(Len(sessions[i].ids) - 1) : labelsNow[DeviceAt(i, p)] = Unlabeled}

Least(S) == CHOOSE n \in S : \A m \in S : n <= m

Goto(s, pc) == task' = [task EXCEPT ![s].pc = pc]

\* The handler returns its reply, which may prompt for a device.
Answer(s, prompt) ==
    task' = [task EXCEPT ![s] = [Resting("reply") EXCEPT
                                     !.prompt = IF s = "cli" THEN prompt ELSE 0]]

StartOver(s) ==
    task' = [task EXCEPT ![s] = [Resting("list") EXCEPT !.id = task[s].id]]

\* Keep what get_active returned, and go on from its cursor.
Seen(s, i, pc) ==
    [task EXCEPT ![s].pc = pc, ![s].sid = i,
                 ![s].cursor = sessions[i].cursor, ![s].next = sessions[i].cursor]
See(s, i, pc) == task' = Seen(s, i, pc)

\* run_cli_session returns, or its process ends.
CliEnd ==
    /\ task' = [task EXCEPT !["cli"] = Resting("down")]
    /\ bound' = 0 /\ printed' = 0 /\ UNCHANGED typed

RememberedNever(s, i) == sessions[i].last      \* mutant: the id is not recorded

\* COALESCE(?, last_message_id): the CLI has no message id.
Remembered(s, i) == IF task[s].id = 0 THEN sessions[i].last ELSE task[s].id

Acts(s, i, position) ==
    used' = IF task[s].id = 0 THEN used ELSE used \cup {<<task[s].id, i, position>>}

-----------------------------------------------------------------------------
\* handle_inbound.

\* _replay_if_duplicate: a redelivered update only prompts again.
Replay(s) ==
    /\ task[s].pc = "replay"
    /\ \/ \E i \in Active :
             /\ task[s].id # 0 /\ sessions[i].last = task[s].id
             /\ task' = [Seen(s, i, IF Stale(i) THEN "expire" ELSE "advance")
                            EXCEPT ![s].line.kind = "replay"]
       \/ /\ \A i \in Active : task[s].id = 0 \/ sessions[i].last # task[s].id
          /\ Goto(s, "route")
    /\ UNCHANGED <<database, telegram, terminal, history>>

\* A line for the session, with the session there and within its time-box.
\* _require_active (or the handler) reads it here, the handler acts later.
ForSession(s, i, line) ==
    \/ line.kind = "init" /\ See(s, i, "advance")
    \/ line.kind = "skip" /\ See(s, i, IF Mismatch(s, i) THEN "advance" ELSE "skip")
    \/ line.kind \in {"done", "cancel"} /\ See(s, i, "close")
    \/ line.kind \in {"name", "ignore"} /\ See(s, i, "apply")

\* No session: /init starts one, the rest is answered and changes nothing.
WithoutSession(s, line) == IF line.kind = "init" THEN StartOver(s) ELSE Answer(s, 0)

\* What the command router does with a line the session did not take. The CLI
\* has no router and prints its hint.
Elsewhere(s) == IF s = "chat" THEN Goto(s, "direct") ELSE Answer(s, 0)

Route(s) ==
    /\ task[s].pc \in {"route", "current"}
    /\ LET line == task[s].line
           byId == task[s].pc = "route" /\ line.kind = "ignore" /\ line.meant # 0
       IN
       \/ /\ line.kind \in {"label", "unlabel"}
          /\ Elsewhere(s)
       \/ \* _ignore_inbound: an id that is not the cursor's is not for the session
          /\ byId
          /\ IF \E i \in Active : DeviceAt(i, sessions[i].cursor) = line.meant
             THEN Goto(s, "current")
             ELSE Elsewhere(s)
       \/ /\ line.kind \notin {"label", "unlabel"} /\ ~byId
          /\ \/ Active = {} /\ WithoutSession(s, line)
             \/ \E i \in Active : IF Stale(i) THEN See(s, i, "expire")
                                                     ELSE ForSession(s, i, line)
    /\ UNCHANGED <<database, telegram, terminal, history>>

\* /label, /unlabel and /ignore by id (commands.py, set_label).
Direct(s) ==
    /\ task[s].pc = "direct"
    /\ LET line == task[s].line
           d == line.meant
           new == IF line.kind = "label" THEN <<s, d>>
                  ELSE IF line.kind = "ignore" THEN Ignored ELSE Unlabeled
       IN  /\ labels' = [labels EXCEPT ![d] = new]
           /\ dismissed' = IF new # Unlabeled THEN dismissed
                           ELSE dismissed \cup
                                {x \in (DOMAIN sessions) \X (0..(NumDevices - 1)) :
                                     DeviceAt(x[1], x[2]) = d}
    /\ Answer(s, 0)
    /\ UNCHANGED <<sessions, telegram, terminal, used>>

\* _expire_if_stale, its write; /init then starts over.
Expire(s) ==
    /\ task[s].pc = "expire"
    /\ sessions' = [sessions EXCEPT ![task[s].sid].status = "EXPIRED"]
    /\ IF task[s].line.kind = "init" THEN StartOver(s) ELSE Answer(s, 0)
    /\ UNCHANGED <<labels, telegram, terminal, history>>

\* A set of devices in id order.
InIdOrder(S) ==
    [n \in 1..Cardinality(S) |-> CHOOSE d \in S : Cardinality({e \in S : e < d}) = n - 1]

\* start_or_resume: the snapshot is what the event log has PRESENT, here any
\* set of unlabeled devices, in id order ...
List(s) ==
    /\ task[s].pc = "list"
    /\ \E present \in SUBSET {d \in Devices : labels[d] = Unlabeled} :
          IF present = {} THEN Answer(s, 0)
          ELSE task' = [task EXCEPT ![s].pc = "create", ![s].ids = InIdOrder(present)]
    /\ UNCHANGED <<database, telegram, terminal, history>>

\* ... and the insert fails if another session is ACTIVE by now (past the bound
\* of this model, as if no device was present).
Create(s) ==
    /\ task[s].pc = "create"
    /\ \/ /\ Active = {} /\ Len(sessions) < MaxSessions
          /\ sessions' = Append(sessions,
                 [status |-> "ACTIVE", cursor |-> 0, ids |-> task[s].ids,
                  last |-> 0, due |-> FALSE])
          /\ task' = [task EXCEPT ![s].pc = "advance", ![s].sid = Len(sessions) + 1,
                                  ![s].cursor = 0, ![s].next = 0, ![s].ids = << >>]
       \/ /\ Active # {}
          /\ task' = [task EXCEPT ![s].pc = "existing", ![s].ids = << >>]
          /\ UNCHANGED sessions
       \/ /\ Active = {} /\ Len(sessions) = MaxSessions
          /\ Answer(s, 0)
          /\ UNCHANGED sessions
    /\ UNCHANGED <<labels, telegram, terminal, history>>

\* The IntegrityError: look at the session that won. If it has gone already the
\* error is re-raised: the command loop apologises, the CLI process ends.
Existing(s) ==
    /\ task[s].pc = "existing"
    /\ \/ \E i \in Active : See(s, i, "advance") /\ UNCHANGED terminal
       \/ Active = {} /\ s = "chat" /\ Answer(s, 0) /\ UNCHANGED terminal
       \/ Active = {} /\ s = "cli" /\ CliEnd
    /\ UNCHANGED <<database, telegram, history>>

\* Cursors past the snapshot are all alike: bound here at NumDevices.
Following(position) == IF position < NumDevices THEN position + 1 ELSE position

\* Mutant: SET cursor = cursor + 1, from wherever the cursor is by now.
SkipLive(s) ==
    /\ task[s].pc = "skip"
    /\ LET i == task[s].sid
           to == Following(sessions[i].cursor)
       IN  /\ sessions' = [sessions EXCEPT ![i].cursor = to, ![i].last = Remembered(s, i)]
           /\ task' = [task EXCEPT ![s].pc = "advance", ![s].cursor = to, ![s].next = to]
           /\ dismissed' = dismissed \cup {<<i, task[s].cursor>>}
           /\ Acts(s, i, task[s].cursor)
    /\ UNCHANGED <<labels, telegram, terminal>>

\* _skip, its write.
Skip(s) ==
    /\ task[s].pc = "skip"
    /\ LET i == task[s].sid
           position == task[s].cursor
       IN  /\ sessions' = [sessions EXCEPT ![i].cursor = Following(position), ![i].last = Remembered(s, i)]
           /\ task' = [task EXCEPT ![s].pc = "advance", ![s].cursor = Following(position),
                                   ![s].next = Following(position)]
           /\ dismissed' = dismissed \cup {<<i, position>>}
           /\ Acts(s, i, position)
    /\ UNCHANGED <<labels, telegram, terminal>>

\* _finish and _cancel, their write.
Close(s) ==
    /\ task[s].pc = "close"
    /\ LET i == task[s].sid
       IN  /\ sessions' = [sessions EXCEPT
                  ![i].status = IF task[s].line.kind = "done" THEN "DONE" ELSE "CANCELLED",
                  ![i].last = Remembered(s, i)]
           /\ dismissed' = dismissed \cup ({i} \X (0..(NumDevices - 1)))
    /\ Answer(s, 0)
    /\ UNCHANGED <<labels, telegram, terminal, used>>

-----------------------------------------------------------------------------
\* _apply_current: one transaction.

\* _advance_to_next inside it: the session and the reply's prompt once the
\* labels are labelsNow and the search starts at from.
Advanced(i, from, labelsNow) ==
    LET open == Open(i, from, labelsNow)
    IN  IF open = {} THEN [status |-> "DONE", cursor |-> from, prompt |-> 0]
        ELSE [status |-> "ACTIVE", cursor |-> Least(open),
              prompt |-> DeviceAt(i, Least(open))]

AnswerAdvanced(s, i, from, labelsNow, last) ==
    LET to == Advanced(i, from, labelsNow)
    IN  /\ sessions' = [sessions EXCEPT ![i].status = to.status, ![i].cursor = to.cursor,
                                        ![i].last = last]
        /\ Answer(s, to.prompt)

\* Mutant: no look at the label that is there.
LabelAnyway(s, i) ==
    LET position == sessions[i].cursor
        d == DeviceAt(i, position)
        new == IF task[s].line.kind = "ignore" THEN Ignored ELSE <<s, task[s].line.meant>>
    IN  /\ labels' = IF d # 0 THEN [labels EXCEPT ![d] = new] ELSE labels
        /\ Acts(s, i, position)
        /\ AnswerAdvanced(s, i, IF d = 0 THEN position ELSE position + 1, labels', Remembered(s, i))

\* The name, or (ignored), lands on the live cursor, if it is still the one
\* this handler read, unless the device got a label meanwhile.
Label(s, i) ==
    LET position == sessions[i].cursor
        d == DeviceAt(i, position)
        new == IF task[s].line.kind = "ignore" THEN Ignored ELSE <<s, task[s].line.meant>>
    IN  /\ labels' = IF d # 0 /\ labels[d] = Unlabeled THEN [labels EXCEPT ![d] = new]
                     ELSE labels
        /\ Acts(s, i, position)
        /\ AnswerAdvanced(s, i, IF d = 0 THEN position ELSE position + 1, labels', Remembered(s, i))

Apply(s) ==
    /\ task[s].pc = "apply"
    /\ \/ /\ Active = {}
          /\ Answer(s, 0)
          /\ UNCHANGED <<database, used>>
       \/ \E i \in Active :
             /\ Stale(i)
             /\ sessions' = [sessions EXCEPT ![i].status = "EXPIRED"]
             /\ Answer(s, 0)
             /\ UNCHANGED <<labels, used>>
       \/ \E i \in Active :
             /\ ~Stale(i)
             /\ Mismatch(s, i) \/ sessions[i].cursor # task[s].cursor
             /\ AnswerAdvanced(s, i, sessions[i].cursor, labels, sessions[i].last)
             /\ UNCHANGED <<labels, used>>
       \/ \E i \in Active :
             /\ ~Stale(i)
             /\ ~Mismatch(s, i) /\ sessions[i].cursor = task[s].cursor
             /\ Label(s, i)
    /\ UNCHANGED <<telegram, terminal, dismissed>>

-----------------------------------------------------------------------------
\* _advance_to_next outside a transaction: read, then write.

\* /init from chat notes the update last; every other reply is ready.
Prompt(s, prompt) ==
    IF task[s].line.kind = "init" /\ task[s].id # 0
    THEN task' = [task EXCEPT ![s].pc = "note"] ELSE Answer(s, prompt)

Advance(s) ==
    /\ task[s].pc = "advance"
    /\ LET i == task[s].sid
           open == Open(i, task[s].next, labels)
       IN  IF open = {} THEN Goto(s, "finish")
           ELSE IF Least(open) = task[s].cursor THEN Prompt(s, DeviceAt(i, Least(open)))
           ELSE task' = [task EXCEPT ![s].pc = "move", ![s].next = Least(open)]
    /\ UNCHANGED <<database, telegram, terminal, history>>

Move(s) ==
    /\ task[s].pc = "move"
    /\ sessions' = [sessions EXCEPT ![task[s].sid].cursor = task[s].next]
    /\ Prompt(s, DeviceAt(task[s].sid, task[s].next))
    /\ UNCHANGED <<labels, telegram, terminal, history>>

Finish(s) ==
    /\ task[s].pc = "finish"
    /\ sessions' = [sessions EXCEPT ![task[s].sid].status = "DONE"]
    /\ Prompt(s, 0)
    /\ UNCHANGED <<labels, telegram, terminal, history>>

\* _note_inbound
Note(s) ==
    /\ task[s].pc = "note"
    /\ sessions' = [sessions EXCEPT ![task[s].sid].last = task[s].id]
    /\ Answer(s, 0)
    /\ UNCHANGED <<labels, telegram, terminal, history>>

Handle(s) ==
    \/ Replay(s) \/ Route(s) \/ Direct(s) \/ Expire(s) \/ List(s) \/ Create(s)
    \/ Existing(s) \/ Skip(s) \/ Close(s) \/ Apply(s) \/ Advance(s) \/ Move(s)
    \/ Finish(s) \/ Note(s)

-----------------------------------------------------------------------------
\* The chat surface: Telegram, the long poll and the command loop.

Send(line) ==
    /\ acked + Len(inbox) < MaxMessages /\ Len(inbox) < MaxBatch
    /\ inbox' = Append(inbox, line)
    /\ UNCHANGED <<database, acked, batch, task, terminal, history>>

\* getUpdates: its offset confirms the batch that was handled, its result is
\* every update that waits.
Poll ==
    /\ task["chat"].pc = "idle" /\ batch.handled = batch.fetched
    /\ acked' = acked + batch.handled
    /\ inbox' = SubSeq(inbox, batch.handled + 1, Len(inbox))
    /\ batch' = [fetched |-> Len(inbox'), handled |-> 0]
    /\ UNCHANGED <<database, task, terminal, history>>

\* commands() yields the next update of the batch.
Yield ==
    /\ task["chat"].pc = "idle" /\ batch.handled < batch.fetched
    /\ task' = [task EXCEPT !["chat"].pc = "replay",
                            !["chat"].line = inbox[batch.handled + 1],
                            !["chat"].id = acked + batch.handled + 1]
    /\ UNCHANGED <<database, telegram, terminal, history>>

\* Mutant: the offset stays.
ChatReplyUnacked ==
    /\ task["chat"].pc = "reply"
    /\ task' = [task EXCEPT !["chat"] = Resting("idle")]
    /\ UNCHANGED <<database, telegram, terminal, history>>

\* The reply is enqueued and the loop resumes commands().
ChatReply ==
    /\ task["chat"].pc = "reply"
    /\ batch' = [batch EXCEPT !.handled = @ + 1]
    /\ task' = [task EXCEPT !["chat"] = Resting("idle")]
    /\ UNCHANGED <<database, inbox, acked, terminal, history>>

\* The daemon dies, and starts again: the offset was only in memory.
Crash ==
    /\ task["chat"].pc # "down"
    /\ task' = [task EXCEPT !["chat"] = Resting("down")]
    /\ batch' = [fetched |-> 0, handled |-> 0]
    /\ UNCHANGED <<database, inbox, acked, terminal, history>>

Restart ==
    /\ task["chat"].pc = "down"
    /\ task' = [task EXCEPT !["chat"] = Resting("idle")]
    /\ UNCHANGED <<database, telegram, terminal, history>>

-----------------------------------------------------------------------------
\* The terminal surface: run_cli_session.

CliStart ==
    /\ task["cli"].pc = "down"
    /\ task' = [task EXCEPT !["cli"].pc = "route"]
    /\ UNCHANGED <<database, telegram, terminal, history>>

\* write(reply); the loop head then reads the session again and binds the
\* device at its cursor.
CliLook ==
    /\ task["cli"].pc = "reply"
    /\ \/ Active = {} /\ CliEnd
       \/ \E i \in Active :
             /\ bound' = DeviceAt(i, sessions[i].cursor) /\ printed' = task["cli"].prompt
             /\ task' = [task EXCEPT !["cli"] = Resting("read")]
             /\ UNCHANGED typed
    /\ UNCHANGED <<database, telegram, history>>

\* A name is typed for the device on the screen.
CliRead(line) ==
    /\ task["cli"].pc = "read" /\ typed < MaxTyped /\ typed' = typed + 1
    /\ task' = [task EXCEPT !["cli"].pc = "route",
                            !["cli"].line = IF line.kind = "name"
                                            THEN [line EXCEPT !.meant = printed] ELSE line]
    /\ UNCHANGED <<database, telegram, bound, printed, history>>

\* EOF, Ctrl-C, a kill.
CliStop ==
    /\ task["cli"].pc # "down" /\ CliEnd
    /\ UNCHANGED <<database, telegram, history>>

-----------------------------------------------------------------------------

\* expires_at of a session passes.
TimeBoxPasses(i) ==
    /\ i \in Active /\ ~sessions[i].due
    /\ sessions' = [sessions EXCEPT ![i].due = TRUE]
    /\ UNCHANGED <<labels, telegram, task, terminal, history>>

SessionInit ==
    /\ labels = [d \in Devices |-> Unlabeled] /\ sessions = << >>
    /\ inbox = << >> /\ acked = 0 /\ batch = [fetched |-> 0, handled |-> 0]
    /\ task = [s \in Surfaces |-> Resting(IF s = "chat" THEN "idle" ELSE "down")]
    /\ bound = 0 /\ printed = 0 /\ typed = 0 /\ dismissed = {} /\ used = {}

Chat == Poll \/ Yield \/ Handle("chat") \/ ChatReply

Cli == CliStart \/ Handle("cli") \/ CliLook \/ CliStop
       \/ \E line \in Lines : line.kind \in CliKinds /\ CliRead(line)

SessionNext ==
    \/ Chat \/ Cli
    \/ \E line \in Lines : Send(line)
    \/ Crash \/ Restart
    \/ \E i \in DOMAIN sessions : TimeBoxPasses(i)

\* The command loop runs while the daemon lives. Nothing is assumed of the
\* terminal.
SessionSpec == SessionInit /\ [][SessionNext]_sessionVars /\ WF_sessionVars(Chat)

-----------------------------------------------------------------------------

SessionTypeOK ==
    /\ labels \in [Devices -> Labels]
    /\ \A i \in DOMAIN sessions : sessions[i] \in Session
    /\ Len(sessions) <= MaxSessions /\ Len(inbox) <= MaxBatch
    /\ acked \in 0..MaxMessages /\ batch.handled \in 0..batch.fetched
    /\ batch.fetched <= Len(inbox)
    /\ \A s \in Surfaces : task[s] \in Task
    /\ bound \in {0} \cup Devices /\ printed \in {0} \cup Devices

\* "a stale prompt cannot overwrite a label the other surface just wrote"
\* (_apply_current): a label that is there is changed only by a command that
\* names the device, however the two surfaces interleave.
LabelsAreNotOverwritten ==
    [][\A d \in Devices : labels[d] # Unlabeled /\ labels'[d] # labels[d] =>
            task["chat"].pc = "direct" /\ task["chat"].line.meant = d]_sessionVars

\* A session names nothing once its time-box has passed, though the handler
\* looked at the clock a transaction earlier (_require_active, _apply_current).
ExpiredNamesNothing ==
    [][\A d \in Devices : labels'[d] # labels[d] =>
            \/ task["chat"].pc = "direct"
            \/ \E i \in Active : ~sessions[i].due]_sessionVars

\* A session leaves no device of its snapshot behind: whatever lies before its
\* cursor, or in a session that is DONE, has a label or was given up by the
\* operator, through stale cursors, replays and crashes between two writes.
NobodyIsPassedOver ==
    \A i \in DOMAIN sessions : \A p \in 0..(Len(sessions[i].ids) - 1) :
        p < sessions[i].cursor \/ sessions[i].status = "DONE" =>
            labels[DeviceAt(i, p)] # Unlabeled \/ <<i, p>> \in dismissed

\* "Re-prompt without mutating when Telegram redelivers an update"
\* (_replay_if_duplicate): an update names or skips one device of a session.
UpdatesActOnce ==
    \A a, b \in used : a[1] = b[1] /\ a[2] = b[2] => a[3] = b[3]

\* What the code keeps for batches of any size: an update acts on a session only
\* while it is unconfirmed and the session does not remember it, and from then on
\* the session does; though the handler looked at what it remembers some
\* statements before it acts, and the terminal worked in between. So a redelivered
\* update acts again only on a session that has handled another one since
\* (_replay_if_duplicate, last_message_id).
OnlyUnrememberedUpdatesAct ==
    [][\A a \in used' \ used :
          /\ a[1] = acked + batch.handled + 1
          /\ sessions[a[2]].last # a[1] /\ sessions'[a[2]].last = a[1]]_sessionVars

\* What the CLI does keep: a name typed on the terminal goes to the device the
\* CLI bound before it read the line, whatever chat does meanwhile, and whether
\* or not it is still the same session. It binds none (0) to a session whose
\* cursor has passed its snapshot and which is not closed yet.
CliNamesWhatItBound ==
    [][\A d \in Devices : bound # 0 /\ labels'[d] # labels[d] /\ labels'[d][1] = "cli"
            => d = bound]_sessionVars

\* "CLI also binds expected_device_id to the device it printed, so a name typed
\* after chat advanced the cursor is not applied to the next snapshot member"
\* (_apply_current). A name typed with no prompt on the screen (0) is let pass.
CliNamesWhatItPrinted ==
    \A d \in Devices : labels[d][1] = "cli" => labels[d][2] \in {0, d}

\* Once the daemon stays up, every update is handled and confirmed.
UpdatesAreConfirmed ==
    <>[](task["chat"].pc # "down") =>
        \A n \in 1..MaxMessages : acked + Len(inbox) >= n ~> acked >= n

=============================================================================
