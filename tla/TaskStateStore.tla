--------------------------- MODULE TaskStateStore ---------------------------
(***************************************************************************)
(* One task in the task state store (src/CORE/scripts/task-state-store.ps1)*)
(* and in the SQLite task authority behind it                              *)
(* (src/CORE/runtime/brain_control.py).                                    *)
(*                                                                         *)
(* A writer runs under the store's mutation lock: it moves the authority   *)
(* to the next revision, appends a prepared event, replaces the task's     *)
(* files one by one, appends the committed event, writes the projection    *)
(* and acknowledges the authority's outbox row.  A contract continuity     *)
(* moves the authority after the files instead.  Each of these is a step,  *)
(* after each the process may die, and each may throw.  Reconcile reads    *)
(* journal and outbox without the lock, takes the lock for each item it    *)
(* replays, and rebuilds the projection from a journal read before it.     *)
(*                                                                         *)
(* The content of a file is the revision whose transaction brought it: a   *)
(* journal that still replays has one transaction per revision.            *)
(*                                                                         *)
(* Left out: the quarantine of a damaged task, the rebind of the files to  *)
(* another path, the restore of a snapshot and the journal's compaction.   *)
(***************************************************************************)
EXTENDS Integers, Sequences, FiniteSets

CONSTANTS
    Process,        \* scripts using the store
    None,           \* no record, no lock holder, no expected revision
    Absent,         \* the content of a file that does not exist
    Foreign,        \* the content of a file somebody else replaced
    EntityRequests, \* the entity commits callers ask for: <<kind, operation>>
    MaxRevision,    \* bound on revisions
    MaxFaults       \* bound on crashes, exceptions and outside edits together

Kinds == {"context", "checkpoint", "task_card"}

\* "terminal": what a completion leaves (completed records, receipt, seal).
Slots == Kinds \cup {"terminal"}

ASSUME TaskStateStoreAssumption ==
    /\ EntityRequests \subseteq Kinds \X {"upsert", "clear"}
    /\ {MaxRevision, MaxFaults} \subseteq Nat

Content == (1 .. MaxRevision) \cup {Absent, Foreign}

Projection == [rev: 0 .. MaxRevision, ent: [Kinds -> Content],
               life: {"open", "completed"}]

\* A transaction: what its prepared event and its outbox envelope carry.
Transaction ==
    [id: Nat \ {0},
     kind: {"entity_upsert", "entity_clear", "active_task_bundle",
            "contract_continuity", "task_completion"},
     prev: 0 .. MaxRevision - 1,
     ent: [Kinds -> Content],
     life: {"open", "completed"},
     commands: Seq(Slots),
     seen: [Slots -> Content],   \* expectedTargetHash of each target
     authority: BOOLEAN]         \* names an outbox row

Event ==
    [phase: {"prepared"}, tx: Transaction]
    \cup
    [phase: {"committed"}, id: Nat, tx: Transaction, whole: BOOLEAN]

\* A row of the outbox.
Row == [status: {"pending", "delivered", "materialized"}, tx: Transaction]

ASSUME NoneAssumption == None \notin Process \cup Nat \cup Row

VARIABLES
    journal,     \* the task's event file
    projection,  \* the task's projection file
    files,       \* the task's compatibility files
    sql,         \* head revision of the task in SQLite, or None
    outbox,      \* outbox row of each revision
    lock,        \* holder of the mutation lock
    op,          \* what each process is doing
    faults       \* faults so far

vars == <<journal, projection, files, sql, outbox, lock, op, faults>>

Idle == [pc |-> "idle"]

\* Inside the lock: mode is the entry point, left the commands to come, undo
\* the backups of targets changed so far, todo the outbox rows to come.
Running ==
    [pc: {"authority", "prepare", "write", "bind", "commit", "project",
          "deliver", "publish", "clean", "rollback"},
     mode: {"direct", "replay", "outbox"},
     tx: Transaction,
     left: Seq(Slots),
     undo: Seq([slot: Slots, before: Content]),
     todo: SUBSET (1 .. MaxRevision),
     known: (0 .. MaxRevision) \cup {None}]

Waiting ==
    [pc: {"ready"}, known: (0 .. MaxRevision) \cup {None}]
    \cup [pc: {"replay"}, tx: Transaction]
    \cup [pc: {"outbox", "rebuild"}]
    \cup [pc: {"row"}, todo: SUBSET (1 .. MaxRevision)]
    \cup [pc: {"image"}, image: Projection]

TypeOK ==
    /\ journal \in Seq(Event)
    /\ projection \in Projection
    /\ files \in [Slots -> Content]
    /\ sql \in (0 .. MaxRevision) \cup {None}
    /\ outbox \in [1 .. MaxRevision -> Row \cup {None}]
    /\ lock \in Process \cup {None}
    /\ op \in [Process -> {Idle} \cup Waiting \cup Running]
    /\ faults \in 0 .. MaxFaults

NewProjection ==
    [rev |-> 0, ent |-> [k \in Kinds |-> Absent], life |-> "open"]

Init ==
    /\ journal = <<>>
    /\ projection = NewProjection
    /\ files = [s \in Slots |-> Absent]
    /\ sql = None
    /\ outbox = [r \in 1 .. MaxRevision |-> None]
    /\ lock = None
    /\ op = [p \in Process |-> Idle]
    /\ faults = 0

----------------------------------------------------------------------------
(* The journal and what it says. *)

Target(tx) == tx.prev + 1

\* What the transaction leaves in slot s.
Desired(tx, s) == IF s = "terminal" THEN Target(tx) ELSE tx.ent[s]

Touched(tx) == {tx.commands[n] : n \in 1 .. Len(tx.commands)}

\* Mutants: the revision is counted, not taken from the transaction; the
\* lifecycle is not carried over.
ProjectedCounting(image, tx, whole) ==
    [rev |-> image.rev + 1, ent |-> tx.ent, life |-> tx.life]
ProjectedOpen(image, tx, whole) ==
    [rev |-> Target(tx), ent |-> tx.ent, life |-> image.life]

\* The projection after a transaction; an entity commit's own event carries
\* that one entity, any other event all of them.
Projected(image, tx, whole) ==
    [rev  |-> Target(tx),
     ent  |-> IF whole THEN tx.ent
              ELSE [k \in Kinds |->
                        IF k \in Touched(tx) THEN tx.ent[k] ELSE image.ent[k]],
     life |-> IF whole THEN tx.life ELSE image.life]

\* TASK_STATE_EVENT_REVISION_GAP: no event extends it.
Gap == [NewProjection EXCEPT !.rev = -1]

\* Mutant: every event is taken to carry the entities it touched only.
ExtendedByTouched(image, e) ==
    IF e.phase = "prepared" THEN image
    ELSE IF image.rev = e.tx.prev THEN Projected(image, e.tx, FALSE)
    ELSE Gap

\* The image after one more event; a prepared one changes nothing.
Extended(image, e) ==
    IF e.phase = "prepared" THEN image
    ELSE IF image.rev = e.tx.prev THEN Projected(image, e.tx, e.whole)
    ELSE Gap

ReplayOf(events) ==
    LET after[n \in 0 .. Len(events)] ==
            IF n = 0 THEN NewProjection ELSE Extended(after[n - 1], events[n])
    IN  after[Len(events)]

Replayed == ReplayOf(journal)

CommittedEvents ==
    {journal[n] : n \in {i \in 1 .. Len(journal) : journal[i].phase = "committed"}}

\* Positions of committed events that carry a revision (two, if duplicated).
CommittedAt(r) ==
    {n \in 1 .. Len(journal) :
        journal[n].phase = "committed" /\ Target(journal[n].tx) = r}

\* Prepared transactions without a committed event of their id.
Incomplete ==
    {journal[n].tx : n \in {i \in 1 .. Len(journal) :
        /\ journal[i].phase = "prepared"
        /\ \A e \in CommittedEvents : e.id # journal[i].tx.id}}

Rows == {r \in 1 .. MaxRevision : outbox[r] # None}

PendingRows == {r \in Rows : outbox[r].status # "materialized"}

Newest(rows) == CHOOSE r \in rows : \A s \in rows : s <= r
Oldest(rows) == CHOOSE r \in rows : \A s \in rows : r <= s

Holds(p, pc) == lock = p /\ op[p].pc = pc

Step(p, pc) == op' = [op EXCEPT ![p].pc = pc]

Release(p, next) ==
    /\ lock' = None
    /\ op' = [op EXCEPT ![p] = next]

----------------------------------------------------------------------------
(* Beginning a transaction. *)

\* The caller reads the revision it will compare and swap against, or asks
\* for a maintenance override without one.
Read(p) ==
    /\ op[p] = Idle
    /\ \E known \in {projection.rev, None} :
        op' = [op EXCEPT ![p] = [pc |-> "ready", known |-> known]]
    /\ UNCHANGED <<journal, projection, files, sql, outbox, lock, faults>>

\* Mutant: what is half done is not looked at.
NothingIncompleteParityOnly(known) ==
    /\ Replayed # Gap
    /\ known = None \/ CommittedEvents = {} \/ projection = Replayed

\* Assert-NoIncompleteTaskTransaction: the journal replays, nothing is half
\* done, and the projection is what the journal says unless overridden.
NothingIncomplete(known) ==
    /\ Replayed # Gap
    /\ Incomplete = {}
    /\ known = None \/ CommittedEvents = {} \/ projection = Replayed

Run(mode, pc, tx, todo, known) ==
    [pc |-> pc, mode |-> mode, tx |-> tx, left |-> tx.commands,
     undo |-> <<>>, todo |-> todo, known |-> known]

\* A fresh guid: no event and no outbox row has it.
NewId ==
    LET used == {journal[n].tx.id : n \in 1 .. Len(journal)}
                \cup {outbox[r].tx.id : r \in Rows}
    IN  CHOOSE id \in 1 .. Cardinality(used) + 1 : id \notin used

Begin(p, kind, ent, life, commands, first) ==
    LET known == op[p].known
        tx == [id |-> NewId, kind |-> kind, prev |-> projection.rev,
               ent |-> ent, life |-> life, commands |-> commands,
               seen |-> files, authority |-> FALSE]
    IN  /\ op[p].pc = "ready"
        /\ lock = None
        /\ NothingIncomplete(known)
        /\ known \in {None, projection.rev}
        /\ projection.life = "open"
        /\ projection.rev < MaxRevision
        /\ lock' = p
        /\ op' = [op EXCEPT ![p] = Run("direct", first, tx, {}, known)]
        /\ UNCHANGED <<journal, projection, files, sql, outbox, faults>>

New == projection.rev + 1

\* Commit-Entity.
CommitEntity(p, kind, operation) ==
    LET ent == [projection.ent EXCEPT
                    ![kind] = IF operation = "clear" THEN Absent ELSE New]
    IN  /\ operation = "clear" => projection.ent[kind] # Absent
        /\ Begin(p, IF operation = "clear" THEN "entity_clear"
                    ELSE "entity_upsert",
                 ent, "open", <<kind>>, "authority")

\* Commit-ActiveTaskBundle.
CommitActiveTaskBundle(p) ==
    /\ op[p].pc = "ready" /\ op[p].known # None
    /\ Begin(p, "active_task_bundle",
             [projection.ent EXCEPT !["checkpoint"] = New, !["task_card"] = New],
             "open", <<"checkpoint", "task_card">>, "authority")

\* Commit-ContractContinuity; the contract file and the pointers go with the
\* context.
CommitContractContinuity(p, checkpointToo) ==
    LET commands == <<"context">>
                    \o (IF checkpointToo THEN <<"checkpoint">> ELSE <<>>)
                    \o <<"task_card">>
        changed == {commands[n] : n \in 1 .. Len(commands)}
    IN  /\ op[p].pc = "ready" /\ op[p].known # None
        /\ projection.ent["task_card"] # Absent
        /\ checkpointToo => projection.ent["checkpoint"] # Absent
        /\ Begin(p, "contract_continuity",
                 [k \in Kinds |-> IF k \in changed THEN New
                                  ELSE projection.ent[k]],
                 "open", commands, "prepare")

\* Complete-TaskState: the active records, wherever they are, are removed
\* after the completed ones are written.
CompleteTaskState(p) ==
    LET active(k) == IF files[k] = Absent THEN <<>> ELSE <<k>>
    IN  /\ op[p].pc = "ready" /\ op[p].known # None
        /\ projection.ent["checkpoint"] # Absent
        /\ projection.ent["task_card"] # Absent
        /\ \A k \in Kinds : projection.ent[k] # Absent
                                => files[k] = projection.ent[k]
        /\ Begin(p, "task_completion", [k \in Kinds |-> Absent], "completed",
                 <<"terminal">> \o active("context") \o active("checkpoint")
                                \o active("task_card"),
                 "authority")

----------------------------------------------------------------------------
(* The end of a run, good or bad. *)

\* What a process does after an item it gave up or finished: a caller is done;
\* Reconcile skips the outbox of a task whose replay was blocked.
Next_(p, done) ==
    CASE op[p].mode = "direct" -> Idle
      [] op[p].mode = "replay" -> [pc |-> IF done THEN "outbox" ELSE "rebuild"]
      [] op[p].mode = "outbox" ->
            LET rest == op[p].todo \ {Target(op[p].tx)}
            IN  IF rest = {} THEN [pc |-> "rebuild"]
                ELSE [pc |-> "row", todo |-> rest]

Entity(tx) == tx.kind \in {"entity_upsert", "entity_clear"}

\* An exception, or a check that fails, before the committed event: the
\* targets changed so far are restored, if there are any.  The replay of an
\* entity has no handler, so its exception ends Reconcile.
Unwind(p) ==
    IF op[p].undo # <<>> /\ ~(op[p].mode = "replay" /\ Entity(op[p].tx))
    THEN /\ op' = [op EXCEPT ![p].pc = "rollback"]
         /\ UNCHANGED lock
    ELSE Release(p, IF op[p].mode = "replay" /\ Entity(op[p].tx) THEN Idle
                    ELSE Next_(p, FALSE))

\* Mutant: a target is removed, not restored from its backup.
RollbackRemoves(p) ==
    LET rest == Tail(op[p].undo)
    IN  /\ Holds(p, "rollback")
        /\ files' = [files EXCEPT ![Head(op[p].undo).slot] = Absent]
        /\ IF rest = <<>> THEN Release(p, Next_(p, FALSE))
           ELSE op' = [op EXCEPT ![p].undo = rest] /\ UNCHANGED lock
        /\ UNCHANGED <<journal, projection, sql, outbox, faults>>

\* Restore-TaskMaterialization: last target first, and only where it still
\* is what the transaction left.
Rollback(p) ==
    LET last == Head(op[p].undo)
        rest == Tail(op[p].undo)
        s == last.slot
    IN  /\ Holds(p, "rollback")
        /\ files' = IF files[s] = Desired(op[p].tx, s)
                    THEN [files EXCEPT ![s] = last.before] ELSE files
        /\ IF rest = <<>> THEN Release(p, Next_(p, FALSE))
           ELSE op' = [op EXCEPT ![p].undo = rest] /\ UNCHANGED lock
        /\ UNCHANGED <<journal, projection, sql, outbox, faults>>

----------------------------------------------------------------------------
(* The steps of a transaction. *)

\* Apply-TaskAuthorityTransition on a task whose head is the revision before.
Apply(tx) ==
    /\ sql = tx.prev
    /\ sql' = Target(tx)
    /\ outbox' = [outbox EXCEPT ![Target(tx)] =
                    [status |-> "pending", tx |-> [tx EXCEPT !.authority = TRUE]]]

\* Ensure-TaskAuthorityAggregate: a task SQLite has not seen is imported.
Import(tx) == sql = None /\ sql' = tx.prev /\ UNCHANGED outbox

\* Entities and bundles move the authority if there is one, a completion
\* always does.
Authority(p) ==
    LET tx == op[p].tx
    IN  /\ Holds(p, "authority")
        /\ \/ /\ tx.kind # "task_completion" /\ sql = None
              /\ Step(p, "prepare") /\ UNCHANGED <<sql, outbox, lock>>
           \/ /\ tx.kind = "task_completion" /\ Import(tx)
              /\ UNCHANGED <<op, lock>>
           \/ /\ Apply(tx)
              /\ op' = [op EXCEPT ![p].pc = "prepare", ![p].tx.authority = TRUE]
              /\ UNCHANGED lock
           \/ /\ sql \notin {None, tx.prev}
              /\ Release(p, Idle) /\ UNCHANGED <<sql, outbox>>
        /\ UNCHANGED <<journal, projection, files, faults>>

Prepare(p) ==
    /\ Holds(p, "prepare")
    /\ journal' = Append(journal, [phase |-> "prepared", tx |-> op[p].tx])
    /\ Step(p, "write")
    /\ UNCHANGED <<projection, files, sql, outbox, lock, faults>>

\* One command.  The replay of an entity neither overwrites a target that has
\* drifted nor, for a clear, accepts that it is done already.
WriteFile(p) ==
    LET tx == op[p].tx
        s == Head(op[p].left)
        rest == Tail(op[p].left)
        after == IF rest # <<>> THEN "write"
                 ELSE IF tx.kind = "contract_continuity" /\ op[p].mode # "outbox"
                 THEN "bind" ELSE "commit"
        done == /\ files[s] = Desired(tx, s)
                /\ ~ /\ op[p].mode = "replay" /\ tx.kind = "entity_clear"
                     /\ files[s] # tx.seen[s]
    IN  /\ Holds(p, "write")
        /\ \/ /\ done
              /\ op' = [op EXCEPT ![p].pc = after, ![p].left = rest]
              /\ UNCHANGED <<files, lock>>
           \/ /\ ~done /\ files[s] = tx.seen[s]
              /\ files' = [files EXCEPT ![s] = Desired(tx, s)]
              /\ op' = [op EXCEPT ![p].pc = after, ![p].left = rest,
                            ![p].undo = <<[slot |-> s, before |-> files[s]]>> \o @]
              /\ UNCHANGED lock
           \/ /\ ~done /\ files[s] # tx.seen[s]
              /\ IF op[p].mode = "replay" /\ Entity(tx)
                 THEN Release(p, Next_(p, FALSE)) ELSE Unwind(p)
              /\ UNCHANGED files
        /\ UNCHANGED <<journal, projection, sql, outbox, faults>>

\* The last look at the files.
Verified(tx) ==
    /\ tx.kind = "task_completion" =>
        /\ files["terminal"] = Target(tx)
        /\ \A k \in Kinds : files[k] = Absent
    /\ tx.kind \in {"active_task_bundle", "contract_continuity"} =>
        \A s \in Touched(tx) : files[s] = Desired(tx, s)

\* Test-TaskAuthorityMaterializedEntities.
EntitiesThere(tx) ==
    \A k \in Kinds : tx.ent[k] # Absent => files[k] = tx.ent[k]

\* A continuity moves the authority now.  Its replay takes an authority that
\* is already at the target revision for its own.
Bind(p) ==
    LET tx == op[p].tx
        adopt == op[p].mode = "replay" /\ sql = Target(tx)
    IN  /\ Holds(p, "bind")
        /\ \/ /\ Verified(tx) /\ Import(tx) /\ UNCHANGED <<op, lock>>
           \/ /\ Verified(tx) /\ Apply(tx)
              /\ op' = [op EXCEPT ![p].pc = "commit", ![p].tx.authority = TRUE]
              /\ UNCHANGED lock
           \/ /\ Verified(tx) /\ adopt
              /\ op' = [op EXCEPT ![p].pc = "commit", ![p].tx.authority = TRUE]
              /\ UNCHANGED <<sql, outbox, lock>>
           \/ /\ ~Verified(tx) \/ (sql \notin {None, tx.prev} /\ ~adopt)
              /\ Unwind(p) /\ UNCHANGED <<sql, outbox>>
        /\ UNCHANGED <<journal, projection, files, faults>>

Whole(p) == op[p].mode = "outbox" \/ ~Entity(op[p].tx)

\* The id an event is written under: an outbox row knows the transaction id
\* of a completion only.
EventId(p) ==
    IF op[p].mode = "outbox" /\ op[p].tx.kind # "task_completion" THEN 0
    ELSE op[p].tx.id

Committed(p) ==
    [phase |-> "committed", id |-> EventId(p), tx |-> op[p].tx, whole |-> Whole(p)]

\* The outbox uses the event of its revision if there is one.
CommitEvent(p) ==
    LET tx == op[p].tx
        existing == IF op[p].mode = "outbox" THEN CommittedAt(Target(tx)) ELSE {}
        checked == /\ tx.kind # "contract_continuity" \/ op[p].mode = "outbox"
                        => Verified(tx)
                   /\ op[p].mode = "outbox" =>
                        EntitiesThere(tx) /\ Cardinality(existing) <= 1
    IN  /\ Holds(p, "commit")
        /\ \/ /\ checked
              /\ journal' = IF existing = {} THEN Append(journal, Committed(p))
                            ELSE journal
              /\ Step(p, "project") /\ UNCHANGED lock
           \/ ~checked /\ Unwind(p) /\ UNCHANGED journal
        /\ UNCHANGED <<projection, files, sql, outbox, faults>>

Project(p) ==
    /\ Holds(p, "project")
    /\ projection' = Projected(projection, op[p].tx, Whole(p))
    /\ Step(p, IF op[p].tx.authority THEN "deliver" ELSE "clean")
    /\ UNCHANGED <<journal, files, sql, outbox, lock, faults>>

\* Mutant: files are restored whenever something fails.
FailLateUnwinds(p) == Unwind(p)

\* After the committed event a direct writer reports the failure, a replay
\* counts it as blocked; the continuity writer restores its files.
FailLate(p) ==
    IF op[p].mode = "direct" /\ op[p].tx.kind = "contract_continuity"
    THEN Unwind(p)
    ELSE Release(p, Next_(p, FALSE))

\* Acknowledge-TaskAuthorityOutbox, first half: the projection is recorded as
\* delivered.  A row that is materialized already needs nothing.  The receipt
\* holds the projection's hash, and a second one must agree with it: it does
\* not if the file was written again, at whatever time that was.
Deliver(p) ==
    LET r == Target(op[p].tx)
    IN  /\ Holds(p, "deliver")
        /\ \/ /\ IF outbox[r].status = "materialized" THEN UNCHANGED outbox
                 ELSE outbox' = [outbox EXCEPT ![r].status = "delivered"]
              /\ Step(p, "publish") /\ UNCHANGED lock
           \/ outbox[r].status = "delivered" /\ FailLate(p) /\ UNCHANGED outbox
        /\ UNCHANGED <<journal, projection, files, sql, faults>>

\* Mutant: the row is published whatever the others are waiting for.
PublishAlone(p) ==
    LET r == Target(op[p].tx)
    IN  /\ Holds(p, "publish")
        /\ outbox' = [outbox EXCEPT ![r].status = "materialized"]
        /\ Step(p, "clean")
        /\ UNCHANGED <<journal, projection, files, sql, lock, faults>>

\* Second half: delivered rows are published together, unless some row's
\* projection is still missing; the newest row must have come through.
Publish(p) ==
    LET published ==
            [r \in 1 .. MaxRevision |->
                IF outbox[r] # None
                   /\ \A s \in Rows : outbox[s].status # "pending"
                THEN [outbox[r] EXCEPT !.status = "materialized"] ELSE outbox[r]]
        r == Target(op[p].tx)
    IN  /\ Holds(p, "publish")
        /\ outbox' = published
        /\ IF published[r].status = "materialized" /\ r = Newest(Rows)
           THEN Step(p, "clean") /\ UNCHANGED lock
           ELSE FailLate(p)
        /\ UNCHANGED <<journal, projection, files, sql, faults>>

\* Staged payloads and backups are removed; nothing to model but its failing.
CleanUp(p) ==
    /\ Holds(p, "clean")
    /\ Release(p, Next_(p, TRUE))
    /\ UNCHANGED <<journal, projection, files, sql, outbox, faults>>

----------------------------------------------------------------------------
(* Reconcile -Apply, Rebuild -Apply. *)

\* The journal is read once, without the lock; a gap in it is an exception.
ReconcileRead(p) ==
    /\ op[p] = Idle
    /\ Replayed # Gap
    /\ \/ \E tx \in Incomplete :
            op' = [op EXCEPT ![p] = [pc |-> "replay", tx |-> tx]]
       \/ /\ Incomplete = {}
          /\ op' = [op EXCEPT ![p] = [pc |-> "outbox"]]
    /\ UNCHANGED <<journal, projection, files, sql, outbox, lock, faults>>

\* Complete-PreparedTransaction looks at the projection's revision.
ReplayBegin(p) ==
    /\ op[p].pc = "replay"
    /\ lock = None
    /\ IF projection.rev = op[p].tx.prev
       THEN /\ lock' = p
            /\ op' = [op EXCEPT ![p] = Run("replay", "write", op[p].tx, {}, None)]
       ELSE /\ op' = [op EXCEPT ![p] = [pc |-> "rebuild"]]
            /\ UNCHANGED lock
    /\ UNCHANGED <<journal, projection, files, sql, outbox, faults>>

OutboxRead(p) ==
    /\ op[p].pc = "outbox"
    /\ op' = [op EXCEPT ![p] = IF PendingRows = {} THEN [pc |-> "rebuild"]
                               ELSE [pc |-> "row", todo |-> PendingRows]]
    /\ UNCHANGED <<journal, projection, files, sql, outbox, lock, faults>>

\* Complete-TaskAuthorityOutbox, oldest row first.
OutboxBegin(p) ==
    LET todo == op[p].todo
        r == Oldest(todo)
        rest == todo \ {r}
    IN  /\ op[p].pc = "row"
        /\ lock = None
        /\ IF projection.rev \in {r - 1, r}
           THEN /\ lock' = p
                /\ op' = [op EXCEPT ![p] =
                            Run("outbox", "write", outbox[r].tx, todo, None)]
           ELSE /\ op' = [op EXCEPT ![p] = IF rest = {} THEN [pc |-> "rebuild"]
                                           ELSE [pc |-> "row", todo |-> rest]]
                /\ UNCHANGED lock
        /\ UNCHANGED <<journal, projection, files, sql, outbox, faults>>

\* Get-TaskAuthoritySnapshotRestorePlan: withheld while the newest outbox row
\* is not materialized or says something else than the journal.
AuthorityAgrees ==
    Rows = {} \/ LET row == outbox[Newest(Rows)]
                 IN  /\ row.status = "materialized"
                     /\ Replayed = Projected(Replayed, row.tx, TRUE)

\* Rebuild-Store, called by Reconcile or alone, computes the image without
\* the lock ...
RebuildRead(p) ==
    /\ op[p].pc \in {"rebuild", "idle"}
    /\ op' = [op EXCEPT ![p] =
                IF Replayed # Gap /\ AuthorityAgrees /\ CommittedEvents # {}
                THEN [pc |-> "image", image |-> Replayed] ELSE Idle]
    /\ UNCHANGED <<journal, projection, files, sql, outbox, lock, faults>>

\* ... and writes it under the lock.
RebuildWrite(p) ==
    /\ op[p].pc = "image"
    /\ lock = None
    /\ projection' = op[p].image
    /\ op' = [op EXCEPT ![p] = Idle]
    /\ UNCHANGED <<journal, files, sql, outbox, lock, faults>>

----------------------------------------------------------------------------
(* What goes wrong. *)

\* An exception at the step p is about to take.
Fail(p) ==
    /\ lock = p /\ faults < MaxFaults
    /\ CASE op[p].pc \in {"authority", "prepare"} -> Release(p, Idle)
         [] op[p].pc \in {"write", "bind", "commit"} -> Unwind(p)
         [] op[p].pc \in {"project", "deliver", "publish", "clean"} ->
                IF op[p].mode = "replay" /\ Entity(op[p].tx)
                THEN Release(p, Idle) ELSE FailLate(p)
         [] op[p].pc = "rollback" -> Release(p, Next_(p, FALSE))
    /\ faults' = faults + 1
    /\ UNCHANGED <<journal, projection, files, sql, outbox>>

\* The process dies; its lock goes stale.
Crash(p) ==
    /\ lock = p /\ faults < MaxFaults
    /\ Release(p, Idle)
    /\ faults' = faults + 1
    /\ UNCHANGED <<journal, projection, files, sql, outbox>>

\* MEMORY_LOCK_TIMEOUT, or the process dies between two locks.
GiveUp(p) ==
    /\ op[p] # Idle /\ lock # p
    /\ op' = [op EXCEPT ![p] = Idle]
    /\ UNCHANGED <<journal, projection, files, sql, outbox, lock, faults>>

\* Somebody else writes one of the task's files.
OutsideEdit ==
    /\ faults < MaxFaults
    /\ \E k \in Kinds : files' = [files EXCEPT ![k] = Foreign]
    /\ faults' = faults + 1
    /\ UNCHANGED <<journal, projection, sql, outbox, lock, op>>

Next ==
    \/ \E p \in Process :
        \/ Read(p)
        \/ \E request \in EntityRequests :
            CommitEntity(p, request[1], request[2])
        \/ CommitActiveTaskBundle(p)
        \/ \E checkpointToo \in BOOLEAN :
            CommitContractContinuity(p, checkpointToo)
        \/ CompleteTaskState(p)
        \/ Authority(p) \/ Prepare(p) \/ WriteFile(p) \/ Bind(p)
        \/ CommitEvent(p) \/ Project(p) \/ Deliver(p) \/ Publish(p)
        \/ CleanUp(p) \/ Rollback(p)
        \/ ReconcileRead(p) \/ ReplayBegin(p) \/ OutboxRead(p)
        \/ OutboxBegin(p) \/ RebuildRead(p) \/ RebuildWrite(p)
        \/ Fail(p) \/ Crash(p) \/ GiveUp(p)
    \/ OutsideEdit

Spec == Init /\ [][Next]_vars

----------------------------------------------------------------------------
(* Correctness. *)

Replayable == Replayed # Gap

\* Refuted, like those at the end: what the outbox reports as
\* delivered is what was committed at its revision.
DeliveredIsCommitted ==
    Replayable =>
        \A r \in Rows : outbox[r].status = "materialized" =>
            \E n \in CommittedAt(r) :
                journal[n].tx.ent = outbox[r].tx.ent
                /\ journal[n].tx.life = outbox[r].tx.life

\* At no time are two transactions half done: Assert-NoIncompleteTaskTransaction
\* and the lock keep a writer out until the one before it has its committed
\* event, however that came about.
OneTransactionAtATime == Cardinality(Incomplete) <= 1

\* After the event that completes the task the journal carries no event of
\* another transaction: neither a writer that was waiting nor a recovery
\* that read the journal earlier opens the task again.
CompletionIsFinal ==
    Replayable =>
        \A m, n \in 1 .. Len(journal) :
            /\ m < n
            /\ journal[m].phase = "committed"
            /\ journal[m].tx.kind = "task_completion"
            => journal[n].tx = journal[m].tx

\* What was committed at a revision is what the authority accepted for it.
CommittedAsAccepted ==
    \A r \in Rows : \A n \in CommittedAt(r) :
        journal[n].tx.ent = outbox[r].tx.ent /\ journal[n].tx.life = outbox[r].tx.life

\* What the journal was replayed to, at one time or another.
Replays == {ReplayOf(SubSeq(journal, 1, n)) : n \in 0 .. Len(journal)}

\* Whatever order crashes, replays and rebuilds come in, the projection file
\* is the replay of some part of the journal: a reader may be behind, never
\* on a mixture of two revisions or on files that were rolled back.  (Once one
\* transaction was committed at the revision the authority gave to another, a
\* late replay of the outbox row writes the image nobody committed.)
ProjectionIsAReplay ==
    Replayable /\ CommittedAsAccepted => projection \in Replays

\* No revision is published before an older one: a reader of the published
\* snapshot never sees a task jump over a revision it will be shown later,
\* however late the older one is delivered.
DeliveredInOrder ==
    \A r, s \in Rows :
        s < r /\ outbox[r].status = "materialized"
            => outbox[s].status = "materialized"

\* The transactions something durable tells of.
JournalTx == {journal[n].tx : n \in 1 .. Len(journal)}
Recorded == JournalTx \cup {outbox[r].tx : r \in Rows}

\* Nothing is written into or put back over a file that the journal or the
\* outbox does not account for: a file changes from what a recorded transaction
\* saw to what it leaves there, or back.
ChangesAreRecorded ==
    \A s \in Slots : files'[s] \notin {files[s], Foreign} =>
        \E t \in Recorded :
            s \in Touched(t) /\ {files[s], files'[s]} = {t.seen[s], Desired(t, s)}

\* An event is committed when every file it speaks of is written.
CommittedIsWritten ==
    LET n == Len(journal')
    IN  n > Len(journal) /\ journal'[n].phase = "committed" =>
            \A s \in Touched(journal'[n].tx) :
                files[s] \in {Desired(journal'[n].tx, s), Foreign}

\* The writer of a committed transaction leaves the files alone.
CommittedStays ==
    \A p \in Process : \A e \in CommittedEvents :
        /\ lock = p /\ op[p].mode = "direct" /\ e.tx.id = op[p].tx.id
        /\ op[p].tx.kind # "contract_continuity"
        => \A s \in Slots : files'[s] \in {files[s], Foreign}

\* The files follow the journal, whatever writers, replays, rollbacks, late
\* deliveries and outside edits come in between.  A continuity is excepted:
\* its writer may put files back after its committed event
\* (RollbackBeforeCommit).
FilesFollowJournal ==
    [][ChangesAreRecorded /\ CommittedIsWritten /\ CommittedStays]_<<files, journal>>

\* What a prepared event promises recovery.  At whichever instant its writer
\* dies, each of its targets is as the writer found it, as it will be, or
\* somebody else's; and as long as no event of its revision is committed the
\* journal still ends at the revision before it, even if others replay,
\* rebuild or deliver in between.
PreparedCanBeReplayed ==
    /\ \A p \in Process : lock = p /\ op[p].mode = "direct" =>
            \A s \in Touched(op[p].tx) :
                files[s] \in {op[p].tx.seen[s], Desired(op[p].tx, s), Foreign}
    /\ Replayable =>
        \A tx \in Incomplete :
            CommittedAt(Target(tx)) = {} => Replayed.rev = tx.prev

\* The whole store, with its crashes, replays, rebuilds and half done
\* transactions, implements the log of TaskLog: the image is what the journal
\* replays to, the accepted revision is the head in SQLite, and the published
\* one is the newest outbox row whose delivery was made final.
Published == {r \in Rows : outbox[r].status = "materialized"}

Log == INSTANCE TaskLog WITH
           image <- Replayed,
           accepted <- sql,
           published <- IF Published = {} THEN 0 ELSE Newest(Published),
           broken <- ~Replayable

ImplementsLog == Log!LogSpec

----------------------------------------------------------------------------
(* Refuted. *)

\* No transaction is being rolled back once its committed event is durable.
RollbackBeforeCommit ==
    \A p \in Process : lock = p /\ op[p].pc = "rollback" =>
        \A e \in CommittedEvents : e.id # op[p].tx.id

\* The journal replays: no two events carry the same revision.
JournalReplays == Replayable
=============================================================================
