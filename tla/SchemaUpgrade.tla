---------------------------- MODULE SchemaUpgrade ----------------------------
(***************************************************************************)
(* Opening the SQLite authority (brain_control.py, _connection): every     *)
(* call opens the database and first brings its schema up to date.         *)
(* _migrate reads which versions are recorded, runs the scripts of those   *)
(* that are not, and records each one after its script.  The connection is *)
(* in autocommit mode and executescript opens no transaction, so every     *)
(* statement commits by itself: a process may die between any two, and     *)
(* another may open the database in between.                               *)
(*                                                                         *)
(* Versions 1 to 3 create tables that must not be there yet, the others    *)
(* skip what is there; version 17 renames the two retention tables, makes  *)
(* new ones, copies the rows and drops the old.  Indexes and triggers come *)
(* and go with their tables and are left out, so is the search index that  *)
(* version 8 fills.                                                        *)
(***************************************************************************)
EXTENDS Naturals, Sequences, FiniteSets, SequencesExt

CONSTANTS Opener,        \* processes that open the database
          StartVersion,  \* the newest version older releases left
          TaskRow,       \* tasks with a retention row
          MaxOpens, MaxSweeps   \* bounds

ASSUME SchemaAssumption == /\ StartVersion \subseteq 0 .. 18
                           /\ MaxOpens \in Nat /\ MaxSweeps \in Nat \ {0}

VARIABLES objects,   \* the tables and late columns that exist
          recorded,  \* schema_migrations
          rows,      \* the rows of the retention tables, by table name
          openers,   \* each process: the versions it read, where it is in _migrate
          opens,     \* times the database was opened
          kept       \* history: retention rows and receipts ever written, and whether
                     \* an opening broke off while it replaced their tables

schemaVars == <<objects, recorded, rows, openers, opens, kept>>

Newest == 18
TaskCards == "ui_task_card_retention"
TaskReceipts == "ui_task_retention_receipts"
OldTaskCards == "ui_task_card_retention_v1"
OldTaskReceipts == "ui_task_retention_receipts_v1"
Retention == {TaskCards, TaskReceipts, OldTaskCards, OldTaskReceipts}

(***************************************************************************)
(* The statements                                                          *)
(***************************************************************************)
Statement(op, on, to) == [op |-> op, on |-> on, to |-> to]
Each(op, names) == [i \in DOMAIN names |-> Statement(op, names[i], "")]
Create(names) == Each("create", names)             \* CREATE TABLE
Ensure(names) == Each("ensure", names)             \* ... IF NOT EXISTS
AddColumns(names) == <<Statement("look", "", "")>> \o Each("alter", names)
RecordOf(v) == <<[op |-> "record", on |-> v, to |-> ""]>>

CardTables ==
    Create(<<"cards", "card_revisions", "command_log", "events", "outbox">>)
IntentTables ==
    Create(<<"intent_aggregates", "intent_contract_revisions", "intent_receipts">>)
TaskTables == Create(<<"task_aggregates", "task_state_revisions">>)
StateColumn == AddColumns(<<"card_revisions.state_json">>)
DecisionTables == 
    Ensure(<<"decision_resolution_receipts", "decision_resolution_items",
             "decision_completion_results">>)
DeliveryColumn == AddColumns(<<"outbox.delivery_version">>)
DeliveryTables == Ensure(<<"outbox_deliveries">>)
BindingColumns == AddColumns(<<"decision_resolution_receipts.workline_id",
                               "decision_resolution_receipts.intent_fingerprint">>)
PrivacyTables == 
    Ensure(<<"card_search", "card_privacy_tombstones", "ui_purge_previews",
             "ui_purge_requests">>)
DraftTable == Ensure(<<"ui_drafts">>)
RetentionTables ==
    Ensure(<<"ui_task_retention_settings", TaskCards, TaskReceipts>>)
SourceLinkTable == Ensure(<<"card_source_links">>)
AnchorTable == Ensure(<<"instruction_anchors">>)
ContinuationTable == Ensure(<<"continuation_receipts">>)
MigrationTables == 
    Ensure(<<"migration_epochs", "migration_records", "migration_events",
             "migration_adapters">>)
IntentRebindTable == Ensure(<<"intent_session_rebinds">>)
TaskRebindTable == Ensure(<<"task_session_rebinds">>)
SetAside(t, old) == Statement("rename", t, old)
CopyCards == Statement("copy", OldTaskCards, TaskCards)
CopyReceipts == Statement("copy", OldTaskReceipts, TaskReceipts)
DropOld(old) == Statement("drop", old, "")
NewRetentionTables ==
    << SetAside(TaskCards, OldTaskCards), SetAside(TaskReceipts, OldTaskReceipts),
       Statement("create", TaskCards, ""), CopyCards,
       Statement("create", TaskReceipts, ""), CopyReceipts,
       Statement("create", "ui_task_completion_evidence", ""),
       DropOld(OldTaskCards), DropOld(OldTaskReceipts) >>
LocalRebindTables ==
    Ensure(<<"local_rebind_transactions", "local_rebind_events">>)

\* The script of a version.
ScriptOf ==
    << CardTables, IntentTables, TaskTables, <<>>, <<>>, DeliveryTables, <<>>,
       PrivacyTables, DraftTable, RetentionTables, SourceLinkTable, AnchorTable,
       ContinuationTable, MigrationTables, IntentRebindTable, TaskRebindTable,
       NewRetentionTables, LocalRebindTables >>

\* What every opening does, whatever is recorded, before a version's own script.
EveryTime(v) == CASE v = 4 -> StateColumn
               [] v = 5 -> DecisionTables
               [] v = 6 -> DeliveryColumn
               [] v = 7 -> BindingColumns
               [] OTHER -> <<>>

\* Mutant: a version is recorded before its script.
RecordedFirst(v) == RecordOf(v) \o ScriptOf[v]

Version(v) == ScriptOf[v] \o RecordOf(v)

\* _migrate at a version, for the versions it found recorded.
Upgrade(applied, v) ==
    EveryTime(v) \o (IF v \in applied THEN <<>> ELSE Version(v))

\* The first version from v on that it has something to do for.
FirstDue(applied, v) ==
    Min({u \in v .. Newest : Upgrade(applied, u) # <<>>} \cup {Newest + 1})

LateColumns == {"card_revisions.state_json", "outbox.delivery_version",
                "decision_resolution_receipts.workline_id",
                "decision_resolution_receipts.intent_fingerprint"}

(***************************************************************************)
(* Opening                                                                 *)
(***************************************************************************)
Closed == [applied |-> {}, version |-> 0, at |-> 0, found |-> {}]

Opening(p) == openers[p].version \in 1 .. Newest
IsOpen(p) == openers[p].version = Newest + 1
Now(p) == Upgrade(openers[p].applied, openers[p].version)[openers[p].at]
IsAt(p, op) == Opening(p) /\ Now(p).op = op

\* One statement further, in the same version or in the next that is due.
Further(o) ==
    IF o.at < Len(Upgrade(o.applied, o.version))
    THEN [o EXCEPT !.at = @ + 1]
    ELSE [o EXCEPT !.version = FirstDue(o.applied, @ + 1), !.at = 1]

Proceed(p) == openers' = [openers EXCEPT ![p] = Further(@)]

Open(p) ==
    /\ openers[p] = Closed /\ opens < MaxOpens
    /\ opens' = opens + 1
    /\ openers' =
         [openers EXCEPT ![p] = [applied |-> recorded,
                                 version |-> FirstDue(recorded, 1), at |-> 1,
                                 found   |-> {}]]
    /\ UNCHANGED <<objects, recorded, rows, kept>>

\* A new table has the columns that an older release made it without.
WithColumns(t) ==
    {t} \cup (CASE t = "outbox" -> {DeliveryColumn[2].on}
              [] t = "decision_resolution_receipts" ->
                   {BindingColumns[2].on, BindingColumns[3].on}
              [] OTHER -> {})

\* A table is made; it is an error if it is there, but for IF NOT EXISTS.
MakeTable(p) ==
    /\ IsAt(p, "create") \/ IsAt(p, "ensure")
    /\ IsAt(p, "create") => Now(p).on \notin objects
    /\ objects' = objects \cup (IF Now(p).on \in objects THEN {}
                                ELSE WithColumns(Now(p).on))
    /\ Proceed(p)
    /\ UNCHANGED <<recorded, rows, opens, kept>>

\* PRAGMA table_info, then ALTER TABLE if the column was missing.
LookForColumns(p) ==
    /\ IsAt(p, "look")
    /\ openers' =
         [openers EXCEPT ![p] = [Further(@) EXCEPT !.found = objects \cap LateColumns]]
    /\ UNCHANGED <<objects, recorded, rows, opens, kept>>

AlterTable(p) ==
    /\ IsAt(p, "alter")
    /\ Now(p).on \in openers[p].found \/ Now(p).on \notin objects
    /\ objects' = objects \cup {Now(p).on}
    /\ Proceed(p)
    /\ UNCHANGED <<recorded, rows, opens, kept>>

RenameTable(p) ==
    LET from == Now(p).on
        to   == Now(p).to
    IN /\ IsAt(p, "rename") /\ from \in objects /\ to \notin objects
       /\ objects' = (objects \ {from}) \cup {to}
       /\ rows' = [rows EXCEPT ![to] = rows[from], ![from] = {}]
       /\ Proceed(p)
       /\ UNCHANGED <<recorded, opens, kept>>

\* INSERT ... SELECT: no row may be there twice.
CopyRows(p) ==
    LET from == Now(p).on
        to   == Now(p).to
    IN /\ IsAt(p, "copy") /\ {from, to} \subseteq objects
       /\ rows[from] \cap rows[to] = {}
       /\ rows' = [rows EXCEPT ![to] = @ \cup rows[from]]
       /\ Proceed(p)
       /\ UNCHANGED <<objects, recorded, opens, kept>>

DropTable(p) ==
    /\ IsAt(p, "drop") /\ Now(p).on \in objects
    /\ objects' = objects \ {Now(p).on}
    /\ rows' = [rows EXCEPT ![Now(p).on] = {}]
    /\ Proceed(p)
    /\ UNCHANGED <<recorded, opens, kept>>

RecordVersion(p) ==
    /\ IsAt(p, "record") /\ Now(p).on \notin recorded
    /\ recorded' = recorded \cup {Now(p).on}
    /\ Proceed(p)
    /\ UNCHANGED <<objects, rows, opens, kept>>

\* Version 17 has set a table aside and not yet dropped both.
Replacing(p) ==
    /\ openers[p].version = 17
    /\ openers[p].at \in 2 .. Len(NewRetentionTables)

\* An SQL error leaves _connection, or the process dies; what has been done stays.
OpeningEnds(p) ==
    /\ Opening(p)
    /\ openers' = [openers EXCEPT ![p] = Closed]
    /\ kept' = [kept EXCEPT !.cut = @ \/ Replacing(p)]
    /\ UNCHANGED <<objects, recorded, rows, opens>>

\* What a caller does with the database: here the sweep of retention rows, which
\* writes a task's row and a receipt of its own in one transaction.
Sweep(p) ==
    /\ IsOpen(p)
    /\ openers' = [openers EXCEPT ![p] = Closed]
    /\ \/ /\ {TaskCards, TaskReceipts} \subseteq objects
          /\ Cardinality(kept.receipts) < MaxSweeps
          /\ \E t \in TaskRow :
               LET receipt == Cardinality(kept.receipts) + 1
               IN /\ rows' = [rows EXCEPT ![TaskCards] = @ \cup {t},
                                          ![TaskReceipts] = @ \cup {receipt}]
                  /\ kept' = [kept EXCEPT !.cards = @ \cup {t},
                                          !.receipts = @ \cup {receipt}]
       \/ UNCHANGED <<rows, kept>>    \* an error, or another caller
    /\ UNCHANGED <<objects, recorded, opens>>

(***************************************************************************)
(* Behaviours                                                              *)
(***************************************************************************)
MadeBy(script) ==
    {statement.on : statement \in
       {q \in ToSet(script) : q.op \in {"create", "ensure", "alter"}}}
ObjectsOf(v) == MadeBy(EveryTime(v) \o ScriptOf[v])

\* A database an older release made: what it recorded, and a task it swept once.
SchemaInit ==
    /\ \E v \in StartVersion :
         /\ recorded = 1 .. v
         /\ objects = UNION {ObjectsOf(u) : u \in 1 .. v}
    /\ kept = IF 10 \in recorded
              THEN [cards |-> TaskRow, receipts |-> {1}, cut |-> FALSE]
              ELSE [cards |-> {}, receipts |-> {}, cut |-> FALSE]
    /\ rows = [t \in Retention |-> CASE t = TaskCards    -> kept.cards
                                     [] t = TaskReceipts -> kept.receipts
                                     [] OTHER        -> {}]
    /\ openers = [p \in Opener |-> Closed]
    /\ opens = 0

SchemaNext ==
    \E p \in Opener :
        \/ Open(p) \/ MakeTable(p) \/ LookForColumns(p) \/ AlterTable(p)
        \/ RenameTable(p) \/ CopyRows(p) \/ DropTable(p) \/ RecordVersion(p)
        \/ OpeningEnds(p) \/ Sweep(p)

SchemaSpec == SchemaInit /\ [][SchemaNext]_schemaVars

SchemaTypeOK ==
    /\ \E n \in 0 .. Newest : recorded = 1 .. n
    /\ objects \subseteq Retention \cup UNION {ObjectsOf(v) : v \in 1 .. Newest}
    /\ \A t \in {TaskCards, OldTaskCards} : rows[t] \subseteq TaskRow
    /\ \A t \in {TaskReceipts, OldTaskReceipts} : rows[t] \subseteq 1 .. MaxSweeps
    /\ \A p \in Opener : openers[p].applied \subseteq recorded
    /\ opens \in 0 .. MaxOpens

(***************************************************************************)
(* Properties                                                              *)
(***************************************************************************)
\* The tables that are there, under their own name or set aside.
Standing ==
    (objects \ {OldTaskCards, OldTaskReceipts})
        \cup (IF OldTaskCards \in objects THEN {TaskCards} ELSE {})
        \cup (IF OldTaskReceipts \in objects THEN {TaskReceipts} ELSE {})

\* Every process opens the database on its own, dies where it likes and may go by
\* an old list of versions.  What is recorded is there all the same, since a
\* version is recorded after its script, but for a retention table that was set
\* aside; and no row or receipt is ever destroyed: it is in its table or in the
\* one set aside.  Nothing reads those.  That both tables are in place and have
\* all their rows holds only as long as no opening broke off while it replaced
\* them and none is doing so: the statements of version 17 are not one
\* transaction, so the code does not keep "migrate both retention tables
\* atomically and preserve every existing receipt" (brain_control.py:2286-2288).
UpgradeLosesNothing ==
    /\ \A v \in recorded : ObjectsOf(v) \subseteq Standing
    /\ kept.cards \subseteq rows[TaskCards] \cup rows[OldTaskCards]
    /\ kept.receipts \subseteq rows[TaskReceipts] \cup rows[OldTaskReceipts]
    /\ ~kept.cut /\ (\A p \in Opener : ~Replacing(p))
        => /\ \A v \in recorded : ObjectsOf(v) \subseteq objects
           /\ kept.cards \subseteq rows[TaskCards]
           /\ kept.receipts \subseteq rows[TaskReceipts]
=============================================================================
