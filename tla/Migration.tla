------------------------------- MODULE Migration -------------------------------
(***************************************************************************)
(* The import of older memories (src/CORE/runtime/migration_control.py):   *)
(* an epoch is staged from a plan of its sources, its records become cards *)
(* one by one, the result is verified, an adapter is cut over to it, and   *)
(* either the adapter or, for a Sandglass history, the cards are rolled    *)
(* back.                                                                   *)
(*                                                                         *)
(* An operation is many short transactions, and what it checks first is    *)
(* not looked at again: every read, file and transaction is a step, and    *)
(* the process may die between any two.  Nothing serialises two operations *)
(* on one epoch, and the user edits the cards meanwhile.                   *)
(*                                                                         *)
(* A source that changed after stage only makes an operation fail.  A      *)
(* record's key is a hash of its bytes, so that two epochs over the same   *)
(* bytes name the same card and the same command, while two over a history *)
(* that grew name two cards, perhaps with the same content.  One plan item *)
(* (a candidate group of a history, a note of a file) is an Item; those    *)
(* quarantined or ignored by the plan never change and are left out.       *)
(*                                                                         *)
(* Five details are coarser than the code, none of which a property reads: *)
(*   - StageCommit takes the backup's hash from the file, not the one this *)
(*     process made, and looks for the manifest together with the backup;  *)
(*   - Duplicate asks for a card nobody touched, though one that was only  *)
(*     promoted has its content still, at a later revision;                *)
(*   - CutoverList reads the rows and counts the events in one step;       *)
(*   - CutoverCommit records the listing this process made, not a hash of  *)
(*     the file read back;                                                 *)
(*   - a second rollback whose trash commands are in the log already stops *)
(*     here, and in the code goes on to mark its rows rolled back.         *)
(***************************************************************************)
EXTENDS Naturals

CONSTANTS
  Migrator,       \* the processes that run migration operations
  Epoch, Item,    \* epochs, and the planned records each of them has
  Staged,         \* the epochs that were staged before
  NoMigrator,     \* nobody has made a backup
  MaxOperations,  \* bounds the operations that are begun
  MaxUserMoves,   \* bounds what the user does to a card
  MaxGeneration   \* bounds the cutovers of an epoch

ASSUME MigrationAssumption ==
  /\ NoMigrator \notin Migrator /\ Staged \subseteq Epoch
  /\ Epoch # {} /\ Item # {}
  /\ MaxOperations \in Nat /\ MaxUserMoves \in Nat /\ MaxGeneration \in Nat

VARIABLES
  source,      \* what the epochs were planned from
  manifests,   \* the epochs whose manifest file exists
  backup,      \* whose database backup lies in an epoch's directory
  epochs,      \* rows of migration_epochs; status "none" is no row
  records,     \* rows of migration_records
  imports,     \* the cards
  adapters,    \* rows of migration_adapters, of one adapter for an epoch
  projections, \* the adapter's projection file
  work,        \* what each process is doing
  begun        \* how many operations were begun

migrationVars == <<source, manifests, backup, epochs, records, imports, adapters,
                   projections, work, begun>>

\* The card a record of an epoch becomes.
Card == Epoch \X Item
CardOf(e, i) == IF source.same THEN <<source.first, i>> ELSE <<e, i>>
NoCard == [revision |-> 0, lifecycle |-> "none", epoch |-> source.first, moves |-> 0,
           undone |-> FALSE]

\* Content that two cards may have in common, as long as nobody edits them.
Alike(c, d) == c = d \/ (source.alike /\ c[2] = d[2])

NoRecord == [status |-> "none", card |-> CHOOSE c \in Card : TRUE, revision |-> 0]
NoAdapter == [status |-> "none", listing |-> [generation |-> 0, cards |-> {},
                                               events |-> [c \in Card |-> 0]]]
Rest == [pc |-> "rest", epoch |-> CHOOSE e \in Epoch : TRUE, todo |-> {},
         card |-> CHOOSE c \in Card : TRUE, good |-> TRUE, rows |-> {},
         listing |-> NoAdapter.listing]

\* The card events that a cutover counts for its watermark, here card by card: none
\* is ever removed, so that counts are equal only if they are of the same events.
Events == [c \in Card |-> imports[c].revision]

MigInit ==
  /\ source \in {s \in [mode : {"legacy", "sandglass"}, same : BOOLEAN,
                        alike : BOOLEAN, first : {CHOOSE e \in Epoch : TRUE}] :
                   /\ s.same => s.alike
                   /\ s.same \/ s.mode = "sandglass" \/ ~s.alike}
  /\ manifests = Staged
  /\ backup = [e \in Epoch |-> NoMigrator]
  /\ epochs = [e \in Epoch |-> [status |-> IF e \in Staged THEN "staged" ELSE "none",
                                generation |-> 0, backup |-> NoMigrator]]
  /\ records = [e \in Epoch |-> [i \in Item |->
       [NoRecord EXCEPT !.status = IF e \in Staged THEN "planned" ELSE "none"]]]
  /\ imports = [c \in Card |-> NoCard]
  /\ adapters = [e \in Epoch |-> NoAdapter]
  /\ projections = [e \in Epoch |-> NoAdapter.listing]
  /\ work = [m \in Migrator |-> Rest]
  /\ begun = 0

Status(e) == epochs[e].status

\* _load_verified_manifest: the manifest and the backup that the row names.
Loadable(e) == /\ Status(e) # "none" /\ e \in manifests
               /\ backup[e] = epochs[e].backup

At(m, pc) == work[m].pc = pc
Go(m, w) == work' = [work EXCEPT ![m] = w] /\ UNCHANGED begun
GoTo(m, pc) == Go(m, [work[m] EXCEPT !.pc = pc])

\* An operation on epoch e begins, most with the manifest.
Start(m, w) ==
  /\ At(m, "rest") /\ begun < MaxOperations
  /\ work' = [work EXCEPT ![m] = w]
  /\ begun' = begun + 1

Begin(m, e, pc, todo) ==
  /\ Loadable(e)
  /\ Start(m, [Rest EXCEPT !.pc = pc, !.epoch = e, !.todo = todo])

\* The process dies, or the operation fails and leaves things as they are.
MigratorStops(m) ==
  /\ ~At(m, "rest")
  /\ Go(m, Rest)
  /\ UNCHANGED <<source, manifests, backup, epochs, records, imports, adapters, projections>>

----------------------------------------------------------------------------
(* stage and sandglass_stage.                                              *)

\* An epoch whose manifest exists is not staged again.  The backup is that of
\* the last stager to get here; a database that did not change in between has
\* the same bytes.
StageFiles(m, e) ==
  /\ e \notin manifests
  /\ Start(m, [Rest EXCEPT !.pc = "manifest", !.epoch = e])
  /\ \/ backup' = [backup EXCEPT ![e] = m]
     \/ backup[e] # NoMigrator /\ UNCHANGED backup
  /\ UNCHANGED <<source, manifests, epochs, records, imports, adapters, projections>>

StageManifest(m) ==
  /\ At(m, "manifest")
  /\ manifests' = manifests \cup {work[m].epoch}
  /\ Go(m, [work[m] EXCEPT !.pc = "staging"])
  /\ UNCHANGED <<source, backup, epochs, records, imports, adapters, projections>>

\* The row is inserted, unless another stager inserted it.
StageCommit(m) ==
  /\ At(m, "staging")
  /\ LET e == work[m].epoch
     IN IF Status(e) # "none" THEN UNCHANGED <<epochs, records>>
        ELSE /\ epochs' = [epochs EXCEPT ![e] = [status |-> "staged", generation |-> 0,
                                                 backup |-> backup[e]]]
             /\ records' = [records EXCEPT ![e] =
                              [i \in Item |-> [NoRecord EXCEPT !.status = "planned"]]]
  /\ Go(m, Rest)
  /\ UNCHANGED <<source, manifests, backup, imports, adapters, projections>>

----------------------------------------------------------------------------
(* import_epoch and sandglass_import.                                      *)

ImportBegin(m, e) ==
  /\ Status(e) \in {"staged", "imported", "verified"}
  /\ Begin(m, e, "next", Item)
  /\ UNCHANGED <<source, manifests, backup, epochs, records, imports, adapters, projections>>

Item1(m) == CHOOSE i \in work[m].todo : TRUE
Target(m) == CardOf(work[m].epoch, Item1(m))

\* _find_exact_sandglass_duplicate: another card with the same content that is
\* active or proposed (the one with the smallest id, a hash).
Duplicate(c, d) == /\ source.mode = "sandglass" /\ d # c /\ Alike(c, d)
                   /\ imports[d].lifecycle \in {"active", "proposed"}
                   /\ imports[d].moves = 0

ImportLookUp(m) ==
  /\ At(m, "next") /\ work[m].todo # {}
  /\ \/ \E d \in Card : /\ Duplicate(Target(m), d)
                        /\ Go(m, [work[m] EXCEPT !.pc = "duplicate", !.card = d])
     \/ /\ \/ ~\E d \in Card : Duplicate(Target(m), d)
           \/ imports[Target(m)].lifecycle \in {"active", "proposed"}
        /\ Go(m, [work[m] EXCEPT !.pc = "apply", !.card = Target(m)])
  /\ UNCHANGED <<source, manifests, backup, epochs, records, imports, adapters, projections>>

\* BrainControl.apply, one transaction: the command is replayed if the log has
\* it with the same payload, and the payload names the epoch.
CommandLogged(e, c) == imports[c].revision > 0
SameCommand(e, c) == CommandLogged(e, c) /\ imports[c].epoch = e

ImportApply(m) ==
  LET e == work[m].epoch  c == work[m].card
  IN /\ At(m, "apply")
     /\ \/ /\ ~CommandLogged(e, c)
           /\ imports' = [imports EXCEPT ![c] =
                [NoCard EXCEPT !.revision = 1, !.epoch = e,
                   !.lifecycle = IF source.mode = "legacy" THEN "active" ELSE "proposed"]]
           /\ GoTo(m, "applied")
        \/ /\ SameCommand(e, c)
           /\ GoTo(m, "applied") /\ UNCHANGED imports
        \/ /\ GoTo(m, "rejected") /\ UNCHANGED imports     \* any exception
     /\ UNCHANGED <<source, manifests, backup, epochs, records, adapters, projections>>

\* The record's own transaction follows, whatever the row says by now.  The
\* revision is the one in the command's receipt, or the duplicate's.
ImportRecord(m) ==
  LET w == work[m]
      outcome == CASE w.pc = "duplicate" -> "deduplicated"
                   [] w.pc = "applied" -> "imported"
                   [] OTHER -> "quarantined"
      row == records[w.epoch][Item1(m)]
  IN /\ w.pc \in {"duplicate", "applied", "rejected"}
     /\ records' = [records EXCEPT ![w.epoch][Item1(m)] =
          IF outcome = "quarantined" THEN [row EXCEPT !.status = outcome]
          ELSE [status |-> outcome, card |-> w.card, revision |-> 1]]
     /\ Go(m, [w EXCEPT !.pc = "next", !.todo = @ \ {Item1(m)}, !.card = Rest.card])
     /\ UNCHANGED <<source, manifests, backup, epochs, imports, adapters, projections>>

SetStatus(e, status) == epochs' = [epochs EXCEPT ![e].status = status]

ImportEnd(m) ==
  /\ At(m, "next") /\ work[m].todo = {}
  /\ SetStatus(work[m].epoch, "imported")
  /\ Go(m, Rest)
  /\ UNCHANGED <<source, manifests, backup, records, imports, adapters, projections>>

----------------------------------------------------------------------------
(* verify and sandglass_verify.                                            *)

VerifyBegin(m, e) ==
  /\ Begin(m, e, "rows", Item)
  /\ UNCHANGED <<source, manifests, backup, epochs, records, imports, adapters, projections>>

\* The rows of an epoch that have a card of a status.
Rows(e, statuses) ==
  {[item |-> i, card |-> records[e][i].card, revision |-> records[e][i].revision,
    status |-> records[e][i].status] : i \in {j \in Item : records[e][j].status \in statuses}}

VerifyRows(m) ==
  /\ At(m, "rows")
  /\ Go(m, [work[m] EXCEPT !.pc = "check", !.todo = {},
              !.rows = Rows(work[m].epoch, {"imported", "deduplicated"}),
              !.good = \A i \in Item : records[work[m].epoch][i].status \in
                         (IF source.mode = "legacy" THEN {"imported"}
                                                    ELSE {"imported", "deduplicated"})])
  /\ UNCHANGED <<source, manifests, backup, epochs, records, imports, adapters, projections>>

\* Each card is read by itself: it must be at the revision imported, a Sandglass
\* card must still be proposed, and what was imported must be this epoch's.
GoodCard(e, row) ==
  /\ imports[row.card].revision = row.revision
  /\ row.status = "imported" => imports[row.card].epoch = e
  /\ source.mode = "sandglass" => imports[row.card].lifecycle = "proposed"

VerifyCard(m) ==
  /\ At(m, "check")
  /\ \E row \in work[m].rows :
       Go(m, [work[m] EXCEPT !.rows = @ \ {row},
                             !.good = @ /\ GoodCard(work[m].epoch, row)])
  /\ UNCHANGED <<source, manifests, backup, epochs, records, imports, adapters, projections>>

VerifyEnd(m) ==
  /\ At(m, "check") /\ work[m].rows = {}
  /\ SetStatus(work[m].epoch, IF work[m].good THEN "verified" ELSE "imported")
  /\ Go(m, Rest)
  /\ UNCHANGED <<source, manifests, backup, records, imports, adapters, projections>>

----------------------------------------------------------------------------
(* cutover and rollback_adapter.                                           *)

CutoverBegin(m, e) ==
  /\ Status(e) = "verified" /\ epochs[e].generation < MaxGeneration
  /\ Loadable(e)
  /\ Start(m, [Rest EXCEPT !.pc = "list", !.epoch = e,
                        !.listing.generation = epochs[e].generation + 1])
  /\ UNCHANGED <<source, manifests, backup, epochs, records, imports, adapters, projections>>

CutoverList(m) ==
  /\ At(m, "list")
  /\ Go(m, [work[m] EXCEPT !.pc = "project", !.listing.events = Events,
              !.listing.cards = {r.card : r \in Rows(work[m].epoch, {"imported"})}])
  /\ UNCHANGED <<source, manifests, backup, epochs, records, imports, adapters, projections>>

CutoverProject(m) ==
  /\ At(m, "project")
  /\ projections' = [projections EXCEPT ![work[m].epoch] = work[m].listing]
  /\ GoTo(m, "forward")
  /\ UNCHANGED <<source, manifests, backup, epochs, records, imports, adapters>>

CutoverCommit(m) ==
  LET w == work[m]
  IN /\ At(m, "forward")
     /\ adapters' = [adapters EXCEPT ![w.epoch] = [status |-> "forwarder",
                                                   listing |-> w.listing]]
     /\ epochs' = [epochs EXCEPT ![w.epoch].status = "cutover",
                                 ![w.epoch].generation = w.listing.generation]
     /\ Go(m, Rest)
     /\ UNCHANGED <<source, manifests, backup, records, imports, projections>>

\* A forwarder is only switched off with the projection it was switched on with.
AdapterBegin(m, e) ==
  /\ adapters[e].status = "forwarder"
  /\ projections[e] = adapters[e].listing
  /\ Begin(m, e, "switch off", {})
  /\ UNCHANGED <<source, manifests, backup, epochs, records, imports, adapters, projections>>

AdapterCommit(m) ==
  /\ At(m, "switch off")
  /\ adapters' = [adapters EXCEPT ![work[m].epoch].status = "read_only"]
  /\ SetStatus(work[m].epoch, "adapter_rolled_back")
  /\ Go(m, Rest)
  /\ UNCHANGED <<source, manifests, backup, records, imports, projections>>

----------------------------------------------------------------------------
(* sandglass_rollback.                                                     *)

RollbackBegin(m, e) ==
  /\ source.mode = "sandglass"
  /\ Status(e) \in {"imported", "verified"}
  /\ Loadable(e)
  /\ Start(m, [Rest EXCEPT !.pc = "claim", !.epoch = e, !.rows = Rows(e, {"imported"})])
  /\ UNCHANGED <<source, manifests, backup, epochs, records, imports, adapters, projections>>

\* The cards are looked at (in any order and one at a time): each is as it was
\* imported, or the rollback is refused.
Untouched(e, row) == GoodCard(e, row)

RollbackCheck(m) ==
  /\ At(m, "claim")
  /\ \A row \in work[m].rows : Untouched(work[m].epoch, row)
  /\ GoTo(m, "trash")
  /\ UNCHANGED <<source, manifests, backup, epochs, records, imports, adapters, projections>>

\* Trashing needs an active or proposed card,
CanBeTrashed(row) == imports[row.card].lifecycle \in {"active", "proposed"}
\* and the command names the revision seen.
TrashApplies(row) == CanBeTrashed(row) /\ imports[row.card].revision = row.revision

\* apply_many_atomically: all commands in one transaction, or none.
RollbackTrash(m) ==
  /\ At(m, "trash")
  /\ \A row \in work[m].rows : TrashApplies(row)
  /\ imports' = [c \in Card |->
       IF c \in {row.card : row \in work[m].rows}
       THEN [imports[c] EXCEPT !.revision = @ + 1, !.lifecycle = "trashed", !.undone = TRUE]
       ELSE imports[c]]
  /\ GoTo(m, "trashed")
  /\ UNCHANGED <<source, manifests, backup, epochs, records, adapters, projections>>

\* (The results are looked up under a name they do not have, so the rows keep
\* the revision that was imported.)
RollbackEnd(m) ==
  LET e == work[m].epoch
  IN /\ At(m, "trashed")
     /\ records' = [records EXCEPT ![e] = [i \in Item |->
          IF i \in {row.item : row \in work[m].rows}
          THEN [records[e][i] EXCEPT !.status = "rolled_back",
                  !.revision = (CHOOSE row \in work[m].rows : row.item = i).revision]
          ELSE records[e][i]]]
     /\ SetStatus(e, "rolled_back")
     /\ Go(m, Rest)
     /\ UNCHANGED <<source, manifests, backup, imports, adapters, projections>>

----------------------------------------------------------------------------
(* The user.                                                               *)

\* An imported card is edited, promoted, trashed or restored.
UserMovesCard(c) ==
  /\ imports[c].revision > 0 /\ imports[c].moves < MaxUserMoves
  /\ \E lifecycle \in {"proposed", "active", "trashed"} :
       imports' = [imports EXCEPT ![c].revision = @ + 1, ![c].lifecycle = lifecycle,
                                  ![c].moves = @ + 1, ![c].undone = FALSE]
  /\ UNCHANGED <<source, manifests, backup, epochs, records, adapters, projections, work,
                 begun>>

MigNext ==
  \/ \E m \in Migrator :
       \/ \E e \in Epoch : \/ StageFiles(m, e) \/ ImportBegin(m, e) \/ VerifyBegin(m, e)
                           \/ CutoverBegin(m, e) \/ AdapterBegin(m, e) \/ RollbackBegin(m, e)
       \/ StageManifest(m) \/ StageCommit(m)
       \/ ImportLookUp(m) \/ ImportApply(m) \/ ImportRecord(m) \/ ImportEnd(m)
       \/ VerifyRows(m) \/ VerifyCard(m) \/ VerifyEnd(m)
       \/ CutoverList(m) \/ CutoverProject(m) \/ CutoverCommit(m) \/ AdapterCommit(m)
       \/ RollbackCheck(m) \/ RollbackTrash(m) \/ RollbackEnd(m)
       \/ MigratorStops(m)
  \/ \E c \in Card : UserMovesCard(c)

MigSpec == MigInit /\ [][MigNext]_migrationVars

----------------------------------------------------------------------------
(* Properties.                                                             *)

Revisions == 0 .. MaxUserMoves + 3
Listings == [generation : 0 .. MaxGeneration, cards : SUBSET Card,
             events : [Card -> Revisions]]
RecordStatus == {"none", "planned", "imported", "deduplicated", "quarantined", "rolled_back"}
EpochRows == [status : {"none", "staged", "imported", "verified", "cutover",
                        "adapter_rolled_back", "rolled_back"},
              generation : 0 .. MaxGeneration, backup : Migrator \cup {NoMigrator}]
RecordRows == [status : RecordStatus, card : Card, revision : 0 .. 1]
Cards == [revision : Revisions, epoch : Epoch, moves : 0 .. MaxUserMoves,
          lifecycle : {"none", "proposed", "active", "trashed"}, undone : BOOLEAN]
Works == [pc : {"rest", "manifest", "staging", "next", "duplicate", "apply", "applied",
                "rejected", "rows", "check", "list", "project", "forward", "switch off",
                "claim", "trash", "trashed"},
          epoch : Epoch, todo : SUBSET Item, card : Card, good : BOOLEAN,
          rows : SUBSET [item : Item, card : Card, revision : 0 .. 1, status : RecordStatus],
          listing : Listings]

MigTypeOK ==
  /\ source \in [mode : {"legacy", "sandglass"}, same : BOOLEAN, alike : BOOLEAN,
                 first : Epoch]
  /\ manifests \subseteq Epoch
  /\ backup \in [Epoch -> Migrator \cup {NoMigrator}]
  /\ epochs \in [Epoch -> EpochRows]
  /\ records \in [Epoch -> [Item -> RecordRows]]
  /\ imports \in [Card -> Cards]
  /\ adapters \in [Epoch -> [status : {"none", "forwarder", "read_only"},
                             listing : Listings]]
  /\ projections \in [Epoch -> Listings]
  /\ work \in [Migrator -> Works]
  /\ begun \in 0 .. MaxOperations

\* A record counts as imported, and an adapter lists a card, only if the card was
\* created by that epoch: not by another one over the same bytes, not with the
\* row ahead of the card, whatever crashed, was repeated or ran at the same time.
OnlyItsOwnCards ==
  \A e \in Epoch :
    /\ \A i \in Item : records[e][i].status = "imported" =>
         imports[records[e][i].card].revision > 0 /\ imports[records[e][i].card].epoch = e
    /\ \A c \in adapters[e].listing.cards : imports[c].epoch = e

\* A rollback takes back only cards nobody touched since they were imported: what
\* the user edited, promoted or removed meanwhile stays as it is.
RollbackSparesTheUsersCards ==
  [][\A c \in Card : imports[c].moves > 0 /\ imports'[c].undone => imports[c].undone]_migrationVars

=============================================================================
