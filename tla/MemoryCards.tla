---------------------------- MODULE MemoryCards ----------------------------
(***************************************************************************)
(* The memory cards of BrainControl (src/CORE/runtime/brain_control.py):   *)
(* one card, its append-only revisions, the governed commands that move it *)
(* between lifecycles, the privacy tombstone and purge requests, and the   *)
(* native memory snapshot, a JSON file derived from the card that the      *)
(* prompt hook reads without opening the database.                         *)
(*                                                                         *)
(* Every database transaction is one action, because BEGIN IMMEDIATE       *)
(* admits one writer at a time.  What a writer does around its transaction *)
(* is not in it: the dirty marker is created before, the snapshot is read  *)
(* (on a connection of its own), written, verified and the marker removed  *)
(* after, one step each, and a writer may die between any two of them.     *)
(*                                                                         *)
(* The card is of a kind that allows every command (all kinds but notes,   *)
(* which cannot be superseded) and that the snapshot carries (all kinds    *)
(* but decisions).  Its text is named by the command that wrote it.        *)
(***************************************************************************)
EXTENDS Naturals, FiniteSetsExt, Sequences, SequencesExt

CONSTANTS
  Writer,       \* the processes and threads that issue commands
  MaxCommands,  \* bounds the command ids that are issued
  Histories     \* what the card may have been through before: revisions that
                \* earlier commands left behind, the empty history included

ASSUME MaxCommandsAssumption == MaxCommands \in Nat \ {0}

CommandIds == 1 .. MaxCommands
Tombstone  == 0                 \* the payload that replaces a forgotten text
Earlier    == MaxCommands + 1   \* a text written before the first command here
Texts      == CommandIds \cup {Tombstone, Earlier}
MaxRevision == MaxCommands + 3  \* no history is longer than three revisions
Lifecycles == {"proposed", "active", "superseded", "cancelled", "trashed",
               "forgotten"}
Past == [life: Lifecycles, text: Texts, from: Lifecycles]

\* A card went to Trash from a lifecycle that trash_card allows.
ASSUME HistoriesAssumption ==
  \A h \in Histories :
    /\ h \in Seq(Past) /\ Len(h) <= 3
    /\ \A r \in DOMAIN h :
         h[r].life = "trashed" => h[r].from \in {"proposed", "active"}

NoCommand  == [id |-> 0, type |-> "none", expected |-> 0, life |-> "active",
               restore |-> 0]

VARIABLES
  revisions,   \* card_revisions: what each revision says, oldest first
  commandLog,  \* command_log: the ids of the commands applied; an id is
               \* never sent with another payload
  tombstone,   \* card_privacy_tombstones: [revision, purge, preview]
  previewing,  \* revisions a purge preview has read and not yet recorded
  previews,    \* ui_purge_previews still open, by the revision they are of
  snapshot,    \* the text the native snapshot file shows, or Tombstone
  dirty,       \* the dirty marker exists
  stage,       \* where each writer is
  command,     \* the command each writer issued last
  created,     \* the writer's marker write created the marker
  copy,        \* the text a writer read from the database for the snapshot
  overlapped   \* two writers have been under way at the same time

cardVars == <<revisions, commandLog, tombstone, previewing, previews,
              snapshot, dirty, stage, command, created, copy, overlapped>>
databaseVars == <<revisions, commandLog, tombstone, previewing, previews>>
fileVars     == <<snapshot, dirty>>

Commands == [id: CommandIds \cup {0}, expected: 0 .. MaxRevision,
             restore: 0 .. MaxRevision, life: Lifecycles,
             type: {"none", "create_card", "edit_card", "supersede_card",
                    "trash_card", "restore_card", "cancel_card", "forget_active",
                    "forget_trashed", "rollback_card"}]

CardTypeOK ==
  /\ revisions \in Seq(Past)
  /\ Len(revisions) <= MaxRevision
  /\ commandLog \subseteq CommandIds
  /\ tombstone \in [revision: 0 .. MaxRevision,
                    purge: {"none", "previewed", "requested"},
                    preview: 0 .. MaxRevision]
  /\ previewing \subseteq 1 .. MaxRevision
  /\ previews \subseteq 1 .. MaxRevision
  /\ snapshot \in Texts
  /\ dirty \in BOOLEAN
  /\ stage \in [Writer -> {"idle", "marked", "refused", "committed", "read",
                           "written", "verified", "lost"}]
  /\ command \in [Writer -> Commands]
  /\ created \in [Writer -> BOOLEAN]
  /\ copy \in [Writer -> Texts]
  /\ overlapped \in BOOLEAN

Revision == Len(revisions)
Life     == revisions[Revision].life

\* _native_memory_influence_snapshot_entries: only an active card is shown.
Projected == IF Revision > 0 /\ Life = "active" THEN revisions[Revision].text
             ELSE Tombstone

\* The revision that last forgot the card, or 0.
Forgetting == Max({0} \cup {r \in DOMAIN revisions : revisions[r].life = "forgotten"})

CardInit ==
  /\ revisions \in Histories
  /\ commandLog = {}
  /\ previewing = {}
  /\ previews \in SUBSET ({Forgetting} \ {0})
  /\ tombstone = [revision |-> Forgetting,
                  purge |-> IF previews = {} THEN "none" ELSE "previewed",
                  preview |-> IF previews = {} THEN 0 ELSE Forgetting]
  /\ snapshot = Projected
  /\ dirty = FALSE
  /\ stage = [w \in Writer |-> "idle"]
  /\ command = [w \in Writer |-> NoCommand]
  /\ created = [w \in Writer |-> FALSE]
  /\ copy = [w \in Writer |-> Tombstone]
  /\ overlapped = FALSE

----------------------------------------------------------------------------
(* The lifecycle rules.                                                    *)

\* _resolve_card_mutation: what the card must be for a command to apply.
Allowed(c) ==
  CASE c.type = "create_card" -> Revision = 0 /\ c.life \in {"proposed", "active"}
    [] c.type = "edit_card" ->
         Revision > 0 /\ Life \notin {"trashed", "forgotten"} /\ c.life = Life
    [] c.type = "supersede_card" -> Revision > 0
    [] c.type \in {"trash_card", "cancel_card", "forget_active"} ->
         Revision > 0 /\ Life \in {"proposed", "active"}
    [] c.type \in {"restore_card", "forget_trashed"} ->
         Revision > 0 /\ Life = "trashed"
    [] c.type = "rollback_card" ->
         /\ Revision > 0
         /\ Life \notin {"trashed", "forgotten"}
         /\ c.restore \in 1 .. Revision - 1
         /\ revisions[c.restore].life \in {"proposed", "active"}
    [] OTHER -> FALSE

\* The revision a command appends: a lifecycle, a text, and for a card in Trash
\* the lifecycle it came from.
Result(c) ==
  LET Kept(life) == [life |-> life, text |-> revisions[Revision].text, from |-> life]
  IN CASE c.type \in {"create_card", "edit_card"} ->
            [life |-> c.life, text |-> c.id, from |-> c.life]
       [] c.type = "supersede_card" -> Kept("superseded")
       [] c.type = "cancel_card"    -> Kept("cancelled")
       [] c.type = "trash_card"     -> [Kept("trashed") EXCEPT !.from = Life]
       [] c.type = "restore_card"   -> Kept(revisions[Revision].from)
       [] c.type = "rollback_card"  ->
            [revisions[c.restore] EXCEPT !.from = revisions[c.restore].life]
       [] OTHER -> [life |-> "forgotten", text |-> Tombstone, from |-> "forgotten"]

----------------------------------------------------------------------------
(* A governed command: apply.                                              *)

\* Of a writer that is through, or dead, only the command matters: a caller that
\* has no answer may send it again.
Finish(w, how) ==
  /\ stage' = [stage EXCEPT ![w] = how]
  /\ command' = IF how # "idle" THEN command ELSE [command EXCEPT ![w] = NoCommand]
  /\ created' = [created EXCEPT ![w] = FALSE]
  /\ copy' = [copy EXCEPT ![w] = Tombstone]

Under == {w \in Writer : stage[w] \notin {"idle", "lost"}}

\* _mark_native_memory_influence_snapshot_dirty, and the writer's note of whether
\* the marker was its own.
MarkDirty(w) ==
  /\ dirty' = TRUE
  /\ created' = [created EXCEPT ![w] = ~dirty]
  /\ overlapped' = (overlapped \/ Under # {})

Fresh(i) == i \notin commandLog /\ \A w \in Writer : command[w].id # i
NextId == CHOOSE i \in CommandIds : Fresh(i) /\ \A j \in 1 .. i - 1 : ~Fresh(j)

\* A new command: a fresh id, the revision the caller last saw, which is the one
\* it acts on, and a lifecycle or a revision to go back to where it needs one.
Issue(w) ==
  /\ stage[w] \in {"idle", "lost"}
  /\ \E i \in CommandIds : Fresh(i)
  /\ \E type \in {"create_card", "edit_card", "supersede_card", "trash_card",
                  "restore_card", "cancel_card", "forget_active",
                  "forget_trashed", "rollback_card"},
        life \in Lifecycles, restore \in 0 .. MaxRevision :
       LET c == [id |-> NextId, type |-> type, expected |-> Revision, life |-> life,
                 restore |-> restore]
       IN /\ Allowed(c)
          /\ type \notin {"create_card", "edit_card"} => life = "active"
          /\ type # "rollback_card" => restore = 0
          /\ command' = [command EXCEPT ![w] = c]
  /\ stage' = [stage EXCEPT ![w] = "marked"]
  /\ MarkDirty(w)
  /\ UNCHANGED <<databaseVars, snapshot, copy>>

\* A caller that never saw the answer sends the same command again.
Retry(w) ==
  /\ stage[w] = "lost" /\ command[w] # NoCommand
  /\ stage' = [stage EXCEPT ![w] = "marked"]
  /\ MarkDirty(w)
  /\ UNCHANGED <<databaseVars, snapshot, command, copy>>

\* The transaction: a replayed command answers from the log, a command for
\* another revision is refused, any other appends its revision and, when it
\* forgets, starts the tombstone again.
Replayed(w) == command[w].id \in commandLog

Commit(w) ==
  LET c == command[w]
  IN /\ stage[w] = "marked"
     /\ stage' = [stage EXCEPT ![w] = "committed"]
     /\ \/ Replayed(w) /\ UNCHANGED databaseVars
        \/ /\ ~Replayed(w) /\ c.expected = Revision /\ Allowed(c)
           /\ revisions' = Append(revisions, Result(c))
           /\ commandLog' = commandLog \cup {c.id}
           /\ tombstone' = IF c.type \in {"forget_active", "forget_trashed"}
                           THEN [revision |-> Revision + 1, purge |-> "none", preview |-> 0]
                           ELSE tombstone
           /\ UNCHANGED <<previewing, previews>>
     /\ created' = [created EXCEPT ![w] = FALSE]
     /\ UNCHANGED <<fileVars, command, copy, overlapped>>

Refuse(w) ==
  /\ stage[w] = "marked"
  /\ ~Replayed(w)
  /\ command[w].expected # Revision \/ ~Allowed(command[w])
  /\ stage' = [stage EXCEPT ![w] = "refused"]
  /\ UNCHANGED <<databaseVars, fileVars, command, created, copy, overlapped>>

\* (Removing any marker would uncover a snapshot another writer left stale.)
WithdrawAnyMarker(w) ==
  /\ stage[w] = "refused"
  /\ dirty' = FALSE
  /\ Finish(w, "idle")
  /\ UNCHANGED <<databaseVars, snapshot, overlapped>>

\* A refused command removes the marker it created, and only that one.
Withdraw(w) ==
  /\ stage[w] = "refused"
  /\ dirty' = (dirty /\ ~created[w])
  /\ Finish(w, "idle")
  /\ UNCHANGED <<databaseVars, snapshot, overlapped>>

----------------------------------------------------------------------------
(* publish_native_memory_influence_snapshot, after a commit or on its own. *)

Advance(w, from, to) ==
  /\ stage[w] = from
  /\ stage' = [stage EXCEPT ![w] = to]

\* The publish-native-memory-influence-snapshot command and the trial's refresh.
Publish(w) ==
  /\ stage[w] \in {"idle", "lost"}
  /\ stage' = [stage EXCEPT ![w] = "committed"]
  /\ overlapped' = (overlapped \/ Under # {})
  /\ UNCHANGED <<databaseVars, fileVars, command, created, copy>>

ReadSnapshot(w) ==
  /\ Advance(w, "committed", "read")
  /\ copy' = [copy EXCEPT ![w] = Projected]
  /\ UNCHANGED <<databaseVars, fileVars, command, created, overlapped>>

WriteSnapshot(w) ==
  /\ Advance(w, "read", "written")
  /\ snapshot' = copy[w]
  /\ UNCHANGED <<databaseVars, dirty, command, created, copy, overlapped>>

\* The file is read back; another writer's text in it fails the publication, and
\* the marker stays.
VerifySnapshot(w) ==
  /\ stage[w] = "written"
  /\ Finish(w, IF snapshot = copy[w] THEN "verified" ELSE "idle")
  /\ UNCHANGED <<databaseVars, fileVars, overlapped>>

ClearMarker(w) ==
  /\ stage[w] = "verified"
  /\ Finish(w, "idle")
  /\ dirty' = FALSE
  /\ UNCHANGED <<databaseVars, snapshot, overlapped>>

\* The writer dies, or its publication fails (the commit stands and the error is
\* swallowed); its caller has no answer, or one that says nothing of the snapshot.
Lose(w) ==
  /\ stage[w] \notin {"idle", "lost"}
  /\ Finish(w, "lost")
  /\ UNCHANGED <<databaseVars, fileVars, overlapped>>

----------------------------------------------------------------------------
(* The purge of a forgotten card.                                          *)

browserRest == <<revisions, commandLog, fileVars, stage, command, created, copy,
                 overlapped>>

\* preview_purge_everywhere checks the card before its transaction begins ...
ReadPreview ==
  /\ Revision > 0 /\ Life = "forgotten" /\ tombstone.revision = Revision
  /\ previewing' = previewing \cup {Revision}
  /\ UNCHANGED <<browserRest, tombstone, previews>>

\* ... and records the preview without looking again.
RecordPreview(r) ==
  /\ r \in previewing
  /\ previewing' = previewing \ {r}
  /\ previews' = previews \cup {r}
  /\ tombstone' = [tombstone EXCEPT !.purge = "previewed", !.preview = r]
  /\ UNCHANGED browserRest

\* request_purge_everywhere: the preview must be open (its mark as expired is
\* rolled back with the error that reports it) and the card as it was previewed.
CardIsForgotten(r) == Revision >= r /\ Life = "forgotten"   \* (again, or still)
PreviewStands(r) == Revision = r /\ Life = "forgotten"

RequestPurge(r) ==
  /\ r \in previews
  /\ PreviewStands(r)
  /\ previews' = previews \ {r}
  /\ tombstone' = [tombstone EXCEPT !.purge = "requested", !.preview = r]
  /\ UNCHANGED <<browserRest, previewing>>

CardNext ==
  \/ \E w \in Writer :
       \/ Issue(w) \/ Retry(w) \/ Commit(w) \/ Refuse(w) \/ Withdraw(w)
       \/ Publish(w) \/ ReadSnapshot(w) \/ WriteSnapshot(w)
       \/ VerifySnapshot(w) \/ ClearMarker(w) \/ Lose(w)
  \/ ReadPreview
  \/ \E r \in 1 .. MaxRevision : RecordPreview(r) \/ RequestPurge(r)

CardSpec == CardInit /\ [][CardNext]_cardVars

----------------------------------------------------------------------------
(* Properties.                                                             *)

\* The prompt hook never takes an old snapshot for the current one: without the
\* marker the file shows what the card says now, across crashes, refused and
\* replayed commands and failed publications, as long as no two writers are under
\* way together. (Two that are can leave an old text without a marker.)
LoneWritersFailClosed == overlapped \/ dirty \/ snapshot = Projected

\* A purge request names the forgetting the tombstone is of: a card that came
\* back and was forgotten again is not purged on the strength of the older one.
PurgeIsOfThisForgetting ==
  tombstone.purge = "requested" => tombstone.preview = tombstone.revision

\* "trashed or forgotten cards cannot be restored by rollback": what was
\* forgotten stays so until the text is written again.
ForgottenNeverRolledBack ==
  [][\A r \in 1 .. Len(revisions) :
       revisions[r].life = "forgotten" /\ Len(revisions') > Len(revisions)
         => Last(revisions').text \notin {revisions[q].text : q \in 1 .. r - 1} \ {Tombstone}]_cardVars

=============================================================================
