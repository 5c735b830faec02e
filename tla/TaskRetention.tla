----------------------------- MODULE TaskRetention -----------------------------
(***************************************************************************)
(* The task cards of the control centre (brain_control.py): when a task    *)
(* was completed its card moves, by the day, from the task list to the     *)
(* recycle bin, out of sight, and at last to a compact evidence record;    *)
(* the user may restore a card from the bin, and set the periods.          *)
(*                                                                         *)
(* Nothing runs in the background: whoever looks at the task history       *)
(* sweeps.  The heads of the tasks and the clock are read first, and the   *)
(* sweep is one transaction that finds rows and settings as they are by    *)
(* then.  Dates are days; one task is followed, the sweep treats each      *)
(* alone.  A revision of the task stands for its hash and its owner.       *)
(***************************************************************************)
EXTENDS Naturals

CONSTANTS
  Viewer,            \* the processes that show the task history
  CompletedDays, TrashDays, EvidenceDays,  \* the defaults, and the fixed cutoff
  OldSettings,       \* [completed, trash] of installations from before
  LastDay, MaxTaskRevision, MaxSettings    \* bounds

ASSUME RetentionAssumption ==
  /\ {CompletedDays, TrashDays, EvidenceDays} \subseteq Nat \ {0}
  /\ CompletedDays + TrashDays <= EvidenceDays
  /\ OldSettings \in [completed : Nat \ {0}, trash : Nat \ {0}]
  /\ {LastDay, MaxTaskRevision} \subseteq Nat /\ MaxTaskRevision >= 1
  /\ MaxSettings \in Nat /\ MaxSettings >= 2

VARIABLES
  day,          \* the date
  head,         \* the task's head revision
  card,         \* the row of ui_task_card_retention
  evidence,     \* the row of ui_task_completion_evidence
  settings,     \* the row of ui_task_retention_settings
  views,        \* what each viewer has read
  restoredOn    \* history: the day of the last restore

retentionVars == <<day, head, card, evidence, settings, views, restoredOn>>

Never == LastDay + 1
NoCardRow == [state |-> "none", revision |-> 0, from |-> Never]
NoEvidence == [revision |-> 0, at |-> Never]
NotLooking == [head |-> [revision |-> 0, lifecycle |-> "active", at |-> Never], now |-> Never]
States == {"visible", "trashed", "sealed", "evidence_only"}
Order == [visible |-> 0, trashed |-> 1, sealed |-> 2, evidence_only |-> 3]

Periods == {s \in [completed : 1 .. EvidenceDays, trash : 1 .. EvidenceDays] :
              s.completed + s.trash <= EvidenceDays}
Default == [completed |-> CompletedDays, trash |-> TrashDays]
With(periods, revision) == [periods |-> periods, revision |-> revision]

RetentionInit ==
  /\ day = 0
  /\ head = [revision |-> 1, lifecycle |-> "active", at |-> Never]
  /\ card = NoCardRow
  /\ evidence = NoEvidence
  /\ settings \in {With(p, r) : p \in {Default, OldSettings}, r \in 1 .. 2}
  /\ views = [v \in Viewer |-> NotLooking]
  /\ restoredOn = Never

\* _task_retention_settings_in_transaction: an old default nobody changed, and
\* periods that pass the cutoff, are replaced wherever the settings are read.
CurrentSettings ==
  IF \/ settings = With(OldSettings, 1)
     \/ settings.periods.completed + settings.periods.trash > EvidenceDays
  THEN With(Default, settings.revision + 1)
  ELSE settings

\* _task_retention_target_state
TargetState(from, now) ==
  LET p == CurrentSettings.periods
  IN CASE now >= from + EvidenceDays -> "evidence_only"
       [] now < from + EvidenceDays /\ now >= from + p.completed + p.trash -> "sealed"
       [] now < from + p.completed -> "visible"
       [] OTHER -> "trashed"

\* The task moves on: it is completed, with a date or without one, or taken up
\* again (apply_task allows any lifecycle).
TaskAdvances ==
  /\ head.revision < MaxTaskRevision
  /\ \E h \in {[revision |-> head.revision + 1, lifecycle |-> "active", at |-> Never],
               [revision |-> head.revision + 1, lifecycle |-> "completed", at |-> day],
               [revision |-> head.revision + 1, lifecycle |-> "completed", at |-> Never]} :
       head' = h
  /\ UNCHANGED <<day, card, evidence, settings, views, restoredOn>>

Tomorrow ==
  /\ day < LastDay
  /\ day' = day + 1
  /\ UNCHANGED <<head, card, evidence, settings, views, restoredOn>>

\* task_history_for_ui reads the heads and the clock ...
Look(v) ==
  /\ views[v] = NotLooking
  /\ views' = [views EXCEPT ![v] = [head |-> head, now |-> day]]
  /\ UNCHANGED <<day, head, card, evidence, settings, restoredOn>>

\* The date the periods are counted from: the card's own once it has a row,
\* which a restore sets anew, else the task's.
CompletedOn(h) == h.at
CountedFrom(h) == IF card.state = "none" THEN CompletedOn(h) ELSE card.from

Ensured(h, from) ==
  IF evidence = NoEvidence THEN [revision |-> h.revision, at |-> from] ELSE evidence

\* ... then sweeps: a card of another revision, and a completion without a date,
\* are left for review.  (A task not completed cannot have a row of its revision.)
SweepTaskRetention(v) ==
  LET h == views[v].head
      from == CountedFrom(h)
      target == TargetState(from, views[v].now)
  IN /\ views[v] # NotLooking
     /\ settings' = CurrentSettings
     /\ views' = [views EXCEPT ![v] = NotLooking]
     /\ IF \/ card.state # "none" /\ card.revision # h.revision
           \/ h.lifecycle # "completed" \/ h.at = Never
        THEN UNCHANGED <<card, evidence>>
        ELSE IF card.state = "none" \/ Order[target] > Order[card.state]
        THEN /\ card' = [state |-> target, revision |-> h.revision, from |-> from]
             /\ evidence' = IF target = "evidence_only" THEN Ensured(h, from) ELSE evidence
        ELSE /\ evidence' = IF card.state = "evidence_only" THEN Ensured(h, from) ELSE evidence
             /\ UNCHANGED card
     /\ UNCHANGED <<day, head, restoredOn>>

\* The viewer goes away before it sweeps.
LookAway(v) ==
  /\ views[v] # NotLooking
  /\ views' = [views EXCEPT ![v] = NotLooking]
  /\ UNCHANGED <<day, head, card, evidence, settings, restoredOn>>

\* update_task_retention_settings, by a caller that saw the current revision.
UpdateTaskRetentionSettings(periods) ==
  /\ CurrentSettings.revision < MaxSettings
  /\ settings' = With(periods, CurrentSettings.revision + 1)
  /\ UNCHANGED <<day, head, card, evidence, views, restoredOn>>

\* restore_task_card_for_ui: only from the bin, and only the card of a task that
\* is still completed as it was.
StillCompleted == /\ head.lifecycle = "completed" /\ head.revision = card.revision
InTheBin == card.state = "trashed"

RestoreTaskCard ==
  /\ InTheBin /\ StillCompleted
  /\ card' = [card EXCEPT !.state = "visible", !.from = day]
  /\ settings' = CurrentSettings
  /\ restoredOn' = day
  /\ UNCHANGED <<day, head, evidence, views>>

RetentionNext ==
  \/ TaskAdvances \/ Tomorrow \/ RestoreTaskCard
  \/ \E v \in Viewer : Look(v) \/ SweepTaskRetention(v) \/ LookAway(v)
  \/ \E p \in Periods : UpdateTaskRetentionSettings(p)

RetentionSpec == RetentionInit /\ [][RetentionNext]_retentionVars

----------------------------------------------------------------------------
(* Properties.                                                             *)

Heads == [revision : 1 .. MaxTaskRevision, lifecycle : {"active", "completed"},
          at : 0 .. Never]

RetentionTypeOK ==
  /\ day \in 0 .. LastDay
  /\ head \in Heads
  /\ card \in [state : States \cup {"none"}, revision : 0 .. MaxTaskRevision,
               from : 0 .. Never]
  /\ evidence \in [revision : 0 .. MaxTaskRevision, at : 0 .. Never]
  /\ settings.periods \in Periods \cup {OldSettings}
  /\ settings.revision \in 1 .. MaxSettings + 1
  /\ views \in [Viewer -> [head : Heads, now : 0 .. LastDay] \cup {NotLooking}]
  /\ restoredOn \in 0 .. Never

\* A card the user took out of the bin stays in the list for the whole first
\* period again, as it is set by then, whichever sweep was under way with an
\* older reading; and a card that is out of the user's reach stays so, with
\* evidence of the very completion it was of.
RestoredCardIsProtected ==
  [][/\ card.state = "visible" /\ card'.state # "visible" /\ restoredOn # Never
          => day >= restoredOn + settings'.periods.completed
     /\ card.state \in {"sealed", "evidence_only"}
          => Order[card'.state] >= Order[card.state] /\ card'.revision = card.revision
     /\ card'.state = "evidence_only" => evidence'.revision = card'.revision]_retentionVars

=============================================================================
