----------------------------- MODULE Instructions -----------------------------
(***************************************************************************)
(* What the user said last (brain_control.py, instruction anchors and      *)
(* continuation receipts; instruction_anchor_store.py writes the same      *)
(* rows).  Every instruction becomes an anchor, a row that is only ever    *)
(* appended, kept per task and owning session; a contract is bound to one. *)
(* An anchor newer than the bound one is pending: work is withheld until a *)
(* Set maps the instruction to a work line.  Anchors and the contract are  *)
(* written under the contract's file lock, in several steps; the guard of  *)
(* work and the restore of a session read both without it.                 *)
(*                                                                         *)
(* The texts are abstract: orders, and a reply ("ok", "continue") that     *)
(* adds nothing to an instruction still pending.  One task; a contract     *)
(* changes hands by a Set of another session (RebindSession).              *)
(***************************************************************************)
EXTENDS Naturals, Sequences

CONSTANTS Speaker,        \* sessions
          Wish,           \* texts of instructions
          Confirmation,   \* a bare confirmation or continuation
          NoWish,
          MaxAnchors, MaxSets   \* bounds

ASSUME InstructionAssumption ==
    /\ Confirmation \notin Wish
    /\ NoWish \notin Wish \cup {Confirmation}
    /\ Speaker # {}
    /\ MaxAnchors \in Nat /\ MaxSets \in Nat \ {0}

VARIABLES anchors,    \* instruction_anchors in the order of their sequence numbers
          bound,      \* the contract file: revision, owner, anchor, needsReconciliation
          setting,    \* the Set that holds the lock: stage and the contract it writes
          progress,   \* continuation_receipts
          guarding,   \* Guard: the contract it read, the anchors there were
          restoring   \* get_continuation_receipt: the receipt it read

instructionVars == <<anchors, bound, setting, progress, guarding, restoring>>

NoAnchor == 0
Unoccupied == [stage |-> "none"]   \* no Set holds the lock, no reader has begun

(***************************************************************************)
(* Anchors                                                                 *)
(***************************************************************************)
\* The newest anchor of a session (_latest_instruction_anchor).
NewestOf(s) ==
    LET own == {i \in DOMAIN anchors : anchors[i].owner = s}
    IN IF own = {} THEN NoAnchor ELSE CHOOSE i \in own : \A j \in own : j <= i

\* check_instruction_anchor for a contract.
IsPending(c) == NewestOf(c.owner) \notin {NoAnchor, c.anchor}

\* observe_instruction_anchor: a reply leaves a pending anchor the newest one.
Preserves(s, text, preserve, c) ==
    preserve /\ text = Confirmation /\ NewestOf(s) \notin {NoAnchor, c.anchor}

Observed(s, text, preserve, c) ==
    IF Preserves(s, text, preserve, c)
    THEN [rows |-> anchors, anchor |-> NewestOf(s)]
    ELSE [rows   |-> Append(anchors, [owner |-> s, text |-> text]),
          anchor |-> Len(anchors) + 1]

(***************************************************************************)
(* The prompt hook and ObserveUser: the anchor is all they write.          *)
(***************************************************************************)
ReplyToPending(c, text) ==
    c.needs /\ text = Confirmation /\ c.anchor # NoAnchor /\ anchors[c.anchor].text # Confirmation

ObserveUser(s, text) ==
    /\ setting.stage = "none" /\ s = bound.owner
    /\ ~ReplyToPending(bound, text)
    /\ anchors' = Observed(s, text, TRUE, bound).rows
    /\ Len(anchors') <= MaxAnchors
    /\ UNCHANGED <<bound, setting, progress, guarding, restoring>>

(***************************************************************************)
(* Set                                                                     *)
(***************************************************************************)
\* What a caller brings: an instruction or none, a mapping to a work line (mode,
\* focus and next action) or none, whether that mapping fits the pending anchor.
SetOf == {x \in [by : Speaker, text : Wish \cup {Confirmation, NoWish},
                 maps : BOOLEAN, fits : BOOLEAN, unclear : BOOLEAN] :
            IF x.maps THEN ~x.unclear ELSE ~x.fits}

Backed(x) == x.maps /\ x.fits /\ IsPending(bound)
Tells(x) == x.text # NoWish /\ ~x.maps         \* pendingInstructionObservation
Explicit(x) == x.maps /\ (x.text # NoWish \/ Backed(x))

\* Set-Contract and Resolve-ContractInstructionAnchorBinding: the anchor the new
\* contract will be bound to, and what was appended for it.
Resolution(x) ==
    LET newest == NewestOf(bound.owner)
        text   == IF x.text = NoWish THEN anchors[newest].text ELSE x.text
    IN CASE Tells(x) -> Observed(x.by, x.text, TRUE, bound)
         [] Explicit(x) /\ newest # NoAnchor /\ anchors[newest].text = text ->
              [rows |-> anchors, anchor |-> newest]
         [] Explicit(x) /\ (newest = NoAnchor \/ anchors[newest].text # text) ->
              Observed(x.by, text, FALSE, bound)
         [] OTHER -> [rows |-> anchors, anchor |-> bound.anchor]

NeedsMappingOnly(x) == ~x.maps /\ (bound.needs \/ x.unclear)
Needs(x) ==
    CASE Tells(x) -> TRUE
      [] x.maps   -> FALSE
      [] OTHER    -> bound.needs \/ x.unclear

\* The lock is taken, the contract and the anchors are read; an anchor is appended.
BeginSet(x) ==
    LET resolution == Resolution(x)
    IN /\ setting.stage = "none" /\ bound.revision < MaxSets
       /\ Tells(x) \/ Explicit(x) \/ ~IsPending(bound)   \* else it is refused
       /\ anchors' = resolution.rows
       /\ Len(anchors') <= MaxAnchors
       /\ setting' =
            [stage |-> "publish",
             to    |-> [revision |-> bound.revision + 1, owner |-> x.by,
                        anchor |-> resolution.anchor, needs |-> Needs(x),
                        answered |-> bound.answered \cup
                                       (IF x.maps THEN DOMAIN anchors' ELSE {})]]
       /\ UNCHANGED <<bound, progress, guarding, restoring>>

PublishContract ==
    /\ setting.stage = "publish"
    /\ bound' = setting.to
    /\ setting' = [setting EXCEPT !.stage = "record"]
    /\ UNCHANGED <<anchors, progress, guarding, restoring>>

\* record_continuation_receipt: a receipt of the contract, once.
ProgressOf(c) == [owner |-> c.owner, revision |-> c.revision, anchor |-> c.anchor]
HasProgress(c) == \E i \in DOMAIN progress : progress[i] = ProgressOf(c)
WithReceipt(c) == IF HasProgress(c) THEN progress ELSE Append(progress, ProgressOf(c))

\* The receipt is written, tried once more, or not written ("contractCommitted").
RecordProgress ==
    /\ setting.stage = "record"
    /\ progress' \in {progress, WithReceipt(bound)}
    /\ setting' = Unoccupied
    /\ UNCHANGED <<anchors, bound, guarding, restoring>>

\* The same transition asked for again writes the receipt that is missing.
ReplaySet ==
    /\ setting.stage = "none" /\ bound.revision > 1
    /\ progress' = WithReceipt(bound)
    /\ UNCHANGED <<anchors, bound, setting, guarding, restoring>>

SetDies ==
    /\ setting.stage # "none"
    /\ setting' = Unoccupied
    /\ UNCHANGED <<anchors, bound, progress, guarding, restoring>>

(***************************************************************************)
(* Readers without the lock.  They write nothing, so that one at a time is  *)
(* enough to see what each of them may see.                                *)
(***************************************************************************)
GuardReads ==
    /\ guarding = Unoccupied /\ restoring = Unoccupied
    /\ guarding' = [stage |-> "read", contract |-> bound, seen |-> 0]
    /\ UNCHANGED <<anchors, bound, setting, progress, restoring>>

\* Guard-Work: the anchor first, then the contract's own flag.
Passes(c) == ~IsPending(c) /\ ~c.needs
GuardJudges ==
    /\ guarding.stage = "read"
    /\ guarding' = IF Passes(guarding.contract)
                   THEN [guarding EXCEPT !.stage = "passed", !.seen = Len(anchors)]
                   ELSE Unoccupied
    /\ UNCHANGED <<anchors, bound, setting, progress, restoring>>

GuardEnds ==
    /\ guarding.stage = "passed"
    /\ guarding' = Unoccupied
    /\ UNCHANGED <<anchors, bound, setting, progress, restoring>>

NewestProgress(s) ==
    LET own == {i \in DOMAIN progress : progress[i].owner = s}
    IN IF own = {} THEN NoAnchor
                   ELSE progress[CHOOSE i \in own : \A j \in own : j <= i].anchor

\* get_continuation_receipt: the newest receipt, then the newest anchor.
RestoreReads(s) ==
    /\ restoring = Unoccupied /\ guarding = Unoccupied
    /\ restoring' = [stage |-> "read", owner |-> s, anchor |-> NewestProgress(s),
                     newest |-> NewestOf(s)]
    /\ UNCHANGED <<anchors, bound, setting, progress, guarding>>

BindingIsCurrent(s, receipt) == receipt # NoAnchor /\ receipt = NewestOf(s)
RestoreJudges ==
    /\ restoring.stage = "read"
    /\ restoring' = IF BindingIsCurrent(restoring.owner, restoring.anchor)
                    THEN [restoring EXCEPT !.stage = "current"] ELSE Unoccupied
    /\ UNCHANGED <<anchors, bound, setting, progress, guarding>>

RestoreEnds ==
    /\ restoring.stage = "current"
    /\ restoring' = Unoccupied
    /\ UNCHANGED <<anchors, bound, setting, progress, guarding>>

(***************************************************************************)
(* Behaviours                                                              *)
(***************************************************************************)
\* A contract that was created without an instruction.
InstructionInit ==
    /\ anchors = <<>> /\ progress = <<>>
    /\ bound = [revision |-> 1, owner |-> CHOOSE s \in Speaker : TRUE,
                anchor |-> NoAnchor, needs |-> FALSE, answered |-> {}]
    /\ setting = Unoccupied /\ guarding = Unoccupied /\ restoring = Unoccupied

InstructionNext ==
    \/ \E s \in Speaker, text \in Wish \cup {Confirmation} : ObserveUser(s, text)
    \/ \E x \in SetOf : BeginSet(x)
    \/ PublishContract \/ RecordProgress \/ ReplaySet \/ SetDies
    \/ GuardReads \/ GuardJudges \/ GuardEnds
    \/ \E s \in Speaker : RestoreReads(s)
    \/ RestoreJudges \/ RestoreEnds

InstructionSpec == InstructionInit /\ [][InstructionNext]_instructionVars

Contracts == [revision : 1 .. MaxSets, owner : Speaker, anchor : 0 .. Len(anchors),
              needs : BOOLEAN, answered : SUBSET (DOMAIN anchors)]

InstructionTypeOK ==
    /\ anchors \in Seq([owner : Speaker, text : Wish \cup {Confirmation}])
    /\ Len(anchors) <= MaxAnchors
    /\ bound \in Contracts
    /\ setting \in {Unoccupied} \cup [stage : {"publish", "record"}, to : Contracts]
    /\ progress \in Seq([owner : Speaker, revision : 1 .. MaxSets,
                         anchor : 0 .. Len(anchors)])
    /\ guarding \in {Unoccupied} \cup
                     [stage : {"read", "passed"}, contract : Contracts,
                      seen : 0 .. Len(anchors)]
    /\ restoring \in {Unoccupied} \cup
                      [stage : {"read", "current"}, owner : Speaker,
                       anchor : 0 .. Len(anchors), newest : 0 .. Len(anchors)]

(***************************************************************************)
(* Properties                                                              *)
(***************************************************************************)
\* Work that the guard lets pass follows what the user said: each instruction there
\* was when the guard judged had been answered by a Set that maps it to a work line,
\* whoever observed, set, died or took the contract over between the guard's reads.
\* And a restore is not led back: receipts follow the revisions of the contract, each
\* once, and one that is reported as current (_continuation_receipt_binding_status) is
\* under no older instruction than the newest one when the restore began.
UserIsHeard ==
    /\ guarding.stage = "passed" =>
         \A i \in 1 .. guarding.seen :
           anchors[i].owner = guarding.contract.owner =>
             i \in guarding.contract.answered
    /\ \A i, j \in DOMAIN progress : i < j => progress[i].revision < progress[j].revision
    /\ restoring.stage = "current" => restoring.anchor >= restoring.newest
=============================================================================
