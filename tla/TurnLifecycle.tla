--------------------------- MODULE TurnLifecycle ---------------------------
(***************************************************************************)
(* A governed turn of one session (turn_runtime.py): open_turn,            *)
(* checkpoint_turn and close_turn over the execution contract, the live    *)
(* project files and the contract revision the broker has paired with the  *)
(* session.  A call looks at the contract's file, at the broker and at the *)
(* project's files one after the other, without a lock and several times;  *)
(* only the authority's Set and CloseTurn compare revisions.  Between any  *)
(* two looks another session may move the contract, the files may change   *)
(* and change back, and the channel may be paired anew or be lost.  One    *)
(* look at the project reads all its files at once.                        *)
(*                                                                         *)
(* Replay, timeouts and late writes of the authority are in TurnClose, the *)
(* receipt and telemetry files in TurnEvidence, the retry budget in        *)
(* FailureLoop.  A call that finds no task ends here: what a checkpoint or *)
(* close then does without a task id is not modelled.                      *)
(***************************************************************************)
EXTENDS Integers, FiniteSets

CONSTANTS TaskLine,          \* the worklines a session may be paired with
          NoLine,            \* no workline: the channel is gone
          Packets,           \* the progress checkpoints a caller may bring
          MaxTaskRevisions,  \* contract revisions considered
          MaxTurnCalls,      \* calls considered
          MaxVersions,       \* versions of the project files
          MaxOutside         \* moves of others

ASSUME LifecycleAssumption ==
    /\ NoLine \notin TaskLine
    /\ {MaxTaskRevisions, MaxVersions} \subseteq Nat \ {0}
    /\ {MaxTurnCalls, MaxOutside} \subseteq Nat
    /\ Packets \subseteq [source: {"user", "assistant"},
                        phase: {"plain", "stage1", "stage2", "done"},
                        proof: BOOLEAN, instructs: BOOLEAN]

VARIABLES contracts, \* line -> its execution contract
          project,   \* the version of the project files
          paired,    \* the contract revision the broker projects
          closeouts, \* the phase closeouts on file
          turn,      \* the call in progress
          stages,    \* history: the formal stages left, with their revision
          stood,     \* history: what stood at some instant since the call began
          outside    \* moves of others so far

lifecycleVars ==
    <<contracts, project, paired, closeouts, turn, stages, stood, outside>>

Phase == {"plain", "stage1", "stage2", "done"}
Formal == {"stage1", "stage2"}

\* A card on the return stack keeps what the parent showed and proved.
NoReturnCard == [shown |-> "none", proof |-> 0, kept |-> FALSE]
ReturnCard(c) == [shown |-> c.shown, proof |-> c.proof, kept |-> TRUE]

NoPacket == [source |-> "none", phase |-> "plain", proof |-> FALSE, instructs |-> FALSE]
NoView == [line |-> NoLine]

NoCall == [pc |-> "idle", calls |-> 0, op |-> "open", intent |-> "greeting",
           recovery |-> "none", purpose |-> "turn", packet |-> NoPacket,
           taken |-> 0, nested |-> FALSE, view |-> NoView, bundle |-> FALSE,
           base |-> 0, why |-> "none", dispatch |-> "none", answer |-> "none"]
NothingStood == [filed |-> {}, projected |-> {}, files |-> {}, fit |-> {}]

\* Turn intents by what they demand: an ungoverned one, direct work, a status,
\* a continuation, a correction, a plan or design, a memory write.
TurnIntent == {"greeting", "direct", "status", "continuity", "correction",
               "plan", "write"}
Continuing == {"status", "continuity", "correction"}   \* NORMAL_CONTINUITY_INTENTS
FormalOpen == {"plan", "write"}                        \* FORMAL_OPEN_INTENTS

----------------------------------------------------------------------------
(* What a contract is worth now. *)

\* _project_progress_status: the proof is of the files as they are.
ProofCurrent(c) == c.proof = project

\* validate_visible_progress_receipt: the shown progress is bound to that proof.
Visible(c) == c.shown # "none" /\ ProofCurrent(c)

\* What only an assistant's reply gives: continuationEligible.
Eligible(c) == Visible(c) /\ c.shown = "assistant"

\* _is_completed_terminal_contract of a card that waits for nothing.
Terminal(c) == c.phase = "done" /\ ~c.pending /\ ~c.card.kept

\* _is_terminal_finalization_contract: it still lacks its last receipt.
Finalizable(c) == Terminal(c) /\ c.shown = "none"

\* A look at the project needs its root, which only a bound channel has.
Proved(c) == paired.line # NoLine /\ ProofCurrent(c)

\* The broker's hash is compared with the contract's; a channel that is not bound
\* just then has none, and the comparison is skipped.
Agrees(l, rev) == paired.line = NoLine \/ paired = [line |-> l, rev |-> rev]

\* A contract that an executable continuation may rest on.
Fit(l) == ~contracts[l].pending /\ Eligible(contracts[l])

\* _is_forward_formal_phase_transition.
Forward(from, to) == from = "stage1" /\ to = "stage2"

\* find_phase_closeout_for_transition: the record of exactly this phase and revision.
ExactCloseout(l, phase, rev) == <<l, phase, rev>> \in closeouts

\* A continuation or a plan to act on.
Acts == turn.intent \in {"continuity", "plan"}

\* The proof an intent insists on, and what an open is strict about.
RequiresProof == Acts
Strict ==
    \/ RequiresProof
    \/ turn.intent \in FormalOpen
    \/ turn.intent \notin Continuing /\ turn.recovery = "none"

----------------------------------------------------------------------------
(* The call: turn.purpose says what an open_turn inside it is for, turn.view *)
(* is the contract it works from, turn.bundle that the open left its         *)
(* private bundle, turn.why who has the contract bound again, turn.answer    *)
(* the code of the last open or of the call.                                 *)

\* The call goes on at pc, with the listed fields replaced.
Goes(pc, fields) ==
    turn' = [f \in DOMAIN turn |-> IF f = "pc" THEN pc
                                  ELSE IF f \in DOMAIN fields THEN fields[f] ELSE turn[f]]
NoChange == <<>>
Reopens(purpose) ==
    Goes("read", [purpose |-> purpose, view |-> NoView, bundle |-> FALSE])
\* An answered call leaves nothing behind but its answer and, of a turn to act
\* on, the contract it rests on.
Answer(code) ==
    turn' = [NoCall EXCEPT !.pc = "done", !.calls = turn.calls,
                           !.intent = turn.intent, !.answer = code,
                           !.view = IF Acts THEN turn.view ELSE NoView]
TurnAt(pc) == turn.pc = pc /\ UNCHANGED outside

\* Nothing but the call itself changes.
Reads == UNCHANGED <<contracts, project, paired, closeouts, stages>>

\* What stands at this instant: the revisions on file, the one the broker projects,
\* the version of the files, and the revisions that are fit with these files.
RevisionsOf(lines) == {<<l, contracts[l].rev>> : l \in lines}
StandsNow ==
    [filed |-> RevisionsOf(TaskLine), projected |-> {<<paired.line, paired.rev>>},
     files |-> {project}, fit |-> RevisionsOf({l \in TaskLine : Fit(l)})]

\* It is noted while a call runs whose intent is to act.
Notes(fresh) ==
    LET past == IF fresh THEN NothingStood ELSE stood
    IN  stood' = IF Acts' THEN [f \in DOMAIN stood |-> past[f] \cup StandsNow'[f]]
                 ELSE NothingStood

\* _progress_checkpoint_intent_guard: a user's statement only corrects.
Attests(packet, intent) == packet.source = "user" => intent = "correction"

\* A checkpoint and a close take the write lease before anything else; an
\* open goes straight to its read.
BeginTurn(op, intent, recovery, packet) ==
    /\ turn.pc \in {"idle", "done"} /\ turn.calls < MaxTurnCalls
    /\ op = "open" => packet = NoPacket
    /\ op # "open" => recovery = "none"
    /\ op = "checkpoint" => packet # NoPacket
    /\ turn' = [NoCall EXCEPT
                  !.calls = turn.calls + 1, !.op = op, !.intent = intent,
                  !.recovery = recovery, !.packet = packet,
                  !.taken = IF packet.proof THEN project ELSE 0,
                  !.purpose = IF op = "open" THEN "turn" ELSE op,
                  !.pc = IF op = "open" THEN "read"
                         ELSE IF Attests(packet, intent) THEN "lease" ELSE "done",
                  !.answer = IF Attests(packet, intent) THEN "none" ELSE "withheld"]
    /\ Reads /\ UNCHANGED outside

TakeLease ==
    /\ TurnAt("lease")
    /\ IF paired.line # NoLine THEN Goes("read", [view |-> NoView])
       ELSE Answer("withheld")
    /\ Reads

----------------------------------------------------------------------------
(* open_turn. *)

Opened(code) == Goes("opened", [answer |-> code])

\* Ordinary direct work is not a task continuation unless the caller holds a
\* bundle of its own; a greeting never is.
Bypasses ==
    \/ turn.intent = "greeting"
    \/ turn.intent = "direct" /\ turn.purpose \in {"turn", "reopen"}

\* A finished card is out of sight, but for the one checkpoint that gives it
\* its last receipt.
Finalizing(c) ==
    /\ turn.purpose = "checkpoint" /\ Finalizable(c)
    /\ turn.packet.source = "assistant" /\ turn.packet.phase = "done"

\* The context of a light, recorded open is also its binding.  Mutant: so is a plan's.
SnapshotOfPlan ==
    /\ turn.purpose \in {"turn", "reopen", "after"}
    /\ turn.intent \in {"status", "continuity", "plan"} /\ turn.recovery = "none"
Snapshot ==
    /\ turn.purpose \in {"turn", "reopen", "after"}
    /\ turn.intent \in {"status", "continuity"} /\ turn.recovery = "none"

\* Without a session there is no context; a memory write says that it is not saved.
ContextOnly == Opened(IF turn.intent = "write" THEN "unsaved" ELSE "context_only")

\* Without a task a light continuation ends, and anything else is withheld.
NothingToResume ==
    Goes("opened", [view |-> NoView,
                    answer |-> IF turn.intent \in Continuing THEN "no_task" ELSE "withheld"])

\* core.context asks the channel for the session and its workspace, ...
ReadTurnContext ==
    /\ TurnAt("read")
    /\ IF Bypasses THEN Opened("direct")
       ELSE IF paired.line = NoLine THEN ContextOnly
       ELSE Goes("contract", [view |-> [line |-> paired.line]])
    /\ Reads

\* ... reads the contract's file, ...
ReadTurnContract ==
    LET l == turn.view.line
        c == contracts[l]
    IN  /\ TurnAt("contract")
        /\ IF Terminal(c) /\ ~Finalizing(c)
           THEN NothingToResume
           ELSE Goes("scope", [view |-> [line |-> l, c |-> c, seen |-> "none",
                                         fresh |-> FALSE]])
        /\ Reads

\* ... compares it with the broker's hash, and does not go on with a pending
\* instruction but for a checkpoint, ...
CompareScope ==
    LET v == turn.view
    IN  /\ TurnAt("scope")
        /\ IF Agrees(v.line, v.c.rev) /\ (v.c.pending => turn.purpose = "checkpoint")
           THEN Goes("progress", NoChange) ELSE Opened("withheld")
        /\ Reads

\* ... and looks at the project for the proof and the shown progress.
ReadProgress ==
    LET c == turn.view.c
        seen == IF Proved(c) THEN c.shown ELSE "none"
    IN  /\ TurnAt("progress")
        /\ Goes(IF Snapshot THEN "judge" ELSE "bind",
                [view |-> [turn.view EXCEPT !.seen = seen, !.fresh = Proved(c)],
                 why |-> IF Snapshot THEN "none" ELSE "open"])
        /\ Reads

\* _contract_binding, on behalf of turn.why: the contract's file is read again, ...
Unbound ==
    IF turn.why = "open" THEN Goes("opened", [answer |-> "withheld", why |-> "none"])
    ELSE IF turn.why = "fast" THEN Goes("resolve", [why |-> "none"])
    ELSE Answer("withheld")

Bind ==
    /\ TurnAt("bind")
    /\ IF contracts[turn.view.line].rev = turn.view.c.rev THEN Goes("rescope", NoChange)
       ELSE Unbound
    /\ Reads

\* ... and compared with the broker's hash again; what asked for it goes on.
Rescope ==
    /\ TurnAt("rescope")
    /\ IF Agrees(turn.view.line, turn.view.c.rev) THEN Goes("bound", NoChange)
       ELSE Unbound
    /\ Reads

\* An open looks at the proof again.
BoundOpen ==
    /\ TurnAt("bound") /\ turn.why = "open"
    /\ Goes("judge", [view |-> [turn.view EXCEPT !.fresh = Proved(turn.view.c)],
                      why |-> "none"])
    /\ Reads

\* What an open objects to in the contract it bound, in the code's order.
Objection ==
    LET v == turn.view
    IN  IF v.c.pending THEN "reconcile"
        ELSE IF RequiresProof /\ ~v.fresh THEN "proof"
        ELSE IF Strict /\ v.seen = "none" THEN "visible"
        ELSE IF Strict /\ v.seen # "assistant" THEN "reply"
        ELSE IF turn.recovery = "parent_return"
                /\ ~(v.c.returned /\ v.seen = "assistant") THEN "withheld"
        ELSE "none"

Judge ==
    /\ TurnAt("judge")
    /\ IF Objection # "none" THEN Opened(Objection)
       ELSE Goes(IF turn.intent = "write" THEN "authorize" ELSE "guard", [base |-> 0])
    /\ Reads

\* A memory write needs the authority's word on the revision that was read.
AuthorizeWrite ==
    /\ TurnAt("authorize")
    /\ IF contracts[turn.view.line].rev = turn.view.c.rev THEN Goes("guard", [base |-> 0])
       ELSE Opened("withheld")
    /\ Reads

\* A fresh write lease, for the contract the context was built from.
GuardScope ==
    /\ TurnAt("guard")
    /\ Opened(IF paired = [line |-> turn.view.line, rev |-> turn.view.c.rev]
              THEN "fit" ELSE "withheld")
    /\ Reads

\* An open turn is answered as it was opened.
AnswerOpen ==
    /\ TurnAt("opened") /\ turn.purpose = "turn"
    /\ Answer(IF turn.answer = "fit" THEN "ready"
                ELSE IF turn.answer \in {"direct", "context_only", "unsaved", "no_task"}
                     THEN turn.answer ELSE "withheld")
    /\ Reads

----------------------------------------------------------------------------
(* checkpoint_turn. *)

\* What a checkpoint may repair, and what it has to bring for it.
Repairable ==
    \/ turn.answer = "proof" /\ turn.packet.proof
    \/ turn.answer \in {"visible", "reply"} /\ (turn.view.fresh \/ turn.packet.proof)
    \/ turn.answer = "reconcile" /\ turn.packet.proof /\ turn.packet.instructs

\* Where the preflight of a checkpoint or a close leads without a contract:
\* a session lost meanwhile leaves no context to go on with, an ungoverned
\* turn has none.
Lost(code) ==
    IF code \in {"direct", "context_only"} THEN "error"
    ELSE IF code = "no_task" THEN "no_task" ELSE "withheld"

CheckpointOpened ==
    /\ TurnAt("opened") /\ turn.purpose = "checkpoint"
    /\ IF turn.answer = "fit" THEN Goes("record", [bundle |-> TRUE])
       ELSE IF Repairable THEN Goes("bind", [bundle |-> FALSE, why |-> "repair"])
       ELSE Answer(Lost(turn.answer))
    /\ Reads

\* The repair binds the contract once more and works without a bundle.
Repair ==
    /\ TurnAt("bound") /\ turn.why = "repair"
    /\ Goes("record", [why |-> "none"])
    /\ Reads

\* record_progress_checkpoint takes the bundle's contract for its base, but not
\* for a step to the next formal stage.
Hinted == turn.bundle /\ ~Forward(turn.view.c.phase, turn.packet.phase)

\* Without that hint it asks the authority; a forward step needs the closeout
\* of the stage it leaves.
Record ==
    LET l == turn.view.line
        c == IF Hinted THEN turn.view.c ELSE contracts[l]
    IN  /\ TurnAt("record")
        /\ IF Forward(c.phase, turn.packet.phase) /\ ~ExactCloseout(l, c.phase, c.rev)
           THEN Answer("failed")
           ELSE Goes("set", [base |-> c.rev])
        /\ Reads

\* What Set insists on under its lock: the expected revision, a proof of the
\* files as they are (a new one, or the old one if the phase stays), and for
\* a forward step the closeout and the evidence it rests on.
SetAdmits(c) ==
    /\ c.rev = turn.base
    /\ IF turn.packet.proof THEN turn.taken = project
       ELSE ProofCurrent(c) /\ turn.packet.phase = c.phase
    /\ Forward(c.phase, turn.packet.phase) =>
         ExactCloseout(turn.view.line, c.phase, c.rev) /\ Visible(c)

\* A Set without an instruction leaves a pending one pending.
WithProgress(c) ==
    [c EXCEPT !.rev = @ + 1, !.phase = turn.packet.phase, !.shown = turn.packet.source,
              !.proof = project, !.pending = @ /\ ~turn.packet.instructs]

\* A Set whose answer was lost and was found on file afterwards is reported
\* without refreshing the broker's projection.
SetProgress ==
    LET l == turn.view.line
        c == contracts[l]
    IN  /\ TurnAt("set") /\ c.rev < MaxTaskRevisions
        /\ IF SetAdmits(c)
           THEN /\ contracts' = [contracts EXCEPT ![l] = WithProgress(c)]
                /\ stages' = IF Forward(c.phase, turn.packet.phase)
                             THEN stages \cup {<<l, c.phase, c.rev>>} ELSE stages
                /\ \/ Goes("refresh", [base |-> 0])
                   \/ Reopens(IF turn.op = "close" /\ ~turn.nested
                              THEN "closing" ELSE "reopen")
           ELSE Answer("failed") /\ UNCHANGED <<contracts, stages>>
        /\ UNCHANGED <<project, paired, closeouts>>

\* refresh_scope_contract: the broker takes the new revision of the workline
\* the channel is bound to, and refuses another.
Refreshes(l) ==
    /\ paired.line = l
    /\ paired' = [line |-> l, rev |-> contracts[l].rev]

RefreshScope ==
    LET l == turn.view.line
    IN  /\ TurnAt("refresh")
        /\ \/ /\ Refreshes(l)
              /\ Reopens(IF turn.op = "close" /\ ~turn.nested THEN "closing" ELSE "reopen")
           \/ /\ paired.line # l /\ UNCHANGED paired
              /\ Answer(IF turn.nested THEN "withheld" ELSE "partial")
        /\ UNCHANGED <<contracts, project, closeouts, stages>>

\* The turn is opened again on what was written; a close that had its
\* checkpoint made this way goes on from there.
Reopened ==
    /\ TurnAt("opened") /\ turn.purpose = "reopen"
    /\ IF turn.answer \in {"direct", "context_only"} THEN Answer("error")
       ELSE IF turn.answer \in {"fit", "no_task"}
            THEN IF ~turn.nested THEN Answer("checkpointed")
                 ELSE IF turn.answer = "no_task" THEN Answer("no_task")
                 ELSE Goes("dispatch", [purpose |-> "close", packet |-> NoPacket])
       ELSE Answer(IF turn.answer = "reply" /\ turn.packet.source = "user" /\ ~turn.nested
                     THEN "attested" ELSE "withheld")
    /\ Reads

----------------------------------------------------------------------------
(* close_turn. *)

\* The preflight of a close that is withheld may be repaired by a checkpoint
\* inside the close, if the caller brought one.
CloseOpened ==
    /\ TurnAt("opened") /\ turn.purpose \in {"close", "closing"}
    /\ IF turn.answer = "fit"
       THEN Goes(IF turn.purpose = "close" /\ turn.packet # NoPacket
                 THEN "record" ELSE "dispatch", [bundle |-> TRUE])
       ELSE IF turn.purpose = "close" /\ turn.packet # NoPacket
               /\ turn.answer \notin {"direct", "context_only", "no_task"}
            THEN Goes("lease", [purpose |-> "checkpoint", nested |-> TRUE])
       ELSE Answer(Lost(turn.answer))
    /\ Reads

\* With its bundle a close first binds the contract once more.
DispatchTurn ==
    /\ TurnAt("dispatch")
    /\ IF turn.bundle THEN Goes("bind", [why |-> "fast"]) ELSE Goes("resolve", NoChange)
    /\ Reads

\* _policy_only_fast_close: an unfinished, informal turn without a checkpoint,
\* its proof and its shown progress as they were.
FastPolicy(c) ==
    /\ turn.purpose = "close" /\ Proved(c)
    /\ turn.view.seen = "assistant" /\ c.phase \notin Formal

\* Then the authority may be left out, if what the caller reports of the turn
\* allows it.
FastClose ==
    /\ TurnAt("bound") /\ turn.why = "fast"
    /\ \/ /\ FastPolicy(turn.view.c)
          /\ Goes("closeout", [dispatch |-> "fast", why |-> "none"])
       \/ Goes("resolve", [why |-> "none"])
    /\ Reads

\* dispatch_turn_close resolves the contract first: nothing to do, a return
\* that was made before, or a branch to return from.
ResolveDispatch ==
    LET c == contracts[turn.view.line]
    IN  /\ TurnAt("resolve")
        /\ \/ Goes("settle", [dispatch |-> "policy"])
           \/ c.returned /\ Goes("settle", [dispatch |-> "replay"])
           \/ c.card.kept /\ ~c.pending /\ Goes("return", [base |-> c.rev])
        /\ Reads

\* CloseTurn puts the parent's card back, if the contract has not moved, no
\* instruction waits and what the parent showed is still proved; a transition
\* that failed is reported as a close that changed nothing.
ReturnToParent ==
    LET l == turn.view.line
        c == contracts[l]
    IN  /\ TurnAt("return") /\ c.rev < MaxTaskRevisions
        /\ IF /\ c.rev = turn.base /\ c.card.kept /\ ~c.pending
              /\ c.card.shown # "none" /\ c.card.proof = project
           THEN /\ contracts' = [contracts EXCEPT ![l] =
                     [rev |-> c.rev + 1, phase |-> "plain", pending |-> FALSE,
                      shown |-> c.card.shown, proof |-> project,
                      card |-> NoReturnCard, returned |-> TRUE]]
                /\ Goes("settle", [dispatch |-> "resumed"])
           ELSE Goes("settle", [dispatch |-> "failed"]) /\ UNCHANGED contracts
        /\ UNCHANGED <<project, paired, closeouts, stages>>

Mutated == turn.dispatch = "resumed"

\* Anything but a policy refreshes the broker's projection.  A dispatch that
\* changed nothing is reported from the preflight's bundle, else the turn is
\* opened once more.
SettleDispatch ==
    LET next == IF ~Mutated /\ turn.bundle THEN Goes("closeout", [base |-> 0])
                ELSE Reopens("after")
    IN  /\ TurnAt("settle")
        /\ \/ turn.dispatch = "policy" /\ next /\ UNCHANGED paired
           \/ turn.dispatch # "policy" /\ Refreshes(turn.view.line) /\ next
           \/ /\ turn.dispatch # "policy" /\ paired.line # turn.view.line
              /\ UNCHANGED paired
              /\ Answer(IF Mutated THEN "partial" ELSE "failed")
        /\ UNCHANGED <<contracts, project, closeouts, stages>>

\* The open after the dispatch: withheld it is surfaced as such; without a
\* task or a session there is nothing to bind.
PostOpened ==
    /\ TurnAt("opened") /\ turn.purpose = "after"
    /\ IF turn.answer = "fit" THEN Goes("bind", [why |-> "after"])
       ELSE Answer(IF turn.answer \in {"no_task", "context_only"} THEN "withheld"
                     ELSE "observe")
    /\ Reads

\* It is bound once more, and a plan asks for its proof again.
ConfirmPost ==
    /\ TurnAt("bound") /\ turn.why = "after"
    /\ IF turn.intent = "plan" => Proved(turn.view.c)
       THEN Goes("closeout", [why |-> "none"]) ELSE Answer("withheld")
    /\ Reads

\* create_phase_closeout in a formal phase: the authority checks revision and
\* evidence; whatever it says, the turn is closed.
WriteCloseout ==
    LET l == turn.view.line
        c == contracts[l]
        seen == turn.view.c
    IN  /\ TurnAt("closeout")
        /\ closeouts' = IF /\ seen.phase \in Formal /\ c.rev = seen.rev
                           /\ ~c.pending /\ Eligible(c)
                        THEN closeouts \cup {<<l, c.phase, c.rev>>} ELSE closeouts
        /\ Answer("closed")
        /\ UNCHANGED <<contracts, project, paired, stages>>

----------------------------------------------------------------------------
(* Others: sessions that move the contract, edits of the project, the        *)
(* control surface that pairs channels.                                      *)

Elsewhere ==
    /\ outside < MaxOutside /\ outside' = outside + 1
    /\ UNCHANGED <<turn, closeouts, stages>>

MoveContract(l, c) ==
    /\ Elsewhere /\ contracts[l].rev < MaxTaskRevisions
    /\ contracts' = [contracts EXCEPT ![l] = [c EXCEPT !.rev = contracts[l].rev + 1]]
    /\ UNCHANGED <<project, paired>>

\* A new instruction waits to be reconciled.
Instructed(l) == MoveContract(l, [contracts[l] EXCEPT !.pending = TRUE])
Progressed(l) ==
    MoveContract(l, [contracts[l] EXCEPT !.shown = "assistant", !.proof = project])
Completed(l) ==
    /\ contracts[l].phase # "done" /\ ~contracts[l].card.kept
    /\ MoveContract(l, [contracts[l] EXCEPT !.phase = "done", !.shown = "none"])
Suspended(l) ==
    /\ contracts[l].phase = "plain" /\ ~contracts[l].card.kept /\ ~contracts[l].returned
    /\ MoveContract(l, [contracts[l] EXCEPT !.card = ReturnCard(contracts[l])])

\* The files change, or are put back as they were.
EditProject ==
    /\ Elsewhere /\ project' \in (1 .. MaxVersions) \ {project}
    /\ UNCHANGED <<contracts, paired>>

PairAnew(l) ==
    /\ Elsewhere /\ paired' = [line |-> l, rev |-> contracts[l].rev]
    /\ UNCHANGED <<contracts, project>>

LoseChannel ==
    /\ Elsewhere /\ paired.line # NoLine /\ paired' = [line |-> NoLine, rev |-> 0]
    /\ UNCHANGED <<contracts, project>>

----------------------------------------------------------------------------

FirstContract(phase, pending) ==
    [rev |-> 1, phase |-> phase, pending |-> pending, shown |-> "assistant",
     proof |-> 1, card |-> NoReturnCard, returned |-> FALSE]

LifecycleInit ==
    /\ \E phase \in {"plain", "stage1"} :
         contracts = [l \in TaskLine |-> FirstContract(phase, FALSE)]
    /\ project \in 1 .. MaxVersions
    /\ \E l \in TaskLine : paired = [line |-> l, rev |-> 1]
    /\ closeouts = {} /\ turn = NoCall
    /\ stages = {} /\ stood = NothingStood /\ outside = 0

Starts ==
    \E op \in {"open", "checkpoint", "close"}, intent \in TurnIntent,
       recovery \in {"none", "resume", "parent_return"},
       packet \in Packets \cup {NoPacket} :
        BeginTurn(op, intent, recovery, packet)

Proceeds ==
    \/ TakeLease \/ ReadTurnContext \/ ReadTurnContract \/ CompareScope \/ ReadProgress
    \/ Bind \/ Rescope \/ BoundOpen \/ Judge \/ AuthorizeWrite \/ GuardScope
    \/ AnswerOpen \/ CheckpointOpened \/ Repair \/ Record \/ SetProgress
    \/ RefreshScope \/ Reopened \/ CloseOpened \/ DispatchTurn \/ FastClose
    \/ ResolveDispatch \/ ReturnToParent \/ SettleDispatch \/ PostOpened \/ ConfirmPost
    \/ WriteCloseout

Interferes ==
    \/ \E l \in TaskLine :
         Instructed(l) \/ Progressed(l) \/ Completed(l) \/ Suspended(l) \/ PairAnew(l)
    \/ EditProject \/ LoseChannel

LifecycleNext ==
    \/ Starts /\ Notes(TRUE)
    \/ Proceeds /\ Notes(FALSE)
    \/ Interferes /\ Notes(FALSE)

LifecycleSpec == LifecycleInit /\ [][LifecycleNext]_lifecycleVars

(***************************************************************************)
(* Properties.                                                             *)
(***************************************************************************)

ShownBy == {"none", "user", "assistant"}
ReturnCards == [shown: ShownBy, proof: 0 .. MaxVersions, kept: BOOLEAN]
TaskContracts ==
    [rev: 1 .. MaxTaskRevisions, phase: Phase, pending: BOOLEAN, shown: ShownBy,
     proof: 0 .. MaxVersions, card: ReturnCards, returned: BOOLEAN]
Views == [line: TaskLine, c: TaskContracts, seen: ShownBy, fresh: BOOLEAN]
LineViews == [line: TaskLine]   \* a view before the contract is read
TurnCalls ==
    [pc: {"idle", "lease", "read", "contract", "scope", "progress", "bind", "rescope",
          "bound", "judge", "authorize", "guard", "opened", "record", "set", "refresh",
          "dispatch", "resolve", "return", "settle", "closeout", "done"},
     calls: 0 .. MaxTurnCalls, op: {"open", "checkpoint", "close"}, intent: TurnIntent,
     recovery: {"none", "resume", "parent_return"},
     purpose: {"turn", "checkpoint", "close", "closing", "reopen", "after"},
     packet: Packets \cup {NoPacket}, taken: 0 .. MaxVersions, nested: BOOLEAN,
     view: Views \cup LineViews \cup {NoView}, bundle: BOOLEAN, base: 0 .. MaxTaskRevisions,
     why: {"none", "open", "repair", "fast", "after"},
     dispatch: {"none", "fast", "policy", "replay", "resumed", "failed"},
     answer: {"none", "withheld", "direct", "unsaved", "context_only", "no_task", "proof",
              "visible", "reply", "reconcile", "fit", "ready", "error", "failed",
              "checkpointed", "partial", "attested", "observe", "closed"}]
LineRevisions == (TaskLine \cup {NoLine}) \X (0 .. MaxTaskRevisions)

LifecycleTypeOK ==
    /\ contracts \in [TaskLine -> TaskContracts] /\ project \in 1 .. MaxVersions
    /\ paired \in [line: TaskLine \cup {NoLine}, rev: 0 .. MaxTaskRevisions]
    /\ turn \in TurnCalls
    /\ {closeouts, stages} \subseteq SUBSET (TaskLine \X Formal \X (1 .. MaxTaskRevisions))
    /\ stood \in [filed: SUBSET LineRevisions, projected: SUBSET LineRevisions,
                  files: SUBSET (1 .. MaxVersions), fit: SUBSET LineRevisions]
    /\ outside \in 0 .. MaxOutside

\* A formal stage is left for the next one only with the closeout of exactly
\* that stage and revision, however the contract, the files or the pairing
\* moved between the close that wrote it and the checkpoint that used it.
StageLeftClosed == stages \subseteq closeouts

\* A turn that is answered as a continuation or a plan to act on rests on a
\* revision that was on file at some instant of the call, that the broker
\* projected at some instant of it, that had nothing pending, and whose progress
\* an assistant showed with a proof that fitted the files at some instant of it.
\* For a plan, which binds the contract twice, one instant had the revision on file and
\* the files as it proves them.  A light continuation is read once: for it these
\* may be different instants, and the files may be put back to what an older
\* revision proves while the contract has moved on.
Acting ==
    /\ turn.pc = "done" /\ turn.answer \in {"ready", "checkpointed", "closed"}
    /\ Acts /\ turn.view # NoView
ContinuationStood ==
    Acting =>
      LET v == turn.view
          revision == <<v.line, v.c.rev>>
      IN  /\ revision \in stood.filed \cap stood.projected
          /\ ~v.c.pending /\ v.c.shown = "assistant" /\ v.c.proof \in stood.files
          /\ turn.intent = "plan" => revision \in stood.fit

\* A call never does on the strength of several looks what the contract never
\* allowed: leaving a formal stage (_formal_closeout_resolution,
\* turn_close_dispatcher.py) or answering as a turn to act on (turn_runtime.py).
TurnRestsOnOneRevision == StageLeftClosed /\ ContinuationStood
=============================================================================
