----------------------------- MODULE TurnClose -----------------------------
(***************************************************************************)
(* How a turn records its progress and gives the work back to the parent   *)
(* task: record_progress_checkpoint and dispatch_turn_close of             *)
(* turn_close_dispatcher.py against the execution contract that            *)
(* execution-contract.ps1 keeps.                                           *)
(*                                                                         *)
(* A command goes to a resident worker first and, when that is missing or  *)
(* does not answer in time, once more to a fresh process, with the same    *)
(* arguments.  A worker that is late is killed with its children; of a     *)
(* fresh process that is late only the process itself is killed, and the   *)
(* store process it started may commit afterwards, or never (an orphan).  Callers    *)
(* may live in different processes and then have workers of their own.     *)
(*                                                                         *)
(* The contract is its ledger of transitions, the progress it shows and    *)
(* the return cards of suspended parents; its revision is one more than    *)
(* the number of transitions written.  The plan fingerprint moves only     *)
(* with a transition and is left to the revision.                          *)
(***************************************************************************)
EXTENDS Naturals, Sequences, FiniteSets, SequencesExt

CONSTANTS Caller,        \* checkpoint and close calls, one by each caller
          Checkpoint,    \* five-field progress checkpoints
          Proven,        \* the checkpoints that come with completed items
          TurnId,        \* transition ids chosen by callers
          NoCheckpoint,  \* no progress shown, no receipt
          OtherId,       \* the id of transitions written by other commands
          LedgerSize,    \* transition receipts the contract keeps (8)
          MaxWritten     \* bound on the transitions written

ASSUME TurnAssumption ==
    /\ Proven \subseteq Checkpoint
    /\ OtherId \notin Checkpoint \cup TurnId
    /\ NoCheckpoint \notin Checkpoint
    /\ {LedgerSize, MaxWritten} \subseteq Nat

VARIABLES
    contract,       \* ledger, shown progress, return cards
    mutationFiles,  \* revision of the canonical-status file of an id, 0 if none
    calls,          \* the calls of this module's two functions
    attempts,       \* authority processes working for them
    written         \* every transition with the revision it was asked for

turnVars == <<contract, mutationFiles, calls, attempts, written>>

\* The id of a checkpoint whose caller names none is a hash of the checkpoint.
Id == Checkpoint \cup TurnId
ContractRevision == Len(written) + 1
Shown == [checkpoint : Checkpoint \cup {NoCheckpoint}, id : Id \cup {OtherId}]
Receipt == [id : Id \cup {OtherId}, action : {"Set", "ResumeParent"},
            checkpoint : Checkpoint \cup {NoCheckpoint}]

Idle == [pc |-> "idle", action |-> "Set", id |-> OtherId, parent |-> FALSE,
         checkpoint |-> NoCheckpoint, revision |-> 0, round |-> 0,
         channel |-> "warm", result |-> "none"]

\* A ledger has at most one receipt of an id.
Places(ledger, id) == {i \in DOMAIN ledger : ledger[i].id = id}
Recorded(id) == Places(contract.ledger, id) # {}
ReceiptOf(id) == contract.ledger[CHOOSE i \in Places(contract.ledger, id) : TRUE]

\* The receipts of other ids, then the new one (without the limit).
UnlimitedReceipts(ledger, receipt) ==
    LET at == Places(ledger, receipt.id)
    IN  Append(IF at = {} THEN ledger ELSE RemoveAt(ledger, CHOOSE i \in at : TRUE),
               receipt)

\* The last LedgerSize of them.
LimitReceipts(ledger, receipt) ==
    LET all == UnlimitedReceipts(ledger, receipt)
    IN  IF Len(all) <= LedgerSize THEN all
        ELSE SubSeq(all, Len(all) - LedgerSize + 1, Len(all))

TransitionOf(x) == [id |-> x.id, action |-> x.action, checkpoint |-> x.checkpoint]

(***************************************************************************)
(* The authority.                                                          *)
(***************************************************************************)

\* The contract a transition makes of the current one: a checkpoint is
\* shown, a resumed parent's card is restored with the progress it had.
After(x) ==
    [ledger |-> LimitReceipts(contract.ledger, TransitionOf(x)),
     shown  |-> IF x.action = "Set" THEN [checkpoint |-> x.checkpoint, id |-> x.id]
                                    ELSE Last(contract.cards),
     cards  |-> IF x.action = "Set" THEN contract.cards ELSE Front(contract.cards)]

AskedFor(x, revision) == [id |-> x.id, action |-> x.action,
                          checkpoint |-> x.checkpoint, seen |-> revision]
Write(x) ==
    /\ contract' = After(x)
    /\ written' = Append(written, AskedFor(x, x.revision))

LockFree == \A a \in attempts : a.stage # "holding"

Step(a, stage, answer) ==
    attempts' = (attempts \ {a}) \cup {[a EXCEPT !.stage = stage, !.answer = answer]}

\* decide_turn_close for a side branch that the user's control and completion
\* evidence attest: the parent is resumed if one is suspended.
ResumeRequired == contract.cards # <<>>

\* CloseTurn resolves the contract and asks the policy before it takes the
\* lock: where no parent is suspended it answers well and does nothing.
DecideTurnClose(a) ==
    /\ a.stage = "sent" /\ a.action = "ResumeParent"
    /\ IF Recorded(a.id) \/ ResumeRequired
         THEN Step(a, "decided", "none")
         ELSE Step(a, "answered", "policy")
    /\ UNCHANGED <<contract, mutationFiles, calls, written>>

\* Whether a receipt answers for a transition: its content counts too, not
\* the id alone.
SameId(a) == Recorded(a.id)
Replays(a) == Recorded(a.id) /\ ReceiptOf(a.id) = TransitionOf(a)

\* Set-Contract and Resume-ParentContract under the contract's file lock: an
\* id already recorded is replayed or refused, else the revision decides and
\* the transition is handed to the store process to commit.
EnterAuthority(a) ==
    /\ a.stage = (IF a.action = "Set" THEN "sent" ELSE "decided")
    /\ LockFree
    /\ IF Recorded(a.id)
         THEN Step(a, "answered", IF Replays(a) THEN "replay" ELSE "refused")
         ELSE IF \/ a.revision # ContractRevision
                 \/ a.action = "ResumeParent" /\ ~ResumeRequired
                THEN Step(a, "answered", "refused")
                ELSE Step(a, "holding", "none")
    /\ UNCHANGED <<contract, mutationFiles, calls, written>>

\* The store process replaces the contract only if it is still the one the
\* transition was computed from.
ReplaceIfHash(a) == a.revision = ContractRevision

CommitContinuity(a) ==
    /\ a.stage \in {"holding", "orphan"}
    /\ IF ReplaceIfHash(a) THEN Len(written) < MaxWritten /\ Write(a)
                           ELSE UNCHANGED <<contract, written>>
    /\ IF a.stage = "orphan" THEN attempts' = attempts \ {a}
       ELSE Step(a, "answered", IF ReplaceIfHash(a) THEN "ok" ELSE "refused")
    /\ UNCHANGED <<mutationFiles, calls>>

\* Another command of the session starts a side branch: the parent's card is
\* suspended.
StartBranch ==
    /\ LockFree
    /\ Len(written) < MaxWritten
    /\ LET other == [id |-> OtherId, action |-> "Set", checkpoint |-> NoCheckpoint]
       IN  /\ contract' = [After(other) EXCEPT !.cards = Append(@, contract.shown)]
           /\ written' = Append(written, AskedFor(other, ContractRevision))
    /\ UNCHANGED <<mutationFiles, calls, attempts>>

(***************************************************************************)
(* The calls.                                                              *)
(***************************************************************************)

Set(c, call) == calls' = [calls EXCEPT ![c] = call]

FinishCall(c, result) ==
    Set(c, [Idle EXCEPT !.pc = "done", !.id = calls[c].id, !.action = calls[c].action,
                        !.checkpoint = calls[c].checkpoint, !.result = result])

\* The canonical-status file of a checkpoint with completed items is made
\* once for an id and names the revision: one left by a call that lost to
\* another revision stands in the way of the next call with that id.
CanonicalMutation(cp, id) ==
    IF cp \notin Proven THEN UNCHANGED mutationFiles
    ELSE /\ mutationFiles[id] \in {0, ContractRevision}
         /\ mutationFiles' = [mutationFiles EXCEPT ![id] = ContractRevision]

\* record_progress_checkpoint up to its first Set, on the contract the turn
\* was opened with or a fresh one.
BeginCheckpoint(c, cp, id) ==
    /\ calls[c].pc = "idle"
    /\ id \in {cp} \cup TurnId
    /\ CanonicalMutation(cp, id)
    /\ Set(c, [Idle EXCEPT !.pc = "ready", !.id = id, !.checkpoint = cp,
                           !.revision = ContractRevision, !.round = 1])
    /\ UNCHANGED <<contract, attempts, written>>

\* dispatch_turn_close resolves the contract ...
ResolveClose(c, id) ==
    /\ calls[c].pc = "idle"
    /\ Set(c, [Idle EXCEPT !.pc = "resolved", !.action = "ResumeParent", !.id = id,
                           !.parent = ResumeRequired,
                           !.revision = ContractRevision, !.round = 2])
    /\ UNCHANGED <<contract, mutationFiles, attempts, written>>

\* ... then reads its ledger: only a receipt of a resumed parent is replayed.
ReplayableClose(id) == Recorded(id) /\ ReceiptOf(id).action = "ResumeParent"

LookUpClose(c) ==
    /\ calls[c].pc = "resolved"
    /\ IF ReplayableClose(calls[c].id) THEN FinishCall(c, "replayed")
       ELSE IF ~calls[c].parent THEN FinishCall(c, "policy")
       ELSE Set(c, [calls[c] EXCEPT !.pc = "ready", !.parent = FALSE])
    /\ UNCHANGED <<contract, mutationFiles, attempts, written>>

\* _invoke_contract: to the worker, or past it when there is none.
Invoke(c, channel) ==
    /\ calls[c].pc = "ready"
    /\ calls[c].channel = "cold" => channel = "cold"
    /\ attempts' = attempts \cup
         {[id |-> calls[c].id, action |-> calls[c].action,
           checkpoint |-> calls[c].checkpoint, caller |-> c,
           revision |-> calls[c].revision, round |-> calls[c].round,
           channel |-> channel, stage |-> "sent", answer |-> "none"]}
    /\ Set(c, [calls[c] EXCEPT !.pc = "waiting", !.channel = channel])
    /\ UNCHANGED <<contract, mutationFiles, written>>

\* The process a call waits for.
Awaited(c) ==
    {a \in attempts : /\ a.caller = c /\ a.stage # "orphan"
                      /\ calls[c].pc = "waiting"
                      /\ a.round = calls[c].round /\ a.channel = calls[c].channel}

\* The answer arrives.  Of a close, every well answer is taken for a resumed
\* parent.
TakeAnswer(c) ==
    \E a \in Awaited(c) :
        /\ a.stage = "answered"
        /\ attempts' = attempts \ {a}
        /\ IF a.action = "ResumeParent"
             THEN FinishCall(c, IF a.answer = "refused" THEN "failed" ELSE "resumed")
           ELSE IF a.answer = "refused"
             THEN Set(c, [calls[c] EXCEPT !.pc = "unsure", !.result = "refused"])
           ELSE FinishCall(c, "written")
        /\ UNCHANGED <<contract, mutationFiles, written>>

\* A late worker is killed with its children.
WarmTimesOut(c) ==
    \E a \in Awaited(c) :
        /\ a.channel = "warm"
        /\ attempts' = attempts \ {a}
        /\ Set(c, [calls[c] EXCEPT !.pc = "ready", !.channel = "cold"])
        /\ UNCHANGED <<contract, mutationFiles, written>>

\* Of a late fresh process the store process survives.
ColdTimesOut(c) ==
    \E a \in Awaited(c) :
        /\ a.channel = "cold"
        /\ IF a.stage = "holding" THEN Step(a, "orphan", "none")
                                  ELSE attempts' = attempts \ {a}
        /\ IF a.action = "ResumeParent" THEN FinishCall(c, "failed")
           ELSE Set(c, [calls[c] EXCEPT !.pc = "unsure", !.result = "unknown"])
        /\ UNCHANGED <<contract, mutationFiles, written>>

\* _reconcile_progress_checkpoint: the transition is in the ledger and its
\* checkpoint is what the contract shows.
Reconciled(call) ==
    /\ Recorded(call.id)
    /\ contract.shown = [checkpoint |-> call.checkpoint, id |-> call.id]

\* After a failed Set the contract is read; if it does not show the
\* checkpoint and the authority did not answer, the Set is repeated once.
Reconcile(c) ==
    /\ calls[c].pc = "unsure"
    /\ \E read \in BOOLEAN :
         IF read /\ Reconciled(calls[c]) THEN FinishCall(c, "reconciled")
         ELSE IF calls[c].result = "refused" \/ calls[c].round = 2
                THEN FinishCall(c, calls[c].result)
         ELSE Set(c, [calls[c] EXCEPT !.pc = "ready", !.round = 2, !.channel = "warm",
                                      !.result = "none"])
    /\ UNCHANGED <<contract, mutationFiles, attempts, written>>

TurnInit ==
    /\ contract = [ledger |-> <<>>, cards |-> <<>>,
                   shown |-> [checkpoint |-> NoCheckpoint, id |-> OtherId]]
    /\ mutationFiles = [id \in Id |-> 0]
    /\ calls = [c \in Caller |-> Idle]
    /\ attempts = {}
    /\ written = <<>>

TurnNext ==
    \/ StartBranch
    \/ \E a \in attempts : \/ DecideTurnClose(a) \/ EnterAuthority(a)
                           \/ CommitContinuity(a)
    \/ \E c \in Caller :
         \/ \E cp \in Checkpoint, id \in Id : BeginCheckpoint(c, cp, id)
         \/ \E id \in TurnId : ResolveClose(c, id)
         \/ \E channel \in {"warm", "cold"} : Invoke(c, channel)
         \/ LookUpClose(c) \/ TakeAnswer(c) \/ WarmTimesOut(c) \/ ColdTimesOut(c)
         \/ Reconcile(c)

TurnSpec == TurnInit /\ [][TurnNext]_turnVars

(***************************************************************************)
(* Properties.                                                             *)
(***************************************************************************)

AuthorityProcess ==
    [id : Id, action : {"Set", "ResumeParent"},
     checkpoint : Checkpoint \cup {NoCheckpoint}, caller : Caller,
     revision : 0 .. MaxWritten + 1, round : 0 .. 2, channel : {"warm", "cold"},
     stage : {"sent", "decided", "holding", "orphan", "answered"},
     answer : {"none", "ok", "replay", "refused", "policy"}]

CallRecord ==
    [pc : {"idle", "resolved", "ready", "waiting", "unsure", "done"},
     action : {"Set", "ResumeParent"}, id : Id \cup {OtherId}, parent : BOOLEAN,
     checkpoint : Checkpoint \cup {NoCheckpoint}, revision : 0 .. MaxWritten + 1,
     round : 0 .. 2, channel : {"warm", "cold"},
     result : {"none", "refused", "unknown", "written", "reconciled", "replayed",
               "policy", "resumed", "failed"}]

TurnTypeOK ==
    /\ contract \in [ledger : Seq(Receipt), shown : Shown, cards : Seq(Shown)]
    /\ Len(contract.ledger) <= LedgerSize
    /\ mutationFiles \in [Id -> 0 .. MaxWritten + 1]
    /\ calls \in [Caller -> CallRecord]
    /\ attempts \subseteq AuthorityProcess
    /\ written \in Seq([id : Id \cup {OtherId}, action : {"Set", "ResumeParent"},
                       checkpoint : Checkpoint \cup {NoCheckpoint},
                       seen : 1 .. MaxWritten])
    /\ Len(written) <= MaxWritten

Done(c, results) == calls[c].pc = "done" /\ calls[c].result \in results

\* A checkpoint reported as recorded, whether the authority said so, replayed
\* it or the dispatcher found it afterwards, and a resumed parent reported as
\* a replay, were written under that id with that content.
ReportedTransitionHappened ==
    \A c \in Caller :
        Done(c, {"written", "reconciled", "replayed"}) =>
            \E i \in DOMAIN written :
                TransitionOf(written[i]) = TransitionOf(calls[c])

\* No transition replaces a revision its caller had not read, however many
\* processes work for one call and whichever of them outlive it.
NothingUnseenIsReplaced ==
    \A i \in DOMAIN written : written[i].seen = i

\* What a late authority may do neither to the caller nor to the contract.
TransitionsAreTrue == ReportedTransitionHappened /\ NothingUnseenIsReplaced
=============================================================================
