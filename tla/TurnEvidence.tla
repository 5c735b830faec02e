---------------------------- MODULE TurnEvidence ----------------------------
(***************************************************************************)
(* The evidence a governed turn leaves behind for one task scope           *)
(* (turn_runtime.py, activation_receipt.py) and the learning candidate     *)
(* that is staged from it (brain_control.py).                              *)
(*                                                                         *)
(* Three files are written, each under a lock acquired for it alone: the   *)
(* activation receipt, the open or close receipt, and the telemetry        *)
(* journal that names the receipt.  Turns of one scope run in processes of *)
(* their own and interleave between the writes; a turn may be withheld,    *)
(* give up on a lock or die between any two of them.                       *)
(***************************************************************************)
EXTENDS Naturals, Sequences, SequencesExt

CONSTANTS Turn,            \* processes that run turns of the scope
          Learner,         \* processes that stage learning candidates
          Intent,          \* governed turn intents, each with its route
          NoReceipt,
          TelemetrySize,   \* events the journal keeps
          MaxTurns,        \* bound: turns begun
          MaxContract,     \* bound: revisions of the execution contract
          MaxStamps        \* bound: receipts issued

ASSUME EvidenceAssumption == /\ TelemetrySize \in Nat \ {0, 1}
                             /\ MaxTurns \in Nat
                             /\ MaxContract \in Nat \ {0}
                             /\ MaxStamps \in Nat
                             /\ Intent # {}

VARIABLES contractAt,    \* revision of the execution contract of the scope
          stamps,        \* receipts issued: what tells the hash of one from another
          activation,    \* the activation receipt file
          openReceipt,   \* receipts/<scope>/open.json
          closeReceipt,  \* receipts/<scope>/close.json
          telemetry,     \* the journal: what its events name, and which write it is of
          begunTurns,    \* turns begun so far
          turns,         \* what each turn under way has in its hands
          learners,      \* what each learning capture has in its hands
          candidates,    \* staged candidates: the evidence each one cites
          crossed,       \* history: a turn wrote its receipt between another's two files
          torn           \* history: a turn stopped between its two files, no event since

fileVarsOfTurns == <<activation, openReceipt, closeReceipt, telemetry>>
historyVars  == <<crossed, torn>>
learningVars == <<learners, candidates>>
evidenceVars == <<contractAt, stamps, fileVarsOfTurns, begunTurns, turns, learningVars,
                  historyVars>>

Activations == [intent: Intent, revision: 1..MaxContract, stamp: 1..MaxStamps]
EntryReceipts == [phase: {"open", "close"}, binding: Activations, stamp: 1..MaxStamps]

ASSUME NoneIsNoReceipt == NoReceipt \notin Activations \cup EntryReceipts

(* The journal's hash covers the time of its write: a journal whose events *)
(* slid out and came back is another one.                                  *)
NoJournal == [events |-> << >>, updatedAt |-> 0]

(* open_turn persists its receipt; a checkpoint and a close open the turn  *)
(* as a preflight first, and a close that changed the contract opens it    *)
(* again before it writes a receipt of its own.                            *)
TurnKinds == {"open", "checkpoint", "close", "postopen", "closing"}
AtRest == [kind |-> "open", stage |-> "rest", intent |-> CHOOSE i \in Intent : TRUE,
           revision |-> 0, binding |-> NoReceipt, receipt |-> NoReceipt]
NotLearning == [stage |-> "rest", entry |-> NoReceipt, telemetry |-> NoJournal, stood |-> FALSE]
Latest == IF telemetry.events = << >> THEN NoReceipt ELSE Last(telemetry.events)

EvidenceInit ==
  /\ contractAt = 1 /\ stamps = 0 /\ begunTurns = 0
  /\ activation = NoReceipt /\ openReceipt = NoReceipt
  /\ closeReceipt = NoReceipt /\ telemetry = NoJournal
  /\ turns = [t \in Turn |-> AtRest]
  /\ learners = [l \in Learner |-> NotLearning]
  /\ candidates = {}
  /\ crossed = FALSE /\ torn = FALSE

(***************************************************************************)
(* The turn                                                                *)
(***************************************************************************)
Holding(t, turn) == turns' = [turns EXCEPT ![t] = turn]

(* The context is read and the contract read again must agree with it.     *)
ReadContext(t) ==
  /\ \/ /\ turns[t].stage = "rest"
        /\ begunTurns < MaxTurns /\ begunTurns' = begunTurns + 1
        /\ \E i \in Intent, k \in {"open", "checkpoint", "close"} :
             Holding(t, [AtRest EXCEPT !.kind = k, !.stage = "bound", !.intent = i,
                                       !.revision = contractAt])
     \/ /\ turns[t].stage = "reopen"
        /\ Holding(t, [turns[t] EXCEPT !.stage = "bound", !.revision = contractAt])
        /\ UNCHANGED begunTurns
  /\ UNCHANGED <<contractAt, stamps, fileVarsOfTurns, learningVars, historyVars>>

(* ensure_current: the standing receipt serves as long as its route and    *)
(* contract are those of this turn.                                        *)
Serves(turn) == /\ activation # NoReceipt
                /\ activation.intent = turn.intent
                /\ activation.revision = turn.revision

EnsureActivation(t) ==
  LET turn == turns[t]
  IN /\ turn.stage = "bound"
     /\ IF Serves(turn)
          THEN UNCHANGED <<stamps, activation>>
          ELSE /\ stamps < MaxStamps
               /\ stamps' = stamps + 1
               /\ activation' = [intent |-> turn.intent, revision |-> turn.revision,
                                 stamp |-> stamps']
     /\ Holding(t, [turn EXCEPT !.stage = "activated", !.binding = activation'])
     /\ UNCHANGED <<contractAt, openReceipt, closeReceipt, telemetry, begunTurns,
                    learningVars, historyVars>>

(* Which turns leave a receipt: a preflight leaves none.                   *)
EveryTurn(turn) == TRUE
Persists(turn)  == turn.kind \in {"open", "postopen", "closing"}

(* _write_receipt: a standing receipt of the same binding is the receipt.  *)
(* The binding of a close holds the hash of its preflight's receipt, which *)
(* no other turn has.                                                      *)
Reused(turn) == /\ turn.kind # "closing"
                /\ openReceipt # NoReceipt
                /\ openReceipt.binding = turn.binding

Written(turn) ==
  IF Reused(turn)
    THEN UNCHANGED <<stamps, openReceipt, closeReceipt>>
    ELSE /\ stamps < MaxStamps
         /\ stamps' = stamps + 1
         /\ LET receipt(p) == [phase |-> p, binding |-> turn.binding, stamp |-> stamps']
            IN IF turn.kind = "closing"
                 THEN closeReceipt' = receipt("close") /\ UNCHANGED openReceipt
                 ELSE openReceipt' = receipt("open") /\ UNCHANGED closeReceipt

WriteReceipt(t) ==
  LET turn == turns[t]
  IN /\ turn.stage = "activated"
     /\ Persists(turn)
     /\ Written(turn)
     /\ Holding(t, IF turn.kind \in {"checkpoint", "close"} THEN turn
                   ELSE [turn EXCEPT !.stage = "written",
                                     !.receipt = IF turn.kind = "closing"
                                                   THEN closeReceipt' ELSE openReceipt'])
     /\ crossed' = (crossed \/ \E u \in Turn \ {t} : turns[u].stage = "written")
     /\ UNCHANGED <<contractAt, activation, telemetry, begunTurns, learningVars, torn>>

(* _record_telemetry: an event of the same receipt is not written twice.   *)
Kept(events) == SubSeq(events, (IF Len(events) < TelemetrySize THEN 1 ELSE 2), Len(events))

Journal(receipt) ==
  IF receipt \in ToSet(telemetry.events)
    THEN telemetry
    ELSE [events |-> Append(Kept(telemetry.events), receipt),
          updatedAt |-> telemetry.updatedAt + 1]

RecordTelemetry(t) ==
  LET turn == turns[t]
  IN /\ turn.stage = "written"
     /\ telemetry' = Journal(turn.receipt)
     /\ torn' = (torn /\ telemetry' = telemetry)
     /\ Holding(t, IF turn.kind = "postopen" /\ turn.revision = contractAt
                     THEN [turn EXCEPT !.kind = "closing", !.stage = "bound"]
                     ELSE AtRest)
     /\ UNCHANGED <<contractAt, stamps, activation, openReceipt, closeReceipt,
                    begunTurns, learningVars, crossed>>

(* checkpoint_turn: the contract is set under its compare-and-swap and the *)
(* turn is opened again.                                                   *)
CheckpointSet(t) ==
  /\ turns[t].kind = "checkpoint" /\ turns[t].stage = "activated"
  /\ turns[t].revision = contractAt /\ contractAt < MaxContract
  /\ contractAt' = contractAt + 1
  /\ Holding(t, [turns[t] EXCEPT !.kind = "open", !.stage = "reopen"])
  /\ UNCHANGED <<stamps, fileVarsOfTurns, begunTurns, learningVars, historyVars>>

(* close_turn: a dispatch that changed nothing closes on what the          *)
(* preflight read; another one reads the turn again first.                 *)
DispatchKeeps(t) ==
  /\ turns[t].kind = "close" /\ turns[t].stage = "activated"
  /\ Holding(t, [turns[t] EXCEPT !.kind = "closing"])
  /\ UNCHANGED <<contractAt, stamps, fileVarsOfTurns, begunTurns, learningVars, historyVars>>

DispatchMoves(t) ==
  /\ turns[t].kind = "close" /\ turns[t].stage = "activated"
  /\ turns[t].revision = contractAt /\ contractAt < MaxContract
  /\ contractAt' = contractAt + 1
  /\ Holding(t, [turns[t] EXCEPT !.kind = "postopen", !.stage = "reopen"])
  /\ UNCHANGED <<stamps, fileVarsOfTurns, begunTurns, learningVars, historyVars>>

(* Withheld, timed out on a lock, failed to write, or died.                *)
TurnStops(t) ==
  /\ turns[t].stage # "rest"
  /\ Holding(t, AtRest)
  /\ torn' = (torn \/ turns[t].stage = "written")
  /\ UNCHANGED <<contractAt, stamps, fileVarsOfTurns, begunTurns, learningVars, crossed>>

(***************************************************************************)
(* record_h7_memory_learning_candidate: the caller names the entry and the *)
(* telemetry it saw; the capture reads every file again, one by one.       *)
(***************************************************************************)
Learning(l, capture) == /\ learners' = [learners EXCEPT ![l] = capture]
                        /\ UNCHANGED <<contractAt, stamps, fileVarsOfTurns, begunTurns,
                                       turns, historyVars>>

CollectEntry(l) ==
  /\ learners[l].stage = "rest" /\ openReceipt # NoReceipt
  /\ Learning(l, [NotLearning EXCEPT !.stage = "entry", !.entry = openReceipt])
  /\ UNCHANGED candidates

CollectTelemetry(l) ==
  /\ learners[l].stage = "entry" /\ telemetry # NoJournal
  /\ Learning(l, [learners[l] EXCEPT !.stage = "asked", !.telemetry = telemetry])
  /\ UNCHANGED candidates

(* Only what the request carries is checked against the file; "stood" is   *)
(* what was true of all three files at this moment.                        *)
CheckEntry(l) ==
  LET c == learners[l]
  IN /\ c.stage = "asked" /\ openReceipt = c.entry
     /\ Learning(l, [c EXCEPT !.stage = "contract",
                     !.stood = /\ contractAt = c.entry.binding.revision
                               /\ telemetry = c.telemetry
                               /\ Latest = c.entry])
     /\ UNCHANGED candidates

CheckContract(l) ==
  LET c == learners[l]
  IN /\ c.stage = "contract" /\ contractAt = c.entry.binding.revision
     /\ Learning(l, [c EXCEPT !.stage = "telemetry"])
     /\ UNCHANGED candidates

NamesEntry(c) == Latest = c.entry
TelemetryCurrent(c) == telemetry = c.telemetry /\ NamesEntry(c)

(* The commit reads no file again, so it goes with the last check.  One    *)
(* candidate per evidence: the command id is its hash, and a command       *)
(* already logged is answered from the log.                                *)
StageCandidate(l) ==
  LET c == learners[l]
  IN /\ c.stage = "telemetry" /\ TelemetryCurrent(c)
     /\ candidates' = IF \E d \in candidates : d.entry = c.entry /\ d.telemetry = c.telemetry
                        THEN candidates
                        ELSE candidates \cup {[entry |-> c.entry, telemetry |-> c.telemetry,
                                               stood |-> c.stood]}
     /\ Learning(l, [NotLearning EXCEPT !.stage = "done"])

LearnerStops(l) ==
  /\ learners[l].stage \notin {"rest", "done"}
  /\ Learning(l, [NotLearning EXCEPT !.stage = "done"])
  /\ UNCHANGED candidates

EvidenceNext ==
  \/ \E t \in Turn : \/ ReadContext(t) \/ EnsureActivation(t)
                     \/ WriteReceipt(t) \/ RecordTelemetry(t)
                     \/ CheckpointSet(t) \/ DispatchKeeps(t) \/ DispatchMoves(t)
                     \/ TurnStops(t)
  \/ \E l \in Learner : \/ CollectEntry(l) \/ CollectTelemetry(l)
                        \/ CheckEntry(l) \/ CheckContract(l)
                        \/ StageCandidate(l) \/ LearnerStops(l)

EvidenceSpec == EvidenceInit /\ [][EvidenceNext]_evidenceVars

(***************************************************************************)
(* Properties                                                              *)
(***************************************************************************)
Journals == {j \in [events: Seq(EntryReceipts), updatedAt: Nat] :
               Len(j.events) <= TelemetrySize}

(* The type of every variable of the evidence chain. *)
EvidenceTypeOK ==
  /\ contractAt \in 1..MaxContract /\ stamps \in 0..MaxStamps
  /\ begunTurns \in 0..MaxTurns
  /\ activation \in Activations \cup {NoReceipt}
  /\ {openReceipt, closeReceipt} \subseteq EntryReceipts \cup {NoReceipt}
  /\ telemetry \in Journals
  /\ turns \in [Turn -> [kind: TurnKinds, intent: Intent, revision: 0..MaxContract,
                         stage: {"rest", "bound", "activated", "written", "reopen"},
                         binding: Activations \cup {NoReceipt},
                         receipt: EntryReceipts \cup {NoReceipt}]]
  /\ learners \in [Learner -> [stage: {"rest", "entry", "asked", "contract", "telemetry",
                                       "done"},
                               entry: EntryReceipts \cup {NoReceipt},
                               telemetry: Journals, stood: BOOLEAN]]
  /\ candidates \subseteq [entry: EntryReceipts, telemetry: Journals, stood: BOOLEAN]
  /\ crossed \in BOOLEAN /\ torn \in BOOLEAN

(* What is recorded of a turn can be traced back.  As long as no turn wrote *)
(* its receipt between the two files of another and none stopped there,    *)
(* the latest telemetry event names a receipt that can be read back from   *)
(* its file (open_turn, close_turn); with a crossing it need not.  And a   *)
(* candidate cites an entry, a contract and a telemetry that stood         *)
(* together at one moment, though the capture reads them one after another *)
(* while other turns go on (record_h7_memory_learning_candidate).          *)
EvidenceIsTraceable ==
  /\ \/ crossed \/ torn \/ \E t \in Turn : turns[t].stage = "written"
     \/ Latest \in {openReceipt, closeReceipt}
     \/ Latest = NoReceipt /\ openReceipt = NoReceipt /\ closeReceipt = NoReceipt
  /\ \A c \in candidates : c.stood
=============================================================================
