------------------------------ MODULE Decisions ------------------------------
(***************************************************************************)
(* Decision cards and the receipts that bind a stage of a task to them     *)
(* (brain_control.py): resolve_decisions, record_decision_result and       *)
(* validate_decision_completion for one task scope, while the cards of the *)
(* workspace are revised, retired and created.                             *)
(*                                                                         *)
(* Resolving and recording are one transaction each.  Validating is not:   *)
(* it compares the receipt with the cards and reads the results later.     *)
(* Any session of the scope may use any receipt it was once answered.      *)
(***************************************************************************)
EXTENDS Naturals, Sequences, FiniteSets

CONSTANTS Decision,            \* decision cards of the workspace
          Gates,               \* those whose enforcement is completion_gate
          Validator,           \* calls of validate_decision_completion
          MaxDecisionRevision, \* bound: revisions of a card
          MaxReceipts          \* bound: receipts issued

ASSUME DecisionAssumption == /\ Gates \subseteq Decision
                             /\ MaxDecisionRevision \in Nat
                             /\ MaxReceipts \in Nat

VARIABLES decisions,   \* head revision of a card (0: it does not exist), if it is active and sound
          resolutions, \* the receipts: status and the items each one binds
          results,     \* decision_completion_results
          validators,  \* what each validation has in its hands
          answered     \* validations that were ok and said completionCurrent

decisionVars == <<decisions, resolutions, results, validators, answered>>

Items == [card: Decision, revision: 1..MaxDecisionRevision]
NotValidating == [stage |-> "rest", receipt |-> 0, gates |-> {}, found |-> {}]

DecisionInit ==
  /\ decisions = [d \in Decision |-> [revision |-> 0, active |-> FALSE, sound |-> TRUE]]
  /\ resolutions = << >>
  /\ results = {}
  /\ validators = [v \in Validator |-> NotValidating]
  /\ answered = {}

(***************************************************************************)
(* The cards                                                               *)
(***************************************************************************)
(* Every card command issues a revision: creating, revising, retiring and  *)
(* restoring alike.  What it leaves may not be fit to bind a stage: a gate *)
(* the user did not confirm, a payload that is not of a decision.          *)
ChangeDecision(d) ==
  /\ decisions[d].revision < MaxDecisionRevision
  /\ \E active, sound \in BOOLEAN :
       decisions' = [decisions EXCEPT ![d] =
         [revision |-> decisions[d].revision + 1, active |-> active, sound |-> sound]]
  /\ UNCHANGED <<resolutions, results, validators, answered>>

(* _current_decision_resolution_items: the active cards that apply, in the *)
(* revision they have.  Those that are not sound are errors and bind       *)
(* nothing; two gates at once are an error.                                *)
ActiveItems  == {[card |-> d, revision |-> decisions[d].revision] :
                   d \in {e \in Decision : decisions[e].active}}
CurrentItems == {i \in ActiveItems : decisions[i.card].sound}
GatesOf(items) == {i \in items : i.card \in Gates}
CurrentStatus ==
  IF CurrentItems # ActiveItems \/ Cardinality(GatesOf(CurrentItems)) > 1 THEN "withheld"
  ELSE IF CurrentItems = {} THEN "none_applicable" ELSE "bound"
CurrentResolution == [status |-> CurrentStatus, items |-> CurrentItems]

(***************************************************************************)
(* The receipts                                                            *)
(***************************************************************************)
ResolveDecisions ==
  /\ Len(resolutions) < MaxReceipts
  /\ resolutions' = Append(resolutions, CurrentResolution)
  /\ UNCHANGED <<decisions, results, validators, answered>>

(* _checked_decision_receipt: the digest of what is bound now must be the  *)
(* one on the receipt.                                                     *)
ReceiptKnown(r)   == r \in DOMAIN resolutions
CheckedReceipt(r) == /\ ReceiptKnown(r)
                     /\ resolutions[r] = CurrentResolution

(* One result per receipt and item, whatever its verdict.                  *)
Unrecorded(r, item) == \A x \in results : ~(x.receipt = r /\ x.item = item)

RecordDecisionResult ==
  \E r \in DOMAIN resolutions, ok \in BOOLEAN :
    /\ CheckedReceipt(r)
    /\ resolutions[r].status = "bound"
    /\ \E item \in resolutions[r].items :
         /\ Unrecorded(r, item)
         /\ results' = results \cup {[receipt |-> r, item |-> item, ok |-> ok]}
    /\ UNCHANGED <<decisions, resolutions, validators, answered>>

(***************************************************************************)
(* The completion                                                          *)
(***************************************************************************)
(* "found" is the history of the gates that were active at the check.      *)
ValidateReceipt(v) ==
  /\ validators[v].stage = "rest"
  /\ \E r \in DOMAIN resolutions :
       /\ CheckedReceipt(r)
       /\ validators' = [validators EXCEPT ![v] =
            [stage |-> "checked", receipt |-> r, gates |-> GatesOf(resolutions[r].items),
             found |-> GatesOf(ActiveItems)]]
  /\ UNCHANGED <<decisions, resolutions, results, answered>>

Satisfied(r, item) == [receipt |-> r, item |-> item, ok |-> TRUE] \in results

(* A receipt that was withheld is checked like any other, but what is said *)
(* of it is not ok.                                                        *)
ValidateResults(v) ==
  LET c == validators[v]
  IN /\ c.stage = "checked"
     /\ validators' = [validators EXCEPT ![v] = NotValidating]
     /\ answered' = IF /\ resolutions[c.receipt].status # "withheld"
                        /\ \A item \in c.gates : Satisfied(c.receipt, item)
                      THEN answered \cup {[receipt |-> c.receipt, found |-> c.found]}
                      ELSE answered
     /\ UNCHANGED <<decisions, resolutions, results>>

DecisionNext == \/ \E d \in Decision : ChangeDecision(d)
                \/ ResolveDecisions
                \/ RecordDecisionResult
                \/ \E v \in Validator : ValidateReceipt(v) \/ ValidateResults(v)

DecisionSpec == DecisionInit /\ [][DecisionNext]_decisionVars

(***************************************************************************)
(* Properties                                                              *)
(***************************************************************************)
(* The type of the cards, receipts and results. *)
DecisionTypeOK ==
  /\ decisions \in [Decision -> [revision: 0..MaxDecisionRevision,
                              active: BOOLEAN, sound: BOOLEAN]]
  /\ \A r \in DOMAIN resolutions : resolutions[r].items \subseteq Items
  /\ results \subseteq [receipt: 1..MaxReceipts, item: Items, ok: BOOLEAN]
  /\ \A v \in Validator : validators[v].gates \subseteq Items

(* A completion that was answered current had, for every gate that was     *)
(* active when its receipt was checked, fit to bind the stage or not, a    *)
(* positive verdict on exactly that revision, and no verdict against it,   *)
(* though cards change between resolving, recording and validating         *)
(* (validate_decision_completion).                                         *)
CompletionIsEarned ==
  \A a \in answered : \A item \in a.found :
    /\ Satisfied(a.receipt, item)
    /\ [receipt |-> a.receipt, item |-> item, ok |-> FALSE] \notin results
=============================================================================
