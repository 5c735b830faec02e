-------------------------- MODULE BrainControl_proofs --------------------------
(***************************************************************************)
(* Proofs about the parts of BrainControl's database that are modelled:    *)
(* Decisions, SessionRebind, MemoryCards, TaskRetention and SchemaUpgrade, *)
(* each for every value of its constants.                                  *)
(*                                                                         *)
(* The inductive invariants are DecisionIInv (types, one verdict for each  *)
(* receipt and item, gates that a validation holds are those its check     *)
(* found, CompletionIsEarned itself), RebindIInv (what is not carried out  *)
(* or not projected yet is marked), CardIInv (what a lone writer's marker  *)
(* covers, and which revision a tombstone is of), RetentionIInv (what day  *)
(* a card counts from, and which cards have evidence) and SchemaIInv (what *)
(* the statements behind an opener made is there, one opener at most has a *)
(* table aside, and the new table has its rows once they are copied).  The *)
(* scripts of the versions are written out, so the first lemmas say what   *)
(* kind of statement is at each place of them.                             *)
(***************************************************************************)
EXTENDS Decisions, SessionRebind, MemoryCards, TaskRetention, SchemaUpgrade,
        FiniteSetTheorems, SequenceTheorems, WellFoundedInduction, TLAPS

----------------------------------------------------------------------------
(* Decisions: a task that is completed was earned.                         *)

Receipt == [status: {"withheld", "none_applicable", "bound"}, items: SUBSET Items]
Verdict == [receipt: 1..MaxReceipts, item: Items, ok: BOOLEAN]

\* Types, as far as steps need them: a card that is active has a revision.
TablesOK ==
  /\ decisions \in [Decision -> [revision: 0..MaxDecisionRevision,
                               active: BOOLEAN, sound: BOOLEAN]]
  /\ \A d \in Decision : decisions[d].active => decisions[d].revision # 0
  /\ resolutions \in Seq(Receipt) /\ Len(resolutions) <= MaxReceipts
  /\ results \subseteq Verdict
  /\ validators \in [Validator -> [stage: {"rest", "checked"}, receipt: 0..MaxReceipts,
                                   gates: SUBSET Items, found: SUBSET Items]]

\* A receipt and an item have one verdict (RecordDecisionResult never adds a second).
OneVerdict ==
  \A x, y \in results : x.receipt = y.receipt /\ x.item = y.item => x = y

\* The gates a validation will ask results for are those that were active at its
\* check, although the receipt is older than the check; unless the receipt was
\* withheld, which it then still is.
ChecksWhatItFound == \A v \in Validator : validators[v].stage = "checked" =>
  /\ validators[v].receipt \in DOMAIN resolutions
  /\ \/ resolutions[validators[v].receipt].status = "withheld"
     \/ validators[v].found \subseteq validators[v].gates

DecisionIInv == TablesOK /\ OneVerdict /\ ChecksWhatItFound /\ CompletionIsEarned

----------------------------------------------------------------------------
(* The cards and the receipts. *)

\* What a resolution answers has the type of a receipt.
LEMMA CurrentType ==
  ASSUME TablesOK
  PROVE  /\ CurrentItems \in SUBSET Items /\ ActiveItems \in SUBSET Items
         /\ CurrentResolution \in Receipt
<1>1. \A d \in Decision : decisions[d].active =>
         [card |-> d, revision |-> decisions[d].revision] \in Items
  BY DecisionAssumption DEF TablesOK, Items
<1>2. ActiveItems \in SUBSET Items
  BY <1>1 DEF ActiveItems
<1>3. CurrentItems \in SUBSET Items
  BY <1>2 DEF CurrentItems
<1>4. CurrentStatus \in {"withheld", "none_applicable", "bound"}
  BY DEF CurrentStatus
<1> QED BY <1>2, <1>3, <1>4 DEF CurrentResolution, Receipt

\* A card is created, revised, retired or restored.
LEMMA CardKeeps ==
  ASSUME DecisionIInv, NEW d \in Decision, ChangeDecision(d)
  PROVE  DecisionIInv'
<1>1. PICK active \in BOOLEAN, sound \in BOOLEAN :
        decisions' = [decisions EXCEPT ![d] =
          [revision |-> decisions[d].revision + 1, active |-> active, sound |-> sound]]
  BY DEF ChangeDecision
<1>2. /\ decisions[d].revision < MaxDecisionRevision
      /\ UNCHANGED <<resolutions, results, validators, answered>>
  BY DEF ChangeDecision
<1>3. TablesOK'
  BY <1>1, <1>2, DecisionAssumption DEF DecisionIInv, TablesOK
<1> QED BY <1>2, <1>3
        DEF DecisionIInv, OneVerdict, ChecksWhatItFound, CompletionIsEarned, Satisfied

\* A receipt is issued.
LEMMA ResolveKeeps ==
  ASSUME DecisionIInv, ResolveDecisions
  PROVE  DecisionIInv'
<1>1. TablesOK'
  BY CurrentType, DecisionAssumption DEF ResolveDecisions, DecisionIInv, TablesOK
<1>2. /\ DOMAIN resolutions \subseteq DOMAIN resolutions'
      /\ \A r \in DOMAIN resolutions : resolutions'[r] = resolutions[r]
  BY CurrentType DEF ResolveDecisions, DecisionIInv, TablesOK
<1>3. UNCHANGED <<results, validators, answered>>
  BY DEF ResolveDecisions
<1>4. ChecksWhatItFound'
  BY <1>2, <1>3 DEF DecisionIInv, ChecksWhatItFound
<1> QED BY <1>1, <1>3, <1>4
        DEF DecisionIInv, OneVerdict, CompletionIsEarned, Satisfied

\* A verdict is recorded: what was satisfied stays so, and nothing that was
\* satisfied is contradicted.
LEMMA RecordKeeps ==
  ASSUME DecisionIInv, RecordDecisionResult
  PROVE  DecisionIInv'
<1>1. PICK r \in DOMAIN resolutions, ok \in BOOLEAN : \E item \in resolutions[r].items :
        /\ Unrecorded(r, item)
        /\ results' = results \cup {[receipt |-> r, item |-> item, ok |-> ok]}
  BY DEF RecordDecisionResult
<1>2. PICK item \in resolutions[r].items :
        /\ Unrecorded(r, item)
        /\ results' = results \cup {[receipt |-> r, item |-> item, ok |-> ok]}
  BY <1>1
<1> DEFINE new == [receipt |-> r, item |-> item, ok |-> ok]
<1>3. UNCHANGED <<decisions, resolutions, validators, answered>>
  BY DEF RecordDecisionResult
<1>4. new \in Verdict
  <2>1. resolutions[r] \in Receipt /\ r \in 1..MaxReceipts
    BY DecisionAssumption DEF DecisionIInv, TablesOK
  <2>2. item \in Items
    BY <2>1 DEF Receipt
  <2> QED BY <2>1, <2>2 DEF Verdict
<1>5. TablesOK'
  BY <1>2, <1>3, <1>4 DEF DecisionIInv, TablesOK
<1>6. \A x \in results : ~(x.receipt = r /\ x.item = item)
  BY <1>2 DEF Unrecorded
<1>7. OneVerdict'
  BY <1>2, <1>6 DEF DecisionIInv, OneVerdict
<1>8. CompletionIsEarned'
  <2> SUFFICES ASSUME NEW a \in answered, NEW i \in a.found
               PROVE  /\ [receipt |-> a.receipt, item |-> i, ok |-> TRUE] \in results'
                      /\ [receipt |-> a.receipt, item |-> i, ok |-> FALSE] \notin results'
    BY <1>3 DEF CompletionIsEarned, Satisfied
  <2>1. /\ [receipt |-> a.receipt, item |-> i, ok |-> TRUE] \in results
        /\ [receipt |-> a.receipt, item |-> i, ok |-> FALSE] \notin results
    BY DEF DecisionIInv, CompletionIsEarned, Satisfied
  <2> QED BY <1>2, <1>6, <2>1
<1> QED BY <1>3, <1>5, <1>7, <1>8 DEF DecisionIInv, ChecksWhatItFound

----------------------------------------------------------------------------
(* The validations. *)

\* The receipt is compared with the cards: both have the same gates.
LEMMA CheckKeeps ==
  ASSUME DecisionIInv, NEW v \in Validator, ValidateReceipt(v)
  PROVE  DecisionIInv'
<1>1. PICK r \in DOMAIN resolutions :
        /\ CheckedReceipt(r)
        /\ validators' = [validators EXCEPT ![v] =
             [stage |-> "checked", receipt |-> r, gates |-> GatesOf(resolutions[r].items),
              found |-> GatesOf(ActiveItems)]]
  BY DEF ValidateReceipt
<1>2. UNCHANGED <<decisions, resolutions, results, answered>>
  BY DEF ValidateReceipt
<1> DEFINE g == GatesOf(resolutions[r].items)
           f == GatesOf(ActiveItems)
<1>3. resolutions[r].items = CurrentItems /\ resolutions[r].status = CurrentStatus
  BY <1>1 DEF CheckedReceipt, CurrentResolution
<1>4. g \in SUBSET Items /\ f \in SUBSET Items
  BY <1>3, CurrentType DEF DecisionIInv, GatesOf
<1>5. resolutions[r].status = "withheld" \/ f = g
  BY <1>3 DEF CurrentStatus
<1>6. r \in 0..MaxReceipts
  BY DecisionAssumption DEF DecisionIInv, TablesOK
<1> HIDE DEF g, f
<1>7. validators' = [validators EXCEPT ![v] =
             [stage |-> "checked", receipt |-> r, gates |-> g, found |-> f]]
  BY <1>1 DEF g, f
<1>8. TablesOK'
  BY <1>2, <1>4, <1>6, <1>7 DEF DecisionIInv, TablesOK
<1>9. ChecksWhatItFound'
  BY <1>2, <1>5, <1>7 DEF DecisionIInv, TablesOK, ChecksWhatItFound
<1> QED BY <1>2, <1>8, <1>9 DEF DecisionIInv, OneVerdict, CompletionIsEarned, Satisfied

\* The results are read: who finds all of them has what the check asked for, and
\* with one verdict each none against it.
LEMMA AnswerKeeps ==
  ASSUME DecisionIInv, NEW v \in Validator, ValidateResults(v)
  PROVE  DecisionIInv'
<1> DEFINE c == validators[v]
           new == [receipt |-> c.receipt, found |-> c.found]
<1>1. /\ validators' = [validators EXCEPT ![v] = NotValidating]
      /\ answered' = IF /\ resolutions[c.receipt].status # "withheld"
                        /\ \A item \in c.gates : Satisfied(c.receipt, item)
                     THEN answered \cup {new} ELSE answered
      /\ UNCHANGED <<decisions, resolutions, results>>
      /\ c.stage = "checked"
  BY DEF ValidateResults
<1>2. NotValidating \in [stage: {"rest", "checked"}, receipt: 0..MaxReceipts,
                         gates: SUBSET Items, found: SUBSET Items]
  BY DecisionAssumption DEF NotValidating
<1>3. TablesOK'
  BY <1>1, <1>2 DEF DecisionIInv, TablesOK
<1>4. ChecksWhatItFound'
  BY <1>1 DEF DecisionIInv, TablesOK, ChecksWhatItFound, NotValidating
<1>5. CompletionIsEarned'
  <2> SUFFICES ASSUME NEW a \in answered', NEW i \in a.found
               PROVE  /\ [receipt |-> a.receipt, item |-> i, ok |-> TRUE] \in results
                      /\ [receipt |-> a.receipt, item |-> i, ok |-> FALSE] \notin results
    BY <1>1 DEF CompletionIsEarned, Satisfied
  <2>1. CASE a \in answered
    BY <2>1 DEF DecisionIInv, CompletionIsEarned, Satisfied
  <2>2. CASE /\ a = new /\ resolutions[c.receipt].status # "withheld"
             /\ \A item \in c.gates : Satisfied(c.receipt, item)
    <3>1. i \in c.gates
      BY <1>1, <2>2 DEF DecisionIInv, ChecksWhatItFound
    <3>2. [receipt |-> a.receipt, item |-> i, ok |-> TRUE] \in results
      BY <2>2, <3>1 DEF Satisfied
    <3>3. [receipt |-> a.receipt, item |-> i, ok |-> TRUE]
            # [receipt |-> a.receipt, item |-> i, ok |-> FALSE]
      OBVIOUS
    <3> QED BY <3>2, <3>3 DEF DecisionIInv, OneVerdict
  <2> QED BY <1>1, <2>1, <2>2
<1> QED BY <1>1, <1>3, <1>4, <1>5 DEF DecisionIInv, OneVerdict

----------------------------------------------------------------------------
(* Results. *)

\* DecisionIInv holds from the start and is kept by every step.
THEOREM DecisionInvariance == DecisionSpec => []DecisionIInv
<1>1. DecisionInit => DecisionIInv
  <2> SUFFICES ASSUME DecisionInit PROVE DecisionIInv
    OBVIOUS
  <2>1. TablesOK
    BY DecisionAssumption DEF DecisionInit, TablesOK, NotValidating
  <2> QED BY <2>1
          DEF DecisionInit, DecisionIInv, OneVerdict, ChecksWhatItFound,
              CompletionIsEarned, NotValidating
<1>2. DecisionIInv /\ [DecisionNext]_decisionVars => DecisionIInv'
  <2> SUFFICES ASSUME DecisionIInv, [DecisionNext]_decisionVars PROVE DecisionIInv'
    OBVIOUS
  <2>1. CASE DecisionNext
    BY <2>1, CardKeeps, ResolveKeeps, RecordKeeps, CheckKeeps, AnswerKeeps DEF DecisionNext
  <2>2. CASE UNCHANGED decisionVars
    BY <2>2 DEF decisionVars, DecisionIInv, TablesOK, OneVerdict, ChecksWhatItFound,
                CompletionIsEarned, Satisfied
  <2> QED BY <2>1, <2>2
<1> QED BY <1>1, <1>2, PTL DEF DecisionSpec

\* The cards, receipts, results and validations keep their types.
THEOREM DecisionTypeCorrect == DecisionSpec => []DecisionTypeOK
<1>1. DecisionIInv => DecisionTypeOK
  <2> SUFFICES ASSUME DecisionIInv PROVE DecisionTypeOK
    OBVIOUS
  <2>1. \A r \in DOMAIN resolutions : resolutions[r] \in Receipt
    BY DEF DecisionIInv, TablesOK
  <2> QED BY <2>1 DEF DecisionIInv, TablesOK, DecisionTypeOK, Receipt, Verdict
<1> QED BY <1>1, DecisionInvariance, PTL

\* A completion that was answered current had a positive verdict, and none against
\* it, for every gate its check found, in exactly the revision it found, however
\* cards, receipts and verdicts came in between.
THEOREM CompletionEarned == DecisionSpec => []CompletionIsEarned
<1>1. DecisionIInv => CompletionIsEarned
  BY DEF DecisionIInv
<1> QED BY <1>1, DecisionInvariance, PTL

----------------------------------------------------------------------------
(* Sessions: how a task and its intent change hands.                       *)

\* Marker m is there, unless a refused command may have taken it.
Laid(m) == reused \/ m \in markers

\* A finalized hand-off of the intent that is not carried out, and an owner the
\* older rebind set, each left the marker that blocks the reader.
HandOffIsMarked ==
  subject = "intent" =>
    /\ \A r \in DOMAIN rebinds :
         rebinds[r].status = "finalized" /\ ~Applied(rebinds[r]) =>
           Laid(Marker("handoff", EffectiveNewOwner(rebinds[r]), rebinds[r].head))
    /\ history # <<>> /\ history[HeadRev] # owner =>
         Laid(Marker("handoff", owner, HeadRev))

\* While the projection is of the receipt that was the head when it was written,
\* whatever was resolved since is marked, for no later publisher has come as far
\* as taking markers away without writing a projection of its own.
HeadIsProjected == projection.receipt = projection.head /\ projection.receipt # 0

LaterIsMarked ==
  /\ projection.receipt <= projection.head
  /\ subject = "task" => projection.receipt = 0
  /\ HeadIsProjected =>
       /\ \A p \in publishers : p.step = "clear" => p.receipt <= projection.receipt
       /\ \A i \in projection.receipt + 1 .. HeadRev :
            Laid(Marker("resolve", history[i], i))

RebindIInv ==
  RebindTypeOK /\ OneHandOffAtATime /\ HandOffIsMarked /\ LaterIsMarked

Recovery == [prev : Session, new : Owner, head : Nat, claimed : Owner,
             status : Statuses]

\* What is carried out stays so when a receipt or a revision is added.
LEMMA AppliedStays ==
  ASSUME history \in Seq(Session), NEW s \in Session,
         history' = Append(history, s), NEW t \in Recovery
  PROVE  /\ Applied(t) => Applied(t)'
         /\ UnderWay(t)' => UnderWay(t)
<1>1. Len(history') = Len(history) + 1 /\ Len(history) \in Nat
  OBVIOUS
<1>2. \A i \in 1 .. Len(history) : history'[i] = history[i]
  OBVIOUS
<1>3. t.head \in Nat
  BY DEF Recovery
<1>4. ASSUME Applied(t) PROVE Applied(t)'
  <2>1. PICK i \in t.head + 1 .. Len(history) : history[i] = EffectiveNewOwner(t)
    BY <1>4 DEF Applied, HeadRev
  <2>2. i \in 1 .. Len(history) /\ i \in t.head + 1 .. Len(history')
    BY <1>1, <1>3, <2>1
  <2> QED BY <1>2, <2>1, <2>2 DEF Applied, HeadRev, EffectiveNewOwner
<1> QED BY <1>4 DEF UnderWay

\* An event of a recovery that waits makes no hand-off that was not under way.
LEMMA EventKeeps ==
  ASSUME RebindTypeOK, OneHandOffAtATime,
         NEW r \in DOMAIN rebinds, rebinds[r].status \in {"issued", "consumed"},
         NEW status \in Statuses, NEW claimed \in Owner,
         AppendLocalRebindEvent(r, status, claimed)
  PROVE  /\ rebinds' \in Seq(Recovery) /\ DOMAIN rebinds' = DOMAIN rebinds
         /\ rebinds'[r] = [rebinds[r] EXCEPT !.status = status, !.claimed = claimed]
         /\ \A q \in DOMAIN rebinds : q # r => rebinds'[q] = rebinds[q]
         /\ OneHandOffAtATime'
<1>1. rebinds \in Seq(Recovery) /\ rebinds[r] \in Recovery
  <2>1. rebinds \in Seq(Recovery)
    BY DEF RebindTypeOK, Recovery
  <2> QED BY <2>1
<1> DEFINE new == [rebinds[r] EXCEPT !.status = status, !.claimed = claimed]
<1>2. new \in Recovery
  BY <1>1 DEF Recovery
<1>3. rebinds' = [rebinds EXCEPT ![r] = new]
  BY DEF AppendLocalRebindEvent
<1>4. /\ rebinds' \in Seq(Recovery) /\ DOMAIN rebinds' = DOMAIN rebinds
      /\ rebinds'[r] = new
      /\ \A q \in DOMAIN rebinds : q # r => rebinds'[q] = rebinds[q]
  <2> HIDE DEF new
  <2> QED BY <1>1, <1>2, <1>3
<1>5. UNCHANGED history
  BY DEF AppendLocalRebindEvent
<1>6. \A q \in DOMAIN rebinds : UnderWay(rebinds[q])' => UnderWay(rebinds[q])
  <2> SUFFICES ASSUME NEW q \in DOMAIN rebinds, UnderWay(rebinds[q])'
               PROVE  UnderWay(rebinds[q])
    OBVIOUS
  <2>1. CASE q = r
    BY <2>1 DEF UnderWay
  <2>2. CASE q # r
    BY <1>4, <1>5, <2>2 DEF UnderWay, Applied, EffectiveNewOwner, HeadRev
  <2> QED BY <2>1, <2>2
<1>7. OneHandOffAtATime'
  BY <1>4, <1>6 DEF OneHandOffAtATime
<1> QED BY <1>4, <1>7

\* A recovery is issued while none is under way.
LEMMA BlockingIsUnderWay ==
  ASSUME RebindTypeOK, Blocking = {}
  PROVE  \A r \in DOMAIN rebinds : ~UnderWay(rebinds[r])
<1> SUFFICES ASSUME NEW r \in DOMAIN rebinds, UnderWay(rebinds[r]) PROVE FALSE
  OBVIOUS
<1>1. rebinds[r].status = "finalized" /\ LocalRebindConsumed(rebinds[r])
  BY DEF Blocking, UnderWay
<1>2. rebinds[r].head \in Nat /\ Len(history) \in Nat
  <2>1. rebinds \in Seq(Recovery) /\ history \in Seq(Session)
    BY DEF RebindTypeOK, Recovery
  <2>2. rebinds[r] \in Recovery
    BY <2>1
  <2> QED BY <2>1, <2>2 DEF Recovery
<1>3. Applied(rebinds[r])
  <2>1. CASE subject = "intent"
    BY <1>1, <2>1 DEF LocalRebindConsumed, IntentLocalRebindConsumed, Applied
  <2>2. CASE subject # "intent"
    <3>1. /\ Len(history) > rebinds[r].head
          /\ history[rebinds[r].head + 1] = EffectiveNewOwner(rebinds[r])
      BY <1>1, <2>2 DEF LocalRebindConsumed, TaskLocalRebindConsumed, HeadRev
    <3>2. rebinds[r].head + 1 \in rebinds[r].head + 1 .. Len(history)
      BY <1>2, <3>1
    <3> QED BY <3>1, <3>2 DEF Applied, HeadRev
  <2> QED BY <2>1, <2>2
<1> QED BY <1>1, <1>3 DEF UnderWay

\* The recovery reference: issued ...
LEMMA IssueKeeps ==
  ASSUME RebindIInv, NEW s \in Session, NEW new \in Owner, IssueLocalRebind(s, new)
  PROVE  RebindIInv'
<1> DEFINE t == [prev |-> owner, new |-> new, head |-> HeadRev,
                 claimed |-> NoSession, status |-> "issued"]
<1>1. rebinds' = Append(rebinds, t)
      /\ UNCHANGED <<subject, owner, history, legacyRebinds, markers, publishers, projection, reused>>
  BY DEF IssueLocalRebind, projectionVars
<1>2. t \in Recovery /\ rebinds \in Seq(Recovery)
  BY DEF IssueLocalRebind, Recovery, RebindIInv, RebindTypeOK, Owner, Statuses, HeadRev
<1>3. t.status = "issued"
  OBVIOUS
<1> HIDE DEF t
<1>4. /\ rebinds' \in Seq(Recovery) /\ DOMAIN rebinds' = 1 .. Len(rebinds) + 1
      /\ Len(rebinds) \in Nat /\ rebinds'[Len(rebinds) + 1] = t
      /\ \A q \in 1 .. Len(rebinds) : q \in DOMAIN rebinds /\ rebinds'[q] = rebinds[q]
  BY <1>1, <1>2
<1>5. RebindTypeOK'
  BY <1>1, <1>4 DEF RebindIInv, RebindTypeOK, Recovery, HeadRev
<1>6. \A q \in DOMAIN rebinds : ~UnderWay(rebinds[q])
  BY BlockingIsUnderWay DEF RebindIInv, IssueLocalRebind
<1>7. \A q \in 1 .. Len(rebinds) : ~UnderWay(rebinds[q])'
  BY <1>1, <1>4, <1>6 DEF UnderWay, Applied, EffectiveNewOwner, HeadRev
<1>8. OneHandOffAtATime'
  <2> SUFFICES ASSUME NEW p \in DOMAIN rebinds', NEW q \in DOMAIN rebinds',
                      UnderWay(rebinds[p])', UnderWay(rebinds[q])'
               PROVE  p = q
    BY DEF OneHandOffAtATime
  <2> QED BY <1>4, <1>7
<1>9. HandOffIsMarked'
  <2>1. ASSUME subject = "intent", NEW q \in DOMAIN rebinds',
               rebinds'[q].status = "finalized", ~Applied(rebinds[q])'
        PROVE  FALSE
    <3>1. UnderWay(rebinds[q])'
      BY <2>1 DEF UnderWay
    <3> QED BY <1>3, <1>4, <1>7, <2>1, <3>1
  <2> QED BY <1>1, <2>1 DEF RebindIInv, HandOffIsMarked, Laid, HeadRev
<1>10. LaterIsMarked'
  BY <1>1 DEF RebindIInv, LaterIsMarked, Laid, HeadIsProjected, HeadRev, Marker
<1> QED BY <1>5, <1>8, <1>9, <1>10 DEF RebindIInv

\* ... and taken one event further: the marker is there once it is finalized.
LEMMA EventIsMarked ==
  ASSUME RebindIInv,
         NEW r \in DOMAIN rebinds, rebinds[r].status \in {"issued", "consumed"},
         NEW status \in Statuses, NEW claimed \in Owner,
         AppendLocalRebindEvent(r, status, claimed),
         markers \subseteq markers', markers' \subseteq
            [type : {"resolve", "handoff"}, session : Session, at : Nat],
         UNCHANGED <<publishers, projection, reused>>,
         subject = "intent" /\ status = "finalized" =>
            Marker("handoff", EffectiveNewOwner(rebinds'[r]), rebinds[r].head) \in markers'
  PROVE  RebindIInv'
<1>1. UNCHANGED <<subject, owner, history, legacyRebinds>>
  BY DEF AppendLocalRebindEvent
<1>2. /\ rebinds' \in Seq(Recovery) /\ DOMAIN rebinds' = DOMAIN rebinds
      /\ rebinds'[r] = [rebinds[r] EXCEPT !.status = status, !.claimed = claimed]
      /\ \A q \in DOMAIN rebinds : q # r => rebinds'[q] = rebinds[q]
      /\ OneHandOffAtATime'
  BY EventKeeps DEF RebindIInv
<1>3. RebindTypeOK'
  BY <1>1, <1>2 DEF RebindIInv, RebindTypeOK, Recovery, HeadRev
<1>4. rebinds[r] \in Recovery
  <2>1. rebinds \in Seq(Recovery)
    BY DEF RebindIInv, RebindTypeOK, Recovery
  <2> QED BY <2>1
<1>5. rebinds'[r].status = status /\ rebinds'[r].head = rebinds[r].head
  BY <1>2, <1>4 DEF Recovery
<1>6. HandOffIsMarked'
  <2>1. ASSUME subject = "intent", NEW q \in DOMAIN rebinds,
               rebinds'[q].status = "finalized", ~Applied(rebinds[q])'
        PROVE  \/ reused'
               \/ Marker("handoff", EffectiveNewOwner(rebinds'[q]), rebinds'[q].head)
                    \in markers'
    <3>1. CASE q = r
      BY <1>5, <2>1, <3>1
    <3>2. CASE q # r
      <4>1. rebinds'[q] = rebinds[q]
        BY <1>2, <3>2
      <4>2. ~Applied(rebinds[q])
        BY <1>1, <2>1, <4>1 DEF Applied, EffectiveNewOwner, HeadRev
      <4> QED BY <2>1, <4>1, <4>2
          DEF RebindIInv, HandOffIsMarked, Laid, Marker, EffectiveNewOwner
    <3> QED BY <3>1, <3>2
  <2> QED BY <1>1, <1>2, <2>1
      DEF RebindIInv, HandOffIsMarked, Laid, HeadRev, EffectiveNewOwner, Marker
<1>7. LaterIsMarked'
  BY <1>1 DEF RebindIInv, LaterIsMarked, Laid, HeadIsProjected, HeadRev, Marker
<1> QED BY <1>2, <1>3, <1>6, <1>7 DEF RebindIInv

\* The steps of a recovery keep the invariant.
LEMMA RecoveryKeeps ==
  ASSUME RebindIInv, RecoveryStep
  PROVE  RebindIInv'
<1>0. /\ rebinds \in Seq(Recovery)
      /\ markers \subseteq [type : {"resolve", "handoff"}, session : Session, at : Nat]
      /\ HeadRev \in Nat
  BY DEF RebindIInv, RebindTypeOK, Recovery, HeadRev
<1>1. ASSUME NEW s \in Session, NEW new \in Owner, IssueLocalRebind(s, new)
      PROVE  RebindIInv'
  BY <1>1, IssueKeeps
<1>2. ASSUME NEW r \in DOMAIN rebinds, NEW s \in Session, NEW action,
             ExpireIfNeeded(r, s, action)
      PROVE  RebindIInv'
  BY <1>0, <1>2, EventIsMarked DEF ExpireIfNeeded, projectionVars, Statuses, Owner
<1>3. ASSUME NEW r \in DOMAIN rebinds, NEW s \in Session, ConsumeLocalRebind(r, s)
      PROVE  RebindIInv'
  BY <1>0, <1>3, EventIsMarked DEF ConsumeLocalRebind, projectionVars, Statuses, Owner
<1>4. ASSUME NEW r \in DOMAIN rebinds, NEW s \in Session, RevokeLocalRebind(r, s)
      PROVE  RebindIInv'
  BY <1>0, <1>4, EventIsMarked DEF RevokeLocalRebind, projectionVars, Statuses, Owner
<1>5. ASSUME NEW r \in DOMAIN rebinds, NEW s \in Session, FinalizeLocalRebind(r, s)
      PROVE  RebindIInv'
  <2> DEFINE t == rebinds[r]
  <2>1. t \in Recovery /\ s # NoSession
    BY <1>0, RebindAssumption
  <2>2. /\ t.status = "consumed" /\ t.new \in {NoSession, s}
        /\ AppendLocalRebindEvent(r, "finalized", s)
        /\ HeadRev = t.head
        /\ markers' = IF subject = "intent"
                        THEN markers \cup {Marker("handoff", s, HeadRev)} ELSE markers
        /\ UNCHANGED <<publishers, projection, reused>>
    BY <1>5 DEF FinalizeLocalRebind, MayLookUpByRef, VerifyLocalRebindAggregate
  <2>3. rebinds'[r] = [t EXCEPT !.status = "finalized", !.claimed = s]
    BY <1>0, <2>2 DEF AppendLocalRebindEvent
  <2>4. EffectiveNewOwner(rebinds'[r]) = s
    BY <2>1, <2>2, <2>3 DEF EffectiveNewOwner, Recovery
  <2>5. Marker("handoff", s, HeadRev)
          \in [type : {"resolve", "handoff"}, session : Session, at : Nat]
    BY <1>0 DEF Marker
  <2>6. /\ markers \subseteq markers'
        /\ markers' \subseteq [type : {"resolve", "handoff"}, session : Session, at : Nat]
    BY <1>0, <2>2, <2>5
  <2>7. "finalized" \in Statuses /\ s \in Owner
    BY DEF Statuses, Owner
  <2>8. subject = "intent" =>
          Marker("handoff", EffectiveNewOwner(rebinds'[r]), t.head) \in markers'
    BY <2>2, <2>4
  <2> QED BY <2>2, <2>6, <2>7, <2>8, EventIsMarked
<1> QED BY <1>1, <1>2, <1>3, <1>4, <1>5 DEF RecoveryStep

\* A receipt or a revision is added by session s, who becomes the owner; a
\* receipt is marked before it is published.
LEMMA HistoryGrows ==
  ASSUME RebindIInv, NEW s \in Session,
         history' = Append(history, s), owner' = s,
         UNCHANGED <<subject, rebinds, projection, reused>>,
         markers \subseteq markers',
         markers' \subseteq [type : {"resolve", "handoff"}, session : Session, at : Nat],
         projection.receipt # 0 => Marker("resolve", s, HeadRev + 1) \in markers',
         legacyRebinds' \subseteq
            [kind : Kinds, prev : Session, new : Session, head : Nat],
         publishers' \subseteq [receipt : 1 .. HeadRev + 1, step : {"write", "clear"}],
         \A p \in publishers' : p.step = "clear" => p \in publishers
  PROVE  RebindIInv'
<1>1. /\ history \in Seq(Session) /\ history' \in Seq(Session)
      /\ HeadRev \in Nat /\ HeadRev' = HeadRev + 1
      /\ history'[HeadRev + 1] = s
      /\ \A i \in 1 .. HeadRev : history'[i] = history[i]
  BY DEF RebindIInv, RebindTypeOK, HeadRev
<1>2. rebinds \in Seq(Recovery)
  BY DEF RebindIInv, RebindTypeOK, Recovery
<1>3. RebindTypeOK'
  BY <1>1 DEF RebindIInv, RebindTypeOK, Owner
<1>4. \A r \in DOMAIN rebinds :
        /\ Applied(rebinds[r]) => Applied(rebinds[r])'
        /\ UnderWay(rebinds[r])' => UnderWay(rebinds[r])
  <2> SUFFICES ASSUME NEW r \in DOMAIN rebinds
               PROVE  /\ Applied(rebinds[r]) => Applied(rebinds[r])'
                      /\ UnderWay(rebinds[r])' => UnderWay(rebinds[r])
    OBVIOUS
  <2>1. PICK t \in Recovery : t = rebinds[r]
    BY <1>2
  <2>2. /\ Applied(t) => Applied(t)'
        /\ UnderWay(t)' => UnderWay(t)
    BY <1>1, AppliedStays
  <2> QED BY <2>1, <2>2 DEF Applied, UnderWay, EffectiveNewOwner, HeadRev
<1>5. OneHandOffAtATime'
  BY <1>4 DEF RebindIInv, OneHandOffAtATime
<1>6. HandOffIsMarked'
  <2>1. ASSUME subject = "intent", NEW r \in DOMAIN rebinds,
               rebinds[r].status = "finalized", ~Applied(rebinds[r])'
        PROVE  Laid(Marker("handoff", EffectiveNewOwner(rebinds[r]), rebinds[r].head))'
    BY <1>4, <2>1 DEF RebindIInv, HandOffIsMarked, Laid
  <2>2. history'[HeadRev'] = owner'
    BY <1>1
  <2> QED BY <2>1, <2>2
      DEF HandOffIsMarked, Laid, HeadRev, EffectiveNewOwner, Marker
<1>7. LaterIsMarked'
  <2>1. projection.receipt \in Nat /\ projection.head \in Nat
    BY DEF RebindIInv, RebindTypeOK
  <2>2. ASSUME HeadIsProjected, NEW i \in projection.receipt + 1 .. HeadRev + 1
        PROVE  reused' \/ Marker("resolve", history'[i], i) \in markers'
    <3>1. CASE i = HeadRev + 1
      BY <1>1, <2>2, <3>1 DEF HeadIsProjected
    <3>2. CASE i \in projection.receipt + 1 .. HeadRev
      <4>1. i \in 1 .. HeadRev
        BY <1>1, <2>1, <3>2
      <4>2. Laid(Marker("resolve", history[i], i))
        BY <2>2, <3>2 DEF RebindIInv, LaterIsMarked, Laid
      <4> QED BY <1>1, <4>1, <4>2 DEF Laid, Marker
    <3>3. i = HeadRev + 1 \/ i \in projection.receipt + 1 .. HeadRev
      BY <1>1, <2>1, <2>2
    <3> QED BY <3>1, <3>2, <3>3
  <2> QED BY <1>1, <2>2
      DEF RebindIInv, LaterIsMarked, Laid, HeadIsProjected, HeadRev, Marker
<1> QED BY <1>3, <1>5, <1>6, <1>7 DEF RebindIInv

\* Nothing of the hand-offs changes; what protects a marker is said of markers'.
LEMMA FilesMove ==
  ASSUME RebindIInv, UNCHANGED <<subject, owner, history, rebinds>>,
         RebindTypeOK', LaterIsMarked',
         reused => reused',
         \A m \in markers : m.type = "handoff" /\ m \notin markers' /\ ~reused' =>
           \E i \in 1 .. HeadRev : m.at < i /\ m.session = history[i]
  PROVE  RebindIInv'
<1>0. HeadRev \in Nat /\ rebinds \in Seq(Recovery)
  BY DEF RebindIInv, RebindTypeOK, HeadRev, Recovery
<1>1. OneHandOffAtATime'
  BY DEF RebindIInv, OneHandOffAtATime, UnderWay, Applied, EffectiveNewOwner, HeadRev
<1>2. ASSUME subject = "intent", NEW r \in DOMAIN rebinds,
             rebinds[r].status = "finalized", ~Applied(rebinds[r])
      PROVE  Laid(Marker("handoff", EffectiveNewOwner(rebinds[r]), rebinds[r].head))'
  <2> SUFFICES ASSUME ~reused'
               PROVE  Marker("handoff", EffectiveNewOwner(rebinds[r]), rebinds[r].head)
                        \in markers'
    BY DEF Laid, Marker, EffectiveNewOwner
  <2>1. PICK m \in markers :
          m = Marker("handoff", EffectiveNewOwner(rebinds[r]), rebinds[r].head)
    BY <1>2 DEF RebindIInv, HandOffIsMarked, Laid
  <2>2. m.type = "handoff" /\ m.at = rebinds[r].head
        /\ m.session = EffectiveNewOwner(rebinds[r])
    BY <2>1 DEF Marker
  <2>3. ASSUME m \notin markers' PROVE FALSE
    <3>1. PICK i \in 1 .. HeadRev : m.at < i /\ m.session = history[i]
      BY <2>2, <2>3
    <3>2. rebinds[r] \in Recovery
      BY <1>0
    <3>3. rebinds[r].head \in Nat
      BY <3>2 DEF Recovery
    <3>4. i \in rebinds[r].head + 1 .. HeadRev
      BY <1>0, <2>2, <3>1, <3>3
    <3> QED BY <1>2, <2>2, <3>1, <3>4 DEF Applied
  <2> QED BY <2>1, <2>3
<1>3. ASSUME subject = "intent", history # <<>>, history[HeadRev] # owner
      PROVE  Laid(Marker("handoff", owner, HeadRev))'
  <2> SUFFICES ASSUME ~reused' PROVE Marker("handoff", owner, HeadRev) \in markers'
    BY DEF Laid, Marker, HeadRev
  <2>1. PICK m \in markers : m = Marker("handoff", owner, HeadRev)
    BY <1>3 DEF RebindIInv, HandOffIsMarked, Laid
  <2>2. m.type = "handoff" /\ m.at = HeadRev
    BY <2>1 DEF Marker
  <2> QED BY <1>0, <2>1, <2>2
<1>4. HandOffIsMarked'
  BY <1>2, <1>3 DEF HandOffIsMarked, Laid, Applied, EffectiveNewOwner, HeadRev, Marker
<1> QED BY <1>1, <1>4 DEF RebindIInv

\* The steps of the intent keep the invariant.
LEMMA IntentKeeps ==
  ASSUME RebindIInv, IntentStep
  PROVE  RebindIInv'
<1>0. /\ subject = "intent" /\ HeadRev \in Nat /\ history \in Seq(Session)
      /\ markers \subseteq [type : {"resolve", "handoff"}, session : Session, at : Nat]
      /\ publishers \subseteq [receipt : 1 .. HeadRev, step : {"write", "clear"}]
      /\ projection \in [receipt : Nat, head : Nat]
      /\ \A i \in 1 .. HeadRev : history[i] \in Session
  BY DEF RebindIInv, RebindTypeOK, HeadRev, IntentStep
<1>1. ASSUME NEW s \in Session, LegacyRebindIntentSession(s) PROVE RebindIInv'
  <2>1. /\ owner' = s /\ markers' = markers \cup {Marker("handoff", s, HeadRev)}
        /\ UNCHANGED <<subject, history, rebinds, legacyRebinds, publishers, projection, reused>>
    BY <1>1 DEF LegacyRebindIntentSession
  <2>2. Marker("handoff", s, HeadRev)
          \in [type : {"resolve", "handoff"}, session : Session, at : Nat]
    BY <1>0 DEF Marker
  <2>3. RebindTypeOK'
    BY <1>0, <2>1, <2>2 DEF RebindIInv, RebindTypeOK, Owner, HeadRev
  <2>4. OneHandOffAtATime'
    BY <2>1 DEF RebindIInv, OneHandOffAtATime, UnderWay, Applied,
                EffectiveNewOwner, HeadRev
  <2>5. HandOffIsMarked'
    BY <2>1 DEF RebindIInv, HandOffIsMarked, Laid, Applied, EffectiveNewOwner,
                HeadRev, Marker
  <2>6. LaterIsMarked'
    BY <2>1 DEF RebindIInv, LaterIsMarked, Laid, HeadIsProjected, HeadRev, Marker
  <2> QED BY <2>3, <2>4, <2>5, <2>6 DEF RebindIInv
<1>2. ASSUME NEW s \in Session, ResolveIntent(s) PROVE RebindIInv'
  <2>1. /\ history' = Append(history, s) /\ owner' = s
        /\ markers' = markers \cup {Marker("resolve", s, HeadRev + 1)}
        /\ publishers' = publishers \cup {[receipt |-> HeadRev + 1, step |-> "write"]}
        /\ UNCHANGED <<subject, rebinds, legacyRebinds, projection, reused>>
    BY <1>2 DEF ResolveIntent
  <2>2. Marker("resolve", s, HeadRev + 1)
          \in [type : {"resolve", "handoff"}, session : Session, at : Nat]
    BY <1>0 DEF Marker
  <2>3. publishers' \subseteq [receipt : 1 .. HeadRev + 1, step : {"write", "clear"}]
    BY <1>0, <2>1
  <2>4. \A p \in publishers' : p.step = "clear" => p \in publishers
    BY <2>1
  <2>5. legacyRebinds' \subseteq
          [kind : Kinds, prev : Session, new : Session, head : Nat]
    BY <2>1 DEF RebindIInv, RebindTypeOK
  <2> QED BY <1>0, <2>1, <2>2, <2>3, <2>4, <2>5, HistoryGrows
<1>3. ASSUME NEW i \in 1 .. HeadRev, ReplayResolve(i) PROVE RebindIInv'
  <2>1. /\ markers' = markers \cup {Marker("resolve", history[i], i)}
        /\ publishers' = publishers \cup {[receipt |-> i, step |-> "write"]}
        /\ UNCHANGED <<subject, owner, history, rebinds, legacyRebinds, projection, reused>>
    BY <1>3 DEF ReplayResolve
  <2>2. Marker("resolve", history[i], i)
          \in [type : {"resolve", "handoff"}, session : Session, at : Nat]
    BY <1>0 DEF Marker
  <2>3. RebindTypeOK'
    BY <1>0, <2>1, <2>2 DEF RebindIInv, RebindTypeOK, HeadRev
  <2>4. LaterIsMarked'
    BY <2>1 DEF RebindIInv, LaterIsMarked, Laid, HeadIsProjected, HeadRev, Marker
  <2> QED BY <2>1, <2>3, <2>4, FilesMove
<1>4. ASSUME NEW p \in publishers, PublishProjection(p) PROVE RebindIInv'
  <2> DEFINE later == [p EXCEPT !.step = "clear"]
  <2>1. /\ p.step = "write"
        /\ projection' = [receipt |-> p.receipt, head |-> HeadRev]
        /\ publishers' = (publishers \ {p}) \cup {later}
        /\ UNCHANGED <<subject, owner, history, rebinds, legacyRebinds, markers, reused>>
    BY <1>4 DEF PublishProjection
  <2>2. /\ p.receipt \in 1 .. HeadRev
        /\ later \in [receipt : 1 .. HeadRev, step : {"write", "clear"}]
        /\ later.receipt = p.receipt
    BY <1>0
  <2> HIDE DEF later
  <2>3. publishers' \subseteq [receipt : 1 .. HeadRev, step : {"write", "clear"}]
    BY <1>0, <2>1, <2>2
  <2>4. projection' \in [receipt : Nat, head : Nat]
    BY <1>0, <2>1, <2>2
  <2>5. RebindTypeOK'
    BY <2>1, <2>3, <2>4 DEF RebindIInv, RebindTypeOK, HeadRev
  <2>6. /\ projection'.receipt = p.receipt /\ projection'.head = HeadRev
        /\ HeadRev' = HeadRev
    BY <2>1 DEF HeadRev
  <2>7. \A q \in publishers' : q.receipt <= HeadRev
    BY <1>0, <2>3
  <2>8. ASSUME p.receipt = HeadRev PROVE p.receipt + 1 .. HeadRev = {}
    BY <1>0, <2>8
  <2>9. LaterIsMarked'
    BY <1>0, <2>1, <2>2, <2>6, <2>7, <2>8 DEF LaterIsMarked, Laid, HeadIsProjected
  <2> QED BY <2>1, <2>5, <2>9, FilesMove
<1>5. ASSUME NEW p \in publishers, FinalizeProjection(p) PROVE RebindIInv'
  <2>1. /\ p.step = "clear"
        /\ markers' = markers \ ({Marker("resolve", history[p.receipt], p.receipt)}
                                   \cup SafeMarkers(p.receipt))
        /\ publishers' = publishers \ {p}
        /\ UNCHANGED <<subject, owner, history, rebinds, legacyRebinds, projection, reused>>
    BY <1>5 DEF FinalizeProjection
  <2>2. p.receipt \in 1 .. HeadRev
    BY <1>0
  <2>3. RebindTypeOK'
    BY <2>1 DEF RebindIInv, RebindTypeOK, HeadRev
  <2>4. \A m \in markers : m \notin markers' =>
          \/ m = Marker("resolve", history[p.receipt], p.receipt)
          \/ m.at < p.receipt /\ (m.type = "handoff" => m.session = history[p.receipt])
    BY <2>1 DEF SafeMarkers
  <2>5. \A m \in markers : m.type = "handoff" /\ m \notin markers' =>
          \E i \in 1 .. HeadRev : m.at < i /\ m.session = history[i]
    BY <2>2, <2>4 DEF Marker
  <2>6. ASSUME HeadIsProjected, NEW i \in projection.receipt + 1 .. HeadRev
        PROVE  Laid(Marker("resolve", history[i], i))'
    <3> SUFFICES ASSUME ~reused PROVE Marker("resolve", history[i], i) \in markers'
      BY <2>1 DEF Laid, Marker
    <3>1. p.receipt <= projection.receipt
      BY <2>1, <2>6 DEF RebindIInv, LaterIsMarked, Laid
    <3>2. PICK m \in markers : m = Marker("resolve", history[i], i)
      BY <2>6 DEF RebindIInv, LaterIsMarked, Laid
    <3>3. m.at = i /\ i > p.receipt /\ p.receipt \in Nat
      BY <1>0, <2>2, <2>6, <3>1, <3>2 DEF Marker
    <3>4. m # Marker("resolve", history[p.receipt], p.receipt)
      BY <3>3 DEF Marker
    <3> QED BY <2>4, <3>2, <3>3, <3>4
  <2>7. LaterIsMarked'
    BY <2>1, <2>6 DEF RebindIInv, LaterIsMarked, Laid, HeadIsProjected, HeadRev, Marker
  <2> QED BY <2>1, <2>3, <2>5, <2>7, FilesMove
<1>6. ASSUME NEW p \in publishers, PublicationEnds(p) PROVE RebindIInv'
  <2>1. /\ publishers' = publishers \ {p}
        /\ UNCHANGED <<subject, owner, history, rebinds, legacyRebinds, markers,
                       projection, reused>>
    BY <1>6 DEF PublicationEnds
  <2>2. RebindTypeOK'
    BY <2>1 DEF RebindIInv, RebindTypeOK, HeadRev
  <2>3. LaterIsMarked'
    BY <2>1 DEF RebindIInv, LaterIsMarked, Laid, HeadIsProjected, HeadRev, Marker
  <2> QED BY <2>1, <2>2, <2>3, FilesMove
<1>7. ASSUME NEW m \in markers, RefuseReusedCommand(m) PROVE RebindIInv'
  <2>1. /\ markers' = markers \ {m} /\ reused' = TRUE
        /\ UNCHANGED <<subject, owner, history, rebinds, legacyRebinds, publishers,
                       projection>>
    BY <1>7 DEF RefuseReusedCommand
  <2>2. RebindTypeOK'
    BY <2>1 DEF RebindIInv, RebindTypeOK, HeadRev
  <2>3. LaterIsMarked'
    BY <2>1 DEF RebindIInv, LaterIsMarked, Laid, HeadIsProjected, HeadRev, Marker
  <2> QED BY <2>1, <2>2, <2>3, FilesMove
<1> QED BY <1>1, <1>2, <1>3, <1>4, <1>5, <1>6, <1>7 DEF IntentStep

\* The steps of the task keep the invariant.
LEMMA TaskKeeps ==
  ASSUME RebindIInv, TaskStep
  PROVE  RebindIInv'
<1>0. /\ subject = "task" /\ HeadRev \in Nat /\ history \in Seq(Session)
      /\ markers \subseteq [type : {"resolve", "handoff"}, session : Session, at : Nat]
      /\ publishers \subseteq [receipt : 1 .. HeadRev, step : {"write", "clear"}]
      /\ legacyRebinds \subseteq
           [kind : Kinds, prev : Session, new : Session, head : Nat]
      /\ owner \in Owner /\ projection.receipt = 0
  BY DEF RebindIInv, RebindTypeOK, LaterIsMarked, Laid, HeadRev, TaskStep
<1>1. ASSUME NEW s \in Session, ImportTask(s) \/ ApplyTask(s) PROVE RebindIInv'
  <2>1. /\ history' = Append(history, s) /\ owner' = s
        /\ UNCHANGED <<subject, rebinds, legacyRebinds, markers, publishers, projection, reused>>
    <3>1. Append(<<>>, s) = <<s>>
      OBVIOUS
    <3> QED BY <1>1, <3>1 DEF ImportTask, ApplyTask, projectionVars
  <2>2. publishers' \subseteq [receipt : 1 .. HeadRev + 1, step : {"write", "clear"}]
    BY <1>0, <2>1
  <2>3. \A p \in publishers' : p.step = "clear" => p \in publishers
    BY <2>1
  <2> QED BY <1>0, <2>1, <2>2, <2>3, HistoryGrows
<1>2. ASSUME NEW s \in Session, NEW p \in Session,
             LegacyIssueTaskSessionRebind(s) \/ IntentRebindOfSameTask(p, s)
      PROVE  RebindIInv'
  <2>1. UNCHANGED <<subject, owner, history, rebinds, markers, publishers, projection, reused>>
    BY <1>2 DEF LegacyIssueTaskSessionRebind, IntentRebindOfSameTask, projectionVars
  <2>2. legacyRebinds' \subseteq
          [kind : Kinds, prev : Session, new : Session, head : Nat]
    BY <1>0, <1>2
    DEF LegacyIssueTaskSessionRebind, IntentRebindOfSameTask, Kinds, Owner
  <2>3. RebindTypeOK'
    BY <2>1, <2>2 DEF RebindIInv, RebindTypeOK, HeadRev
  <2>4. LaterIsMarked'
    BY <2>1 DEF RebindIInv, LaterIsMarked, Laid, HeadIsProjected, HeadRev, Marker
  <2> QED BY <2>1, <2>3, <2>4, FilesMove
<1> QED BY <1>1, <1>2 DEF TaskStep

\* RebindIInv holds from the start and is kept by every step.
THEOREM RebindInvariance == RebindSpec => []RebindIInv
<1>1. RebindInit => RebindIInv
  <2> SUFFICES ASSUME RebindInit PROVE RebindIInv
    OBVIOUS
  <2>1. history = <<>> /\ rebinds = <<>> /\ HeadRev = 0 /\ DOMAIN rebinds = {}
    BY DEF RebindInit, HeadRev
  <2>2. RebindTypeOK
    <3>1. reused \in BOOLEAN
      BY DEF RebindInit
    <3> QED BY <2>1, <3>1 DEF RebindInit, RebindTypeOK, Owner
  <2> QED BY <2>1, <2>2
      DEF RebindInit, RebindIInv, OneHandOffAtATime, HandOffIsMarked, Laid,
          LaterIsMarked, HeadIsProjected
<1>2. RebindIInv /\ [RebindNext]_rebindVars => RebindIInv'
  <2> SUFFICES ASSUME RebindIInv, [RebindNext]_rebindVars PROVE RebindIInv'
    OBVIOUS
  <2>1. CASE UNCHANGED rebindVars
    <3>1. UNCHANGED <<subject, owner, history, rebinds, legacyRebinds, markers,
                      publishers, projection, reused>>
      BY <2>1 DEF rebindVars, projectionVars
    <3>2. RebindTypeOK'
      BY <3>1 DEF RebindIInv, RebindTypeOK, HeadRev
    <3>3. LaterIsMarked'
      BY <3>1 DEF RebindIInv, LaterIsMarked, Laid, HeadIsProjected, HeadRev, Marker
    <3> QED BY <3>1, <3>2, <3>3, FilesMove
  <2> QED BY <2>1, RecoveryKeeps, IntentKeeps, TaskKeeps DEF RebindNext
<1> QED BY <1>1, <1>2, PTL DEF RebindSpec

\* What the hand-offs, the markers and the projection are made of.
THEOREM RebindTypeCorrect == RebindSpec => []RebindTypeOK
<1>1. RebindIInv => RebindTypeOK
  BY DEF RebindIInv
<1> QED BY <1>1, RebindInvariance, PTL

\* At any time at most one hand-off of an aggregate is under way, whatever is
\* replayed, revoked, expired or rebound the older way.
THEOREM OneHandOff == RebindSpec => []OneHandOffAtATime
<1>1. RebindIInv => OneHandOffAtATime
  BY DEF RebindIInv
<1> QED BY <1>1, RebindInvariance, PTL

\* The files never let the context reader take an intent's earlier owner or an
\* earlier receipt for the current one, but for a late publication, until a command
\* that has another one's id is refused.
THEOREM ReaderNotMisled == RebindSpec => []ReaderIsNotMisled
<1>1. ASSUME RebindIInv, ~reused PROVE HandOffBlocksReader
  BY <1>1 DEF RebindIInv, HandOffIsMarked, Laid, HandOffBlocksReader
<1>2. ASSUME RebindIInv, ~reused PROVE StaleProjectionIsLate
  <2> SUFFICES ASSUME NEW i \in 1 .. HeadRev, markers = {},
                      projection.receipt = i, i # HeadRev
               PROVE  i < projection.head
    BY DEF StaleProjectionIsLate, ReadIntentContextProjection
  <2>1. /\ i <= projection.head /\ HeadRev \in Nat /\ projection.head \in Nat
    BY <1>2 DEF RebindIInv, LaterIsMarked, Laid, RebindTypeOK, HeadRev
  <2>2. ASSUME projection.head = i PROVE FALSE
    <3>1. HeadIsProjected
      BY <2>2 DEF HeadIsProjected
    <3>2. i + 1 \in projection.receipt + 1 .. HeadRev
      BY <2>1
    <3> QED BY <1>2, <3>1, <3>2 DEF RebindIInv, LaterIsMarked, Laid
  <2> QED BY <2>1, <2>2
<1>3. RebindIInv => ReaderIsNotMisled
  BY <1>1, <1>2 DEF ReaderIsNotMisled
<1> QED BY <1>3, RebindInvariance, PTL

\* A finalized recovery moves an intent once, and the older rebind only while no
\* recovery is under way.
THEOREM IntentMovesOnce == RebindSpec => IntentMovesOnFreshAuthority
<1> DEFINE Moves ==
      (subject = "intent" /\ owner # NoSession /\ owner' # owner) =>
          \/ \E r \in DOMAIN rebinds : /\ rebinds[r].status = "finalized"
                                       /\ ~Applied(rebinds[r])
                                       /\ rebinds[r].prev = owner
                                       /\ EffectiveNewOwner(rebinds[r]) = owner'
          \/ /\ history' = history
             /\ \A r \in DOMAIN rebinds : ~UnderWay(rebinds[r])
<1>1. ASSUME RebindIInv, [RebindNext]_rebindVars PROVE Moves
  <2> SUFFICES ASSUME subject = "intent", owner # NoSession, owner' # owner
               PROVE  Moves
    OBVIOUS
  <2>1. ASSUME RecoveryStep PROVE FALSE
    BY <2>1 DEF RecoveryStep, IssueLocalRebind, ExpireIfNeeded,
                ConsumeLocalRebind, FinalizeLocalRebind, RevokeLocalRebind,
                AppendLocalRebindEvent
  <2>2. CASE IntentStep
    <3>1. ASSUME NEW s \in Session, LegacyRebindIntentSession(s) PROVE Moves
      BY <1>1, <3>1, BlockingIsUnderWay DEF LegacyRebindIntentSession, RebindIInv
    <3>2. ASSUME NEW s \in Session, ResolveIntent(s) PROVE Moves
      <4>1. owner' = s
        BY <3>2 DEF ResolveIntent
      <4>2. PICK r \in DOMAIN rebinds : VerifyIntentLocalRebind(rebinds[r], s)
        BY <3>2, <4>1 DEF ResolveIntent
      <4>3. /\ rebinds[r].status = "finalized" /\ rebinds[r].prev = owner
            /\ EffectiveNewOwner(rebinds[r]) = s /\ rebinds[r].head = HeadRev
        BY <4>2 DEF VerifyIntentLocalRebind, VerifyLocalRebindAggregate
      <4>4. HeadRev \in Nat
        BY <1>1 DEF RebindIInv, RebindTypeOK, HeadRev
      <4>5. ~Applied(rebinds[r])
        BY <4>3, <4>4 DEF Applied
      <4> QED BY <4>1, <4>3, <4>5
    <3>3. ASSUME \/ \E i \in 1 .. HeadRev : ReplayResolve(i)
                 \/ \E m \in markers : RefuseReusedCommand(m)
                 \/ \E p \in publishers :
                       PublishProjection(p) \/ FinalizeProjection(p) \/ PublicationEnds(p)
          PROVE  FALSE
      BY <3>3 DEF ReplayResolve, RefuseReusedCommand, PublishProjection, FinalizeProjection, PublicationEnds
    <3> QED BY <2>2, <3>1, <3>2, <3>3 DEF IntentStep
  <2>3. ASSUME TaskStep PROVE FALSE
    BY <2>3 DEF TaskStep
  <2>4. ASSUME UNCHANGED rebindVars PROVE FALSE
    BY <2>4 DEF rebindVars
  <2> QED BY <1>1, <2>1, <2>2, <2>3, <2>4 DEF RebindNext
<1>2. RebindIInv /\ [RebindNext]_rebindVars => [Moves]_rebindVars
  BY <1>1
<1> QED BY <1>2, RebindInvariance, PTL DEF RebindSpec, IntentMovesOnFreshAuthority

----------------------------------------------------------------------------
(* Memory cards: the snapshot and the purge.                               *)

\* Every revision but those of the history has a command of its own.
RevisionsAreCommands == Revision <= Cardinality(commandLog) + 3

\* A command that was issued has an id.
IssuedHasId ==
  \A w \in Writer :
    /\ command[w] = NoCommand \/ command[w].id \in CommandIds
    /\ stage[w] \in {"marked", "refused"} => command[w].id \in CommandIds

\* What a card in Trash goes back to.
TrashedFrom ==
  \A r \in DOMAIN revisions :
    revisions[r].life = "trashed" => revisions[r].from \in {"proposed", "active"}

\* The tombstone of a forgotten card is of its last revision.
TombstoneIsOfHead ==
  Revision > 0 /\ Life = "forgotten" => tombstone.revision = Revision

\* How far a lone writer's marker, reading and file are right.
LoneWriter ==
  ~overlapped =>
    /\ \A v, w \in Under : v = w
    /\ \A w \in Writer :
         /\ stage[w] = "marked" => dirty
         /\ stage[w] \in {"marked", "refused"} /\ created[w] => snapshot = Projected
         /\ stage[w] = "read" => copy[w] = Projected
         /\ stage[w] \in {"written", "verified"} => snapshot = Projected

CardIInv ==
  /\ CardTypeOK /\ RevisionsAreCommands /\ IssuedHasId
  /\ TrashedFrom /\ TombstoneIsOfHead /\ PurgeIsOfThisForgetting
  /\ LoneWriter /\ LoneWritersFailClosed

\* What a command appends: a revision, whose Trash knows where the card was; and
\* only the two commands that forget make a tombstone.
LEMMA ResultIs ==
  ASSUME CardTypeOK, TrashedFrom, NEW c \in Commands, c.id \in CommandIds, Allowed(c)
  PROVE  /\ Result(c) \in Past
         /\ Result(c).life = "trashed" => Result(c).from \in {"proposed", "active"}
         /\ Result(c).life = "forgotten" => c.type \in {"forget_active", "forget_trashed"}
<1>0. /\ revisions \in Seq(Past) /\ Revision \in Nat
      /\ c.id \in Texts /\ Tombstone \in Texts
      /\ DOMAIN revisions = 1 .. Revision
  BY DEF CardTypeOK, Revision, Texts, Tombstone
<1>1. Revision > 0 => /\ revisions[Revision] \in Past
                      /\ revisions[Revision].life = Life
                      /\ Life = "trashed" =>
                           revisions[Revision].from \in {"proposed", "active"}
  BY <1>0 DEF Life, TrashedFrom
<1>2. Revision > 0 => /\ revisions[Revision].text \in Texts /\ Life \in Lifecycles
                      /\ revisions[Revision].from \in Lifecycles
  BY <1>1 DEF Past
<1>3. c.type # "none"
  BY DEF Allowed
<1>4. CASE c.type \in {"create_card", "edit_card"}
  <2>1. Result(c) = [life |-> c.life, text |-> c.id, from |-> c.life]
    BY <1>4 DEF Result
  <2>2. c.life \in Lifecycles /\ c.life \notin {"trashed", "forgotten"}
    BY <1>4 DEF Allowed, Commands
  <2> QED BY <1>0, <2>1, <2>2 DEF Past
<1>5. CASE c.type = "supersede_card"
  <2>1. /\ Result(c) = [life |-> "superseded", text |-> revisions[Revision].text,
                        from |-> "superseded"]
        /\ Revision > 0
    BY <1>5 DEF Result, Allowed
  <2> QED BY <1>2, <2>1 DEF Past, Lifecycles
<1>6. CASE c.type = "cancel_card"
  <2>1. /\ Result(c) = [life |-> "cancelled", text |-> revisions[Revision].text,
                        from |-> "cancelled"]
        /\ Revision > 0
    BY <1>6 DEF Result, Allowed
  <2> QED BY <1>2, <2>1 DEF Past, Lifecycles
<1>7. CASE c.type = "trash_card"
  <2>1. /\ Result(c) = [life |-> "trashed", text |-> revisions[Revision].text,
                        from |-> Life]
        /\ Revision > 0 /\ Life \in {"proposed", "active"}
    BY <1>7 DEF Result, Allowed
  <2> QED BY <1>2, <2>1 DEF Past, Lifecycles
<1>8. CASE c.type = "restore_card"
  <2>1. /\ Result(c) = [life |-> revisions[Revision].from,
                        text |-> revisions[Revision].text,
                        from |-> revisions[Revision].from]
        /\ Revision > 0 /\ Life = "trashed"
    BY <1>8 DEF Result, Allowed
  <2> QED BY <1>1, <1>2, <2>1 DEF Past, Lifecycles
<1>9. CASE c.type = "rollback_card"
  <2>1. /\ Result(c) = [revisions[c.restore] EXCEPT !.from = revisions[c.restore].life]
        /\ c.restore \in 1 .. Revision - 1
        /\ revisions[c.restore].life \in {"proposed", "active"}
    BY <1>9 DEF Result, Allowed
  <2>2. c.restore \in DOMAIN revisions
    BY <1>0, <2>1
  <2>3. revisions[c.restore] \in Past
    BY <1>0, <2>2
  <2> QED BY <2>1, <2>3 DEF Past
<1>10. CASE c.type \in {"forget_active", "forget_trashed"}
  <2>1. Result(c) = [life |-> "forgotten", text |-> Tombstone, from |-> "forgotten"]
    BY <1>10 DEF Result
  <2> QED BY <1>0, <1>10, <2>1 DEF Past, Lifecycles
<1> QED BY <1>3, <1>4, <1>5, <1>6, <1>7, <1>8, <1>9, <1>10 DEF Commands

\* Fewer commands than ids are applied.
LEMMA LogIsBounded ==
  ASSUME CardTypeOK
  PROVE  /\ IsFiniteSet(commandLog) /\ Cardinality(commandLog) \in Nat
         /\ Cardinality(commandLog) <= MaxCommands
<1>1. MaxCommands \in Int /\ 1 \in Int
  BY MaxCommandsAssumption
<1>2. IsFiniteSet(CommandIds) /\ Cardinality(CommandIds) = MaxCommands
  BY <1>1, FS_Interval, MaxCommandsAssumption DEF CommandIds
<1>3. commandLog \subseteq CommandIds
  BY DEF CardTypeOK
<1> QED BY <1>2, <1>3, FS_Subset, FS_CardinalityType

\* A set of natural numbers has a least element.
LEMMA LeastElement ==
  ASSUME NEW T \in SUBSET Nat, T # {}
  PROVE  \E x \in T : \A y \in T : x <= y
<1>1. IsWellFoundedOn(OpToRel(<, Nat), Nat)
  BY NatLessThanWellFounded
<1>2. \E x \in T : \A y \in T : ~ (<<y, x>> \in OpToRel(<, Nat))
  BY <1>1, WFMin
<1>3. \E x \in T : \A y \in T : ~(y < x)
  BY <1>2 DEF OpToRel
<1> QED BY <1>3

\* What a writer issues is a command with an id of its own.
LEMMA IssuedType ==
  ASSUME CardTypeOK, NEW w \in Writer, Issue(w)
  PROVE  \E c \in Commands : c.id \in CommandIds /\ command' = [command EXCEPT ![w] = c]
<1> DEFINE First(i) == Fresh(i) /\ \A j \in 1 .. i - 1 : ~Fresh(j)
           Unused == {i \in CommandIds : Fresh(i)}
<1>1. Unused \in SUBSET Nat /\ Unused # {}
  BY DEF Issue, CommandIds
<1>2. PICK i \in Unused : \A j \in Unused : i <= j
  <2> HIDE DEF Unused
  <2> QED BY <1>1, LeastElement
<1>3. First(i)
  <2>1. i \in 1 .. MaxCommands /\ Fresh(i)
    BY DEF CommandIds
  <2> SUFFICES ASSUME NEW j \in 1 .. i - 1, Fresh(j) PROVE FALSE
    BY <2>1
  <2>2. j \in Unused
    BY <2>1, MaxCommandsAssumption DEF CommandIds
  <2> QED BY <1>2, <2>1, <2>2
<1>4. NextId \in CommandIds
  <2>1. NextId = CHOOSE k \in CommandIds : First(k)
    BY DEF NextId
  <2> HIDE DEF First
  <2> QED BY <1>3, <2>1
<1>5. PICK type \in {"create_card", "edit_card", "supersede_card", "trash_card",
                     "restore_card", "cancel_card", "forget_active",
                     "forget_trashed", "rollback_card"},
           life \in Lifecycles, restore \in 0 .. MaxRevision :
        command' = [command EXCEPT ![w] =
           [id |-> NextId, type |-> type, expected |-> Revision, life |-> life,
            restore |-> restore]]
  BY DEF Issue
<1>6. Revision \in 0 .. MaxRevision
  BY DEF CardTypeOK, Revision, MaxRevision
<1>7. [id |-> NextId, type |-> type, expected |-> Revision, life |-> life,
       restore |-> restore] \in Commands
  BY <1>4, <1>6 DEF Commands
<1> QED BY <1>4, <1>5, <1>7

\* The revision that last forgot the card is one of its revisions, and the last
\* one of a card that is forgotten now.
LEMMA ForgettingIs ==
  ASSUME revisions \in Seq(Past)
  PROVE  /\ Forgetting \in 0 .. Revision
         /\ Revision > 0 /\ Life = "forgotten" => Forgetting = Revision
<1> DEFINE S == {0} \cup {r \in DOMAIN revisions : revisions[r].life = "forgotten"}
           T == {Revision - x : x \in S}
<1>1. Revision \in Nat /\ DOMAIN revisions = 1 .. Revision
  BY DEF Revision
<1>2. 0 \in S /\ S \subseteq 0 .. Revision
  BY <1>1
<1>3. Revision > 0 /\ Life = "forgotten" => Revision \in S
  BY <1>1 DEF Life
<1> HIDE DEF S
<1>4. T \in SUBSET Nat /\ T # {}
  BY <1>1, <1>2
<1>5. PICK t \in T : \A y \in T : t <= y
  <2> HIDE DEF T
  <2> QED BY <1>4, LeastElement
<1>6. PICK m \in S : t = Revision - m
  BY <1>5
<1>7. \A y \in S : m >= y
  <2> TAKE y \in S
  <2>1. Revision - y \in T
    OBVIOUS
  <2> HIDE DEF T
  <2>2. Revision - m <= Revision - y
    BY <1>5, <1>6, <2>1
  <2>3. m \in Nat /\ y \in Nat
    BY <1>1, <1>2
  <2> QED BY <1>1, <2>2, <2>3
<1>8. /\ Forgetting = CHOOSE x \in S : \A y \in S : x >= y
  BY DEF Forgetting, Max, S
<1>9. Forgetting \in S /\ \A y \in S : Forgetting >= y
  BY <1>7, <1>8
<1> QED BY <1>1, <1>2, <1>3, <1>9

\* The invariant holds of a card with any history, before the first command here.
LEMMA CardStarts == CardInit => CardIInv
<1> SUFFICES ASSUME CardInit PROVE CardIInv
  OBVIOUS
<1>1. /\ revisions \in Seq(Past) /\ Len(revisions) <= 3
      /\ \A r \in DOMAIN revisions :
           revisions[r].life = "trashed" => revisions[r].from \in {"proposed", "active"}
  BY HistoriesAssumption DEF CardInit
<1>2. Revision \in Nat /\ Revision <= 3 /\ MaxRevision \in Nat /\ 3 < MaxRevision
  BY <1>1, MaxCommandsAssumption DEF Revision, MaxRevision
<1>3. Forgetting \in 0 .. Revision /\ Forgetting \in 0 .. MaxRevision
  BY <1>1, <1>2, ForgettingIs
<1>4. Projected \in Texts /\ Tombstone \in Texts
  <2>1. Tombstone \in Texts
    BY DEF Texts
  <2>2. Revision > 0 => revisions[Revision] \in Past
    BY <1>1 DEF Revision
  <2> QED BY <2>1, <2>2, <1>2 DEF Projected, Past
<1>5. NoCommand \in Commands
  BY <1>2 DEF NoCommand, Commands, Lifecycles
<1>6. previews \subseteq 1 .. MaxRevision
  BY <1>3 DEF CardInit
<1>7. CardTypeOK
  <2>1. tombstone \in [revision: 0 .. MaxRevision,
                       purge: {"none", "previewed", "requested"},
                       preview: 0 .. MaxRevision]
    BY <1>2, <1>3 DEF CardInit
  <2>2. Len(revisions) <= MaxRevision
    BY <1>1, <1>2 DEF Revision
  <2> QED BY <1>1, <1>4, <1>5, <1>6, <2>1, <2>2 DEF CardInit, CardTypeOK
<1>8. RevisionsAreCommands
  BY <1>2, FS_EmptySet DEF CardInit, RevisionsAreCommands
<1>9. IssuedHasId /\ PurgeIsOfThisForgetting
  BY DEF CardInit, IssuedHasId, PurgeIsOfThisForgetting
<1>10. TrashedFrom
  BY <1>1 DEF TrashedFrom
<1>11. TombstoneIsOfHead
  BY <1>1, ForgettingIs DEF CardInit, TombstoneIsOfHead
<1>12. LoneWriter /\ LoneWritersFailClosed
  BY DEF CardInit, LoneWriter, LoneWritersFailClosed, Under
<1> QED BY <1>7, <1>8, <1>9, <1>10, <1>11, <1>12 DEF CardIInv

\* What says nothing of the files and of the writers is kept by a step that leaves
\* the database alone.
LEMMA DatabaseKeeps ==
  ASSUME CardIInv, UNCHANGED <<revisions, commandLog, tombstone>>
  PROVE  /\ RevisionsAreCommands' /\ TrashedFrom' /\ TombstoneIsOfHead'
         /\ PurgeIsOfThisForgetting' /\ Projected' = Projected
BY DEF CardIInv, RevisionsAreCommands, TrashedFrom, TombstoneIsOfHead, Life,
       Revision, PurgeIsOfThisForgetting, Projected

\* A step of a writer that nobody overlaps has only that writer to answer for.
LEMMA LoneKeeps ==
  ASSUME CardTypeOK, NEW w \in Writer, NEW how,
         stage' = [stage EXCEPT ![w] = how],
         ~overlapped' =>
           /\ Under \subseteq {w}
           /\ how = "marked" => dirty'
           /\ how \in {"marked", "refused"} /\ created'[w] => (snapshot = Projected)'
           /\ how = "read" => (copy[w] = Projected)'
           /\ how \in {"written", "verified"} => (snapshot = Projected)'
  PROVE  LoneWriter'
<1> SUFFICES ASSUME ~overlapped'
             PROVE  /\ \A v, u \in Under' : v = u
                    /\ \A v \in Writer :
                         /\ stage'[v] = "marked" => dirty'
                         /\ stage'[v] \in {"marked", "refused"} /\ created'[v]
                              => (snapshot = Projected)'
                         /\ stage'[v] = "read" => copy'[v] = Projected'
                         /\ stage'[v] \in {"written", "verified"} => (snapshot = Projected)'
  BY DEF LoneWriter
<1>1. stage'[w] = how /\ \A v \in Writer : v # w => stage'[v] \in {"idle", "lost"}
  BY DEF CardTypeOK, Under
<1>2. Under' \subseteq {w}
  BY <1>1 DEF Under
<1> QED BY <1>1, <1>2

\* A writer that is under way is the only one, as long as none overlaps it.
LEMMA OnlyOneUnder ==
  ASSUME LoneWriter, ~overlapped, NEW w \in Writer, stage[w] \notin {"idle", "lost"}
  PROVE  Under \subseteq {w}
BY DEF LoneWriter, Under

\* A new command: its marker is its own only where the snapshot was not covered.
LEMMA CommandIssueKeeps ==
  ASSUME CardIInv, NEW w \in Writer, Issue(w)
  PROVE  CardIInv'
<1>0. /\ CardTypeOK /\ LoneWriter /\ LoneWritersFailClosed /\ IssuedHasId
      /\ stage' = [stage EXCEPT ![w] = "marked"]
      /\ dirty' = TRUE /\ created' = [created EXCEPT ![w] = ~dirty]
      /\ overlapped' = (overlapped \/ Under # {})
      /\ UNCHANGED <<databaseVars, snapshot, copy>>
  BY DEF CardIInv, Issue, MarkDirty
<1>1. PICK c \in Commands : c.id \in CommandIds /\ command' = [command EXCEPT ![w] = c]
  BY <1>0, IssuedType
<1>2. CardTypeOK'
  BY <1>0, <1>1 DEF CardTypeOK, databaseVars
<1>3. /\ RevisionsAreCommands' /\ TrashedFrom' /\ TombstoneIsOfHead'
      /\ PurgeIsOfThisForgetting' /\ Projected' = Projected
  BY <1>0, DatabaseKeeps DEF databaseVars
<1>4. IssuedHasId'
  BY <1>0, <1>1 DEF IssuedHasId, CardTypeOK
<1>5. ~overlapped' /\ created'[w] => snapshot = Projected
  BY <1>0 DEF LoneWritersFailClosed, CardTypeOK
<1>6. LoneWriter'
  <2>1. ~overlapped' => Under \subseteq {w}
    BY <1>0
  <2> QED BY <1>0, <1>3, <1>5, <2>1, LoneKeeps
<1>7. LoneWritersFailClosed'
  BY <1>0 DEF LoneWritersFailClosed
<1> QED BY <1>2, <1>3, <1>4, <1>6, <1>7 DEF CardIInv

\* A command sent again has the id it had.
LEMMA RetryKeeps ==
  ASSUME CardIInv, NEW w \in Writer, Retry(w)
  PROVE  CardIInv'
<1>0. /\ CardTypeOK /\ LoneWriter /\ LoneWritersFailClosed /\ IssuedHasId
      /\ stage' = [stage EXCEPT ![w] = "marked"] /\ command[w] # NoCommand
      /\ dirty' = TRUE /\ created' = [created EXCEPT ![w] = ~dirty]
      /\ overlapped' = (overlapped \/ Under # {})
      /\ UNCHANGED <<databaseVars, snapshot, command, copy>>
  BY DEF CardIInv, Retry, MarkDirty
<1>2. CardTypeOK'
  BY <1>0 DEF CardTypeOK, databaseVars
<1>3. /\ RevisionsAreCommands' /\ TrashedFrom' /\ TombstoneIsOfHead'
      /\ PurgeIsOfThisForgetting' /\ Projected' = Projected
  BY <1>0, DatabaseKeeps DEF databaseVars
<1>4. IssuedHasId'
  BY <1>0 DEF IssuedHasId, CardTypeOK
<1>5. ~overlapped' /\ created'[w] => snapshot = Projected
  BY <1>0 DEF LoneWritersFailClosed, CardTypeOK
<1>6. LoneWriter'
  <2>1. ~overlapped' => Under \subseteq {w}
    BY <1>0
  <2> QED BY <1>0, <1>3, <1>5, <2>1, LoneKeeps
<1>7. LoneWritersFailClosed'
  BY <1>0 DEF LoneWritersFailClosed
<1> QED BY <1>2, <1>3, <1>4, <1>6, <1>7 DEF CardIInv

\* The transaction: the log and the revisions grow together, a forgetting starts
\* the tombstone again, and the marker stands meanwhile.
LEMMA CommitKeeps ==
  ASSUME CardIInv, NEW w \in Writer, Commit(w)
  PROVE  CardIInv'
<1> DEFINE c == command[w]
<1>0. /\ CardTypeOK /\ LoneWriter /\ LoneWritersFailClosed /\ IssuedHasId
      /\ RevisionsAreCommands /\ TrashedFrom /\ TombstoneIsOfHead
      /\ PurgeIsOfThisForgetting
      /\ stage[w] = "marked" /\ stage' = [stage EXCEPT ![w] = "committed"]
      /\ created' = [created EXCEPT ![w] = FALSE]
      /\ UNCHANGED <<fileVars, command, copy, overlapped>>
  BY DEF CardIInv, Commit
<1>1. IssuedHasId'
  BY <1>0 DEF IssuedHasId, CardTypeOK
<1>2. ~overlapped' => Under \subseteq {w}
  BY <1>0, OnlyOneUnder
<1>3. LoneWriter'
  <2>1. "committed" \notin {"marked", "refused", "read", "written", "verified"}
    OBVIOUS
  <2> QED BY <1>0, <1>2, <2>1, LoneKeeps
<1>4. LoneWritersFailClosed'
  BY <1>0 DEF LoneWriter, LoneWritersFailClosed, fileVars
<1>5. CASE UNCHANGED databaseVars
  <2>1. CardTypeOK'
    BY <1>0, <1>5 DEF CardTypeOK, databaseVars, fileVars
  <2>2. /\ RevisionsAreCommands' /\ TrashedFrom' /\ TombstoneIsOfHead'
        /\ PurgeIsOfThisForgetting'
    BY <1>5, DatabaseKeeps DEF databaseVars
  <2> QED BY <1>1, <1>3, <1>4, <2>1, <2>2 DEF CardIInv
<1>6. CASE /\ ~Replayed(w) /\ Allowed(c)
           /\ revisions' = Append(revisions, Result(c))
           /\ commandLog' = commandLog \cup {c.id}
           /\ tombstone' = IF c.type \in {"forget_active", "forget_trashed"}
                           THEN [revision |-> Revision + 1, purge |-> "none", preview |-> 0]
                           ELSE tombstone
           /\ UNCHANGED <<previewing, previews>>
  <2> DEFINE r == Result(c)
  <2>1. c \in Commands /\ c.id \in CommandIds
    BY <1>0 DEF CardTypeOK, IssuedHasId
  <2>2. /\ r \in Past
        /\ r.life = "trashed" => r.from \in {"proposed", "active"}
        /\ r.life = "forgotten" => c.type \in {"forget_active", "forget_trashed"}
    BY <1>0, <1>6, <2>1, ResultIs
  <2>3. c.id \notin commandLog
    BY <1>6 DEF Replayed
  <2> HIDE DEF c
  <2> HIDE DEF r
  <2>4. revisions \in Seq(Past) /\ Revision \in Nat
    BY <1>0 DEF CardTypeOK, Revision
  <2>5. /\ revisions' \in Seq(Past) /\ Revision' = Revision + 1
        /\ revisions'[Revision + 1] = r
        /\ \A i \in 1 .. Revision : revisions'[i] = revisions[i]
        /\ DOMAIN revisions = 1 .. Revision /\ DOMAIN revisions' = 1 .. Revision + 1
    BY <1>6, <2>2, <2>4 DEF Revision, r
  <2>6. /\ Cardinality(commandLog') = Cardinality(commandLog) + 1
        /\ Cardinality(commandLog') \in Nat /\ Cardinality(commandLog') <= MaxCommands
    <3>1. IsFiniteSet(commandLog) /\ commandLog' \subseteq CommandIds
      BY <1>0, <1>6, <2>1, LogIsBounded DEF CardTypeOK
    <3>2. Cardinality(commandLog') = Cardinality(commandLog) + 1
      BY <1>6, <2>3, <3>1, FS_AddElement
    <3>3. IsFiniteSet(CommandIds) /\ Cardinality(CommandIds) = MaxCommands
      BY FS_Interval, MaxCommandsAssumption DEF CommandIds
    <3>4. Cardinality(commandLog') \in Nat /\ Cardinality(commandLog') <= MaxCommands
      BY <3>1, <3>3, FS_Subset, FS_CardinalityType
    <3> QED BY <3>2, <3>4
  <2>7. RevisionsAreCommands' /\ Revision' <= MaxRevision
    <3>1. Cardinality(commandLog) \in Nat
      BY <1>0, LogIsBounded
    <3>2. Revision' <= Cardinality(commandLog') + 3
      BY <1>0, <2>4, <2>5, <2>6, <3>1 DEF RevisionsAreCommands
    <3>3. Revision' <= MaxCommands + 3
      BY <2>4, <2>5, <2>6, <3>2, MaxCommandsAssumption
    <3> QED BY <3>2, <3>3 DEF RevisionsAreCommands, MaxRevision
  <2>8. CardTypeOK'
    <3>1. tombstone' \in [revision: 0 .. MaxRevision,
                          purge: {"none", "previewed", "requested"},
                          preview: 0 .. MaxRevision]
      <4>1. Revision + 1 \in 0 .. MaxRevision /\ 0 \in 0 .. MaxRevision
        BY <2>4, <2>5, <2>7, MaxCommandsAssumption DEF MaxRevision
      <4> QED BY <1>0, <1>6, <4>1 DEF CardTypeOK
    <3>2. Len(revisions') <= MaxRevision
      BY <2>7 DEF Revision
    <3> QED BY <1>0, <1>6, <2>1, <2>5, <3>1, <3>2 DEF CardTypeOK, fileVars
  <2>9. TrashedFrom'
    <3> SUFFICES ASSUME NEW i \in 1 .. Revision + 1, revisions'[i].life = "trashed"
                 PROVE  revisions'[i].from \in {"proposed", "active"}
      BY <2>5 DEF TrashedFrom
    <3>1. CASE i = Revision + 1
      BY <2>2, <2>5, <3>1
    <3>2. CASE i \in 1 .. Revision
      BY <1>0, <2>5, <3>2 DEF TrashedFrom
    <3> QED BY <2>4, <3>1, <3>2
  <2>10. TombstoneIsOfHead'
    <3> SUFFICES ASSUME Life' = "forgotten" PROVE tombstone'.revision = Revision'
      BY DEF TombstoneIsOfHead
    <3>1. r.life = "forgotten"
      BY <2>5 DEF Life
    <3> QED BY <1>6, <2>2, <2>5, <3>1
  <2>11. PurgeIsOfThisForgetting'
    BY <1>0, <1>6 DEF PurgeIsOfThisForgetting
  <2> QED BY <1>1, <1>3, <1>4, <2>7, <2>8, <2>9, <2>10, <2>11 DEF CardIInv
<1> QED BY <1>5, <1>6 DEF Commit

\* The text the snapshot ought to show is a text, and so is the empty one.
LEMMA ProjectedTyped == CardTypeOK => Projected \in Texts
<1> SUFFICES ASSUME CardTypeOK PROVE Projected \in Texts
  OBVIOUS
<1>1. Revision \in Nat /\ (Revision > 0 => revisions[Revision] \in Past)
  BY DEF CardTypeOK, Revision
<1> QED BY <1>1 DEF Projected, Past, Texts

\* The command of a writer that has none is of the type.
LEMMA NoCommandTyped == NoCommand \in Commands /\ Tombstone \in Texts
<1>1. 0 \in 0 .. MaxRevision
  BY MaxCommandsAssumption DEF MaxRevision
<1> QED BY <1>1 DEF NoCommand, Commands, Lifecycles, Texts

\* A refused command leaves its marker for the next step.
LEMMA RefuseKeeps ==
  ASSUME CardIInv, NEW w \in Writer, Refuse(w)
  PROVE  CardIInv'
<1>0. /\ CardTypeOK /\ LoneWriter /\ LoneWritersFailClosed /\ IssuedHasId
      /\ stage[w] = "marked" /\ stage' = [stage EXCEPT ![w] = "refused"]
      /\ UNCHANGED <<databaseVars, fileVars, command, created, copy, overlapped>>
  BY DEF CardIInv, Refuse, Advance, Finish
<1>1. /\ RevisionsAreCommands' /\ TrashedFrom' /\ TombstoneIsOfHead'
      /\ PurgeIsOfThisForgetting' /\ Projected' = Projected
  BY <1>0, DatabaseKeeps DEF databaseVars
<1>2. CardTypeOK'
  BY <1>0 DEF CardTypeOK, databaseVars, fileVars
<1>3. IssuedHasId'
  BY <1>0 DEF IssuedHasId, CardTypeOK
<1>4. ~overlapped' => Under \subseteq {w}
  BY <1>0, OnlyOneUnder
<1>5. LoneWriter'
  <2>1. ~overlapped' /\ created'[w] => snapshot' = Projected'
    BY <1>0, <1>1 DEF LoneWriter, fileVars
  <2> QED BY <1>0, <1>4, <2>1, LoneKeeps
<1>6. LoneWritersFailClosed'
  BY <1>0, <1>1 DEF LoneWriter, LoneWritersFailClosed, fileVars
<1> QED BY <1>1, <1>2, <1>3, <1>5, <1>6 DEF CardIInv

\* The marker a refused command removes covered a snapshot that is right.
LEMMA WithdrawKeeps ==
  ASSUME CardIInv, NEW w \in Writer, Withdraw(w)
  PROVE  CardIInv'
<1>0. /\ CardTypeOK /\ LoneWriter /\ LoneWritersFailClosed /\ IssuedHasId
      /\ stage[w] = "refused" /\ stage' = [stage EXCEPT ![w] = "idle"]
      /\ dirty' = (dirty /\ ~created[w])
      /\ command' = [command EXCEPT ![w] = NoCommand]
      /\ created' = [created EXCEPT ![w] = FALSE] /\ copy' = [copy EXCEPT ![w] = Tombstone]
      /\ UNCHANGED <<databaseVars, snapshot, overlapped>>
  BY DEF CardIInv, Withdraw, Advance, Finish
<1>1. /\ RevisionsAreCommands' /\ TrashedFrom' /\ TombstoneIsOfHead'
      /\ PurgeIsOfThisForgetting' /\ Projected' = Projected
  BY <1>0, DatabaseKeeps DEF databaseVars
<1>2. CardTypeOK'
  <2>1. NoCommand \in Commands /\ Tombstone \in Texts
    BY NoCommandTyped
  <2> QED BY <1>0, <2>1 DEF CardTypeOK, databaseVars
<1>3. IssuedHasId'
  BY <1>0 DEF IssuedHasId, CardTypeOK
<1>4. ~overlapped' => Under \subseteq {w}
  BY <1>0, OnlyOneUnder
<1>5. LoneWriter'
  <2>1. "idle" \notin {"marked", "refused", "read", "written", "verified"}
    OBVIOUS
  <2> QED BY <1>0, <1>4, <2>1, LoneKeeps
<1>6. LoneWritersFailClosed'
  BY <1>0, <1>1 DEF LoneWriter, LoneWritersFailClosed
<1> QED BY <1>1, <1>2, <1>3, <1>5, <1>6 DEF CardIInv

\* The card is read as it is.
LEMMA ReadSnapshotKeeps ==
  ASSUME CardIInv, NEW w \in Writer, ReadSnapshot(w)
  PROVE  CardIInv'
<1>0. /\ CardTypeOK /\ LoneWriter /\ LoneWritersFailClosed /\ IssuedHasId
      /\ stage[w] = "committed" /\ stage' = [stage EXCEPT ![w] = "read"]
      /\ copy' = [copy EXCEPT ![w] = Projected]
      /\ UNCHANGED <<databaseVars, fileVars, command, created, overlapped>>
  BY DEF CardIInv, ReadSnapshot, Advance, Finish
<1>1. /\ RevisionsAreCommands' /\ TrashedFrom' /\ TombstoneIsOfHead'
      /\ PurgeIsOfThisForgetting' /\ Projected' = Projected
  BY <1>0, DatabaseKeeps DEF databaseVars
<1>2. CardTypeOK'
  <2>1. Projected \in Texts
    BY <1>0, ProjectedTyped
  <2> QED BY <1>0, <2>1 DEF CardTypeOK, databaseVars, fileVars
<1>3. IssuedHasId'
  BY <1>0 DEF IssuedHasId, CardTypeOK
<1>4. ~overlapped' => Under \subseteq {w}
  BY <1>0, OnlyOneUnder
<1>5. LoneWriter'
  <2>1. copy'[w] = Projected'
    BY <1>0, <1>1 DEF CardTypeOK
  <2> QED BY <1>0, <1>4, <2>1, LoneKeeps
<1>6. LoneWritersFailClosed'
  BY <1>0, <1>1 DEF LoneWriter, LoneWritersFailClosed, fileVars
<1> QED BY <1>1, <1>2, <1>3, <1>5, <1>6 DEF CardIInv

\* The file takes the text that was read.
LEMMA WriteSnapshotKeeps ==
  ASSUME CardIInv, NEW w \in Writer, WriteSnapshot(w)
  PROVE  CardIInv'
<1>0. /\ CardTypeOK /\ LoneWriter /\ LoneWritersFailClosed /\ IssuedHasId
      /\ stage[w] = "read" /\ stage' = [stage EXCEPT ![w] = "written"]
      /\ snapshot' = copy[w]
      /\ UNCHANGED <<databaseVars, dirty, command, created, copy, overlapped>>
  BY DEF CardIInv, WriteSnapshot, Advance, Finish
<1>1. /\ RevisionsAreCommands' /\ TrashedFrom' /\ TombstoneIsOfHead'
      /\ PurgeIsOfThisForgetting' /\ Projected' = Projected
  BY <1>0, DatabaseKeeps DEF databaseVars
<1>2. CardTypeOK'
  BY <1>0 DEF CardTypeOK, databaseVars, fileVars
<1>3. IssuedHasId'
  BY <1>0 DEF IssuedHasId, CardTypeOK
<1>4. ~overlapped' => Under \subseteq {w}
  BY <1>0, OnlyOneUnder
<1>5. LoneWriter'
  <2>1. ~overlapped' => snapshot' = Projected'
    BY <1>0, <1>1 DEF LoneWriter
  <2> QED BY <1>0, <1>4, <2>1, LoneKeeps
<1>6. LoneWritersFailClosed'
  BY <1>0, <1>1 DEF LoneWriter, LoneWritersFailClosed
<1> QED BY <1>1, <1>2, <1>3, <1>5, <1>6 DEF CardIInv

\* The marker goes when the file is right.
LEMMA ClearMarkerKeeps ==
  ASSUME CardIInv, NEW w \in Writer, ClearMarker(w)
  PROVE  CardIInv'
<1>0. /\ CardTypeOK /\ LoneWriter /\ LoneWritersFailClosed /\ IssuedHasId
      /\ stage[w] = "verified" /\ stage' = [stage EXCEPT ![w] = "idle"]
      /\ dirty' = FALSE
      /\ command' = [command EXCEPT ![w] = NoCommand]
      /\ created' = [created EXCEPT ![w] = FALSE] /\ copy' = [copy EXCEPT ![w] = Tombstone]
      /\ UNCHANGED <<databaseVars, snapshot, overlapped>>
  BY DEF CardIInv, ClearMarker, Advance, Finish
<1>1. /\ RevisionsAreCommands' /\ TrashedFrom' /\ TombstoneIsOfHead'
      /\ PurgeIsOfThisForgetting' /\ Projected' = Projected
  BY <1>0, DatabaseKeeps DEF databaseVars
<1>2. CardTypeOK'
  <2>1. NoCommand \in Commands /\ Tombstone \in Texts
    BY NoCommandTyped
  <2> QED BY <1>0, <2>1 DEF CardTypeOK, databaseVars
<1>3. IssuedHasId'
  BY <1>0 DEF IssuedHasId, CardTypeOK
<1>4. ~overlapped' => Under \subseteq {w}
  BY <1>0, OnlyOneUnder
<1>5. LoneWriter'
  <2>1. "idle" \notin {"marked", "refused", "read", "written", "verified"}
    OBVIOUS
  <2> QED BY <1>0, <1>4, <2>1, LoneKeeps
<1>6. LoneWritersFailClosed'
  BY <1>0, <1>1 DEF LoneWriter, LoneWritersFailClosed
<1> QED BY <1>1, <1>2, <1>3, <1>5, <1>6 DEF CardIInv

\* A writer that dies leaves the files as they are.
LEMMA LoseKeeps ==
  ASSUME CardIInv, NEW w \in Writer, Lose(w)
  PROVE  CardIInv'
<1>0. /\ CardTypeOK /\ LoneWriter /\ LoneWritersFailClosed /\ IssuedHasId
      /\ stage[w] \notin {"idle", "lost"} /\ stage' = [stage EXCEPT ![w] = "lost"]
      /\ command' = command
      /\ created' = [created EXCEPT ![w] = FALSE] /\ copy' = [copy EXCEPT ![w] = Tombstone]
      /\ UNCHANGED <<databaseVars, fileVars, overlapped>>
  BY DEF CardIInv, Lose, Advance, Finish
<1>1. /\ RevisionsAreCommands' /\ TrashedFrom' /\ TombstoneIsOfHead'
      /\ PurgeIsOfThisForgetting' /\ Projected' = Projected
  BY <1>0, DatabaseKeeps DEF databaseVars
<1>2. CardTypeOK'
  <2>1. Tombstone \in Texts
    BY NoCommandTyped
  <2> QED BY <1>0, <2>1 DEF CardTypeOK, databaseVars, fileVars
<1>3. IssuedHasId'
  BY <1>0 DEF IssuedHasId, CardTypeOK
<1>4. ~overlapped' => Under \subseteq {w}
  BY <1>0, OnlyOneUnder
<1>5. LoneWriter'
  <2>1. "lost" \notin {"marked", "refused", "read", "written", "verified"}
    OBVIOUS
  <2> QED BY <1>0, <1>4, <2>1, LoneKeeps
<1>6. LoneWritersFailClosed'
  BY <1>0, <1>1 DEF LoneWriter, LoneWritersFailClosed, fileVars
<1> QED BY <1>1, <1>2, <1>3, <1>5, <1>6 DEF CardIInv

\* A publication of its own begins like one after a commit.
LEMMA PublishKeeps ==
  ASSUME CardIInv, NEW w \in Writer, Publish(w)
  PROVE  CardIInv'
<1>0. /\ CardTypeOK /\ LoneWritersFailClosed /\ IssuedHasId
      /\ stage' = [stage EXCEPT ![w] = "committed"]
      /\ overlapped' = (overlapped \/ Under # {})
      /\ UNCHANGED <<databaseVars, fileVars, command, created, copy>>
  BY DEF CardIInv, Publish
<1>1. /\ RevisionsAreCommands' /\ TrashedFrom' /\ TombstoneIsOfHead'
      /\ PurgeIsOfThisForgetting' /\ Projected' = Projected
  BY <1>0, DatabaseKeeps DEF databaseVars
<1>2. CardTypeOK'
  BY <1>0 DEF CardTypeOK, databaseVars, fileVars
<1>3. IssuedHasId'
  BY <1>0 DEF IssuedHasId, CardTypeOK
<1>4. LoneWriter'
  <2>1. ~overlapped' => Under \subseteq {w}
    BY <1>0
  <2>2. "committed" \notin {"marked", "refused", "read", "written", "verified"}
    OBVIOUS
  <2> QED BY <1>0, <2>1, <2>2, LoneKeeps
<1>5. LoneWritersFailClosed'
  BY <1>0, <1>1 DEF LoneWritersFailClosed, fileVars
<1> QED BY <1>1, <1>2, <1>3, <1>4, <1>5 DEF CardIInv

\* A snapshot that reads back as it was written is verified; another writer's
\* fails the publication.
LEMMA VerifySnapshotKeeps ==
  ASSUME CardIInv, NEW w \in Writer, VerifySnapshot(w)
  PROVE  CardIInv'
<1>0. /\ CardTypeOK /\ LoneWriter /\ LoneWritersFailClosed /\ IssuedHasId
      /\ stage[w] = "written"
      /\ created' = [created EXCEPT ![w] = FALSE]
      /\ copy' = [copy EXCEPT ![w] = Tombstone]
      /\ UNCHANGED <<databaseVars, fileVars, overlapped>>
  BY DEF CardIInv, VerifySnapshot, Finish
<1>a. \/ stage' = [stage EXCEPT ![w] = "verified"] /\ command' = command
      \/ /\ stage' = [stage EXCEPT ![w] = "idle"]
         /\ command' = [command EXCEPT ![w] = NoCommand]
  BY DEF VerifySnapshot, Finish
<1>1. /\ RevisionsAreCommands' /\ TrashedFrom' /\ TombstoneIsOfHead'
      /\ PurgeIsOfThisForgetting' /\ Projected' = Projected
  BY <1>0, DatabaseKeeps DEF databaseVars
<1>2. CardTypeOK'
  <2>1. NoCommand \in Commands /\ Tombstone \in Texts
    BY NoCommandTyped
  <2> QED BY <1>0, <1>a, <2>1 DEF CardTypeOK, databaseVars, fileVars
<1>3. IssuedHasId'
  BY <1>0, <1>a DEF IssuedHasId, CardTypeOK
<1>4. ~overlapped' => Under \subseteq {w} /\ snapshot' = Projected'
  BY <1>0, <1>1, OnlyOneUnder DEF LoneWriter, fileVars
<1>5. LoneWriter'
  <2>1. "idle" \notin {"marked", "refused", "read", "written", "verified"}
        /\ "verified" \notin {"marked", "refused", "read"}
    OBVIOUS
  <2>2. CASE stage' = [stage EXCEPT ![w] = "verified"]
    BY <1>0, <1>4, <2>1, <2>2, LoneKeeps
  <2>3. CASE stage' = [stage EXCEPT ![w] = "idle"]
    BY <1>0, <1>4, <2>1, <2>3, LoneKeeps
  <2> QED BY <1>a, <2>2, <2>3
<1>6. LoneWritersFailClosed'
  BY <1>0, <1>1 DEF LoneWritersFailClosed, fileVars
<1> QED BY <1>1, <1>2, <1>3, <1>5, <1>6 DEF CardIInv

\* What a step of the browser leaves alone keeps what is said of the writers.
LEMMA BrowserKeeps ==
  ASSUME CardIInv, UNCHANGED browserRest
  PROVE  /\ IssuedHasId' /\ LoneWriter' /\ LoneWritersFailClosed'
         /\ RevisionsAreCommands' /\ TrashedFrom'
<1>0. /\ CardTypeOK /\ LoneWriter /\ LoneWritersFailClosed /\ IssuedHasId
      /\ RevisionsAreCommands /\ TrashedFrom
      /\ UNCHANGED <<revisions, commandLog, snapshot, dirty, stage, command, created,
                     copy, overlapped>>
  BY DEF CardIInv, browserRest, fileVars
<1>1. Projected' = Projected /\ Revision' = Revision
  BY <1>0 DEF Projected, Life, Revision
<1>2. Under' = Under
  BY <1>0 DEF Under
<1> QED BY <1>0, <1>1, <1>2 DEF IssuedHasId, LoneWriter, LoneWritersFailClosed,
                                RevisionsAreCommands, TrashedFrom

\* A preview is of a revision; recording it, late or not, takes back a request.
LEMMA PreviewKeeps ==
  ASSUME CardIInv, ReadPreview \/ \E r \in 1 .. MaxRevision : RecordPreview(r)
  PROVE  CardIInv'
<1>1. CASE ReadPreview
  <2>0. CardTypeOK /\ UNCHANGED <<browserRest, tombstone, previews>>
    BY <1>1 DEF CardIInv, ReadPreview
  <2>1. Revision \in 1 .. MaxRevision /\ previewing' = previewing \cup {Revision}
    BY <1>1, <2>0 DEF ReadPreview, CardTypeOK, Revision
  <2>2. CardTypeOK'
    BY <2>0, <2>1 DEF CardTypeOK, browserRest, fileVars
  <2>3. TombstoneIsOfHead' /\ PurgeIsOfThisForgetting'
    BY <2>0, DatabaseKeeps DEF browserRest
  <2> QED BY <2>0, <2>2, <2>3, BrowserKeeps DEF CardIInv
<1>2. ASSUME NEW r \in 1 .. MaxRevision, RecordPreview(r) PROVE CardIInv'
  <2>0. /\ CardTypeOK /\ TombstoneIsOfHead /\ UNCHANGED browserRest
        /\ previewing' = previewing \ {r} /\ previews' = previews \cup {r}
        /\ tombstone' = [tombstone EXCEPT !.purge = "previewed", !.preview = r]
    BY <1>2 DEF CardIInv, RecordPreview
  <2>1. r \in 0 .. MaxRevision
    BY MaxCommandsAssumption DEF MaxRevision
  <2>2. CardTypeOK'
    BY <2>0, <2>1 DEF CardTypeOK, browserRest, fileVars
  <2>3. tombstone'.revision = tombstone.revision /\ tombstone'.purge = "previewed"
    BY <2>0 DEF CardTypeOK
  <2>4. TombstoneIsOfHead' /\ PurgeIsOfThisForgetting'
    BY <2>0, <2>3 DEF TombstoneIsOfHead, PurgeIsOfThisForgetting, browserRest, Life, Revision
  <2> QED BY <2>0, <2>2, <2>4, BrowserKeeps DEF CardIInv
<1> QED BY <1>1, <1>2

\* A request is of a preview that stands: of the last revision, which forgot the
\* card, as the tombstone is.
LEMMA RequestPurgeKeeps ==
  ASSUME CardIInv, NEW r \in 1 .. MaxRevision, RequestPurge(r)
  PROVE  CardIInv'
<1>0. /\ CardTypeOK /\ TombstoneIsOfHead /\ UNCHANGED browserRest
      /\ r = Revision /\ Life = "forgotten"
      /\ previews' = previews \ {r} /\ UNCHANGED previewing
      /\ tombstone' = [tombstone EXCEPT !.purge = "requested", !.preview = r]
  BY DEF CardIInv, RequestPurge, PreviewStands
<1>1. r \in 0 .. MaxRevision /\ r > 0
  BY MaxCommandsAssumption DEF MaxRevision
<1>2. CardTypeOK'
  BY <1>0, <1>1 DEF CardTypeOK, browserRest, fileVars
<1>3. tombstone.revision = r
  BY <1>0, <1>1 DEF TombstoneIsOfHead
<1>4. /\ tombstone'.revision = r /\ tombstone'.preview = r
      /\ Revision' = Revision
  BY <1>0, <1>3 DEF CardTypeOK, browserRest, Revision
<1>5. TombstoneIsOfHead' /\ PurgeIsOfThisForgetting'
  BY <1>0, <1>4 DEF TombstoneIsOfHead, PurgeIsOfThisForgetting
<1> QED BY <1>0, <1>2, <1>5, BrowserKeeps DEF CardIInv

\* The invariant of the memory cards.
THEOREM CardInvariance == CardSpec => []CardIInv
<1>1. CardIInv /\ [CardNext]_cardVars => CardIInv'
  <2> SUFFICES ASSUME CardIInv, [CardNext]_cardVars PROVE CardIInv'
    OBVIOUS
  <2>1. ASSUME NEW w \in Writer,
               \/ Issue(w) \/ Retry(w) \/ Commit(w) \/ Refuse(w) \/ Withdraw(w)
               \/ Publish(w) \/ ReadSnapshot(w) \/ WriteSnapshot(w)
               \/ VerifySnapshot(w) \/ ClearMarker(w) \/ Lose(w)
        PROVE  CardIInv'
    BY <2>1, CommandIssueKeeps, RetryKeeps, CommitKeeps, RefuseKeeps, WithdrawKeeps,
       PublishKeeps, ReadSnapshotKeeps, WriteSnapshotKeeps, VerifySnapshotKeeps,
       ClearMarkerKeeps, LoseKeeps
  <2>2. CASE ReadPreview
    BY <2>2, PreviewKeeps
  <2>3. ASSUME NEW r \in 1 .. MaxRevision, RecordPreview(r) \/ RequestPurge(r)
        PROVE  CardIInv'
    BY <2>3, PreviewKeeps, RequestPurgeKeeps
  <2>4. CASE UNCHANGED cardVars
    <3>1. UNCHANGED browserRest /\ UNCHANGED <<tombstone, previewing, previews>>
      BY <2>4 DEF cardVars, browserRest, fileVars
    <3>2. CardTypeOK'
      BY <3>1 DEF CardIInv, CardTypeOK, browserRest, fileVars
    <3>3. TombstoneIsOfHead' /\ PurgeIsOfThisForgetting'
      BY <3>1, DatabaseKeeps DEF browserRest
    <3> QED BY <3>1, <3>2, <3>3, BrowserKeeps DEF CardIInv
  <2> QED BY <2>1, <2>2, <2>3, <2>4 DEF CardNext
<1> QED BY <1>1, CardStarts, PTL DEF CardSpec

\* What a card, its log and the files are made of, for any number of writers,
\* commands and histories.
THEOREM CardTypeCorrect == CardSpec => []CardTypeOK
<1>1. CardIInv => CardTypeOK
  BY DEF CardIInv
<1> QED BY <1>1, CardInvariance, PTL

\* Without the marker the snapshot shows what the card says, as long as no two
\* writers have been under way together: across refused and repeated commands,
\* failed publications and the deaths of writers.
THEOREM SnapshotFailsClosed == CardSpec => []LoneWritersFailClosed
<1>1. CardIInv => LoneWritersFailClosed
  BY DEF CardIInv
<1> QED BY <1>1, CardInvariance, PTL

\* A purge request is of the forgetting the tombstone names, however late its
\* preview was recorded.
THEOREM PurgeIsOfTheHead == CardSpec => []PurgeIsOfThisForgetting
<1>1. CardIInv => PurgeIsOfThisForgetting
  BY DEF CardIInv
<1> QED BY <1>1, CardInvariance, PTL

----------------------------------------------------------------------------
(* Task cards: the periods before a card is put away.                      *)

\* Periods that would pass the cutoff are an installation's from before.
PeriodsFit == settings.periods \notin Periods => settings.revision <= 2

\* Nobody has read a date that is still to come.
ReadingsArePast == \A v \in Viewer : views[v] # NotLooking => views[v].now <= day

\* A card counts from the day it was last restored.
CountsFromRestore ==
  restoredOn # Never => card.state # "none" /\ card.from = restoredOn

\* Only a card that is put away for good has evidence, of its own completion.
EvidenceIsOfTheCard ==
  /\ evidence # NoEvidence => card.state = "evidence_only"
  /\ card.state = "evidence_only" => evidence.revision = card.revision

RetentionIInv ==
  /\ RetentionTypeOK /\ PeriodsFit /\ ReadingsArePast
  /\ CountsFromRestore /\ EvidenceIsOfTheCard

\* The settings a caller reads fit the cutoff, and no read makes more than one
\* version of them.
LEMMA SettingsAreCurrent ==
  ASSUME RetentionTypeOK, PeriodsFit
  PROVE  /\ CurrentSettings.periods \in Periods
         /\ CurrentSettings.revision \in 1 .. MaxSettings + 1
         /\ CurrentSettings.revision >= settings.revision
<1>0. /\ CompletedDays \in Nat \ {0} /\ TrashDays \in Nat \ {0} /\ EvidenceDays \in Nat \ {0}
      /\ CompletedDays + TrashDays <= EvidenceDays
      /\ OldSettings \in [completed : Nat \ {0}, trash : Nat \ {0}]
      /\ MaxSettings \in Nat /\ MaxSettings >= 2
  BY RetentionAssumption
<1>1. Default \in Periods
  BY <1>0 DEF Default, Periods
<1>2. settings.periods \in Periods \cup {OldSettings} /\ settings.revision \in 1 .. MaxSettings + 1
  BY DEF RetentionTypeOK
<1>3. CASE CurrentSettings = With(Default, settings.revision + 1)
           /\ (settings = With(OldSettings, 1) \/ settings.periods \notin Periods)
  <2>1. settings.revision <= 2
    BY <1>3, <1>2, <1>0 DEF PeriodsFit, With
  <2>2. /\ CurrentSettings.periods = Default
        /\ CurrentSettings.revision = settings.revision + 1
    BY <1>3 DEF With
  <2> QED BY <1>0, <1>1, <1>2, <2>1, <2>2
<1>4. CASE /\ CurrentSettings = settings
           /\ ~(settings.periods.completed + settings.periods.trash > EvidenceDays)
  <2>1. settings.periods \in Periods
    <3>1. CASE settings.periods = OldSettings
      <4>1. /\ OldSettings.completed \in Nat \ {0} /\ OldSettings.trash \in Nat \ {0}
            /\ OldSettings = [completed |-> OldSettings.completed, trash |-> OldSettings.trash]
        BY <1>0
      <4>2. OldSettings.completed + OldSettings.trash <= EvidenceDays
        BY <1>4, <3>1, <4>1, <1>0
      <4>3. OldSettings.completed \in 1 .. EvidenceDays /\ OldSettings.trash \in 1 .. EvidenceDays
        BY <4>1, <4>2, <1>0
      <4> QED BY <3>1, <4>1, <4>2, <4>3 DEF Periods
    <3> QED BY <1>2, <3>1
  <2> QED BY <1>2, <1>4, <2>1
<1>5. settings.periods \in Periods => 
        ~(settings.periods.completed + settings.periods.trash > EvidenceDays)
  BY <1>0 DEF Periods
<1> QED BY <1>3, <1>4, <1>5 DEF CurrentSettings

\* A card leaves the list only when its first period is over.
LEMMA TargetIsLate ==
  ASSUME RetentionTypeOK, PeriodsFit, NEW from \in Nat, NEW now \in Nat,
         TargetState(from, now) # "visible"
  PROVE  now >= from + CurrentSettings.periods.completed
<1>1. /\ CurrentSettings.periods.completed \in 1 .. EvidenceDays
      /\ EvidenceDays \in Nat
  BY SettingsAreCurrent, RetentionAssumption DEF Periods
<1>2. CASE now >= from + EvidenceDays
  BY <1>1, <1>2
<1>3. CASE ~(now >= from + EvidenceDays)
  <2>1. now < from + EvidenceDays
    BY <1>1, <1>3
  <2> DEFINE p == CurrentSettings.periods
  <2>2. TargetState(from, now) =
          CASE now < from + EvidenceDays /\ now >= from + p.completed + p.trash -> "sealed"
            [] now < from + p.completed -> "visible"
            [] OTHER -> "trashed"
    BY <1>3 DEF TargetState
  <2>3. p.trash \in Nat
    BY SettingsAreCurrent, RetentionAssumption DEF Periods
  <2>4. CASE now < from + p.completed
    <3>1. ~(now >= from + p.completed + p.trash)
      BY <1>1, <2>3, <2>4
    <3> QED BY <2>2, <2>4, <3>1
  <2> QED BY <1>1, <2>4
<1> QED BY <1>2, <1>3

\* The state of a card a sweep finds is one of the four.
LEMMA TargetTyped ==
  ASSUME NEW from, NEW now
  PROVE  TargetState(from, now) \in States
BY DEF TargetState, States

\* The bounds are numbers.
LEMMA DaysAreNumbers ==
  /\ LastDay \in Nat /\ Never \in Nat /\ Never = LastDay + 1
  /\ MaxTaskRevision \in Nat /\ MaxTaskRevision >= 1
BY RetentionAssumption DEF Never

\* The invariant holds before anybody looked.
LEMMA RetentionStarts == RetentionInit => RetentionIInv
<1> SUFFICES ASSUME RetentionInit PROVE RetentionIInv
  OBVIOUS
<1>1. PICK p \in {Default, OldSettings}, r \in 1 .. 2 : settings = With(p, r)
  BY DEF RetentionInit
<1>2. Default \in Periods
  BY RetentionAssumption DEF Default, Periods
<1>3. settings.periods \in Periods \cup {OldSettings} /\ settings.revision \in 1 .. MaxSettings + 1
  BY <1>1, <1>2, RetentionAssumption DEF With
<1>4. PeriodsFit
  BY <1>1 DEF PeriodsFit, With
<1>5. RetentionTypeOK
  <2>1. head \in Heads
    BY DaysAreNumbers DEF RetentionInit, Heads
  <2>2. views \in [Viewer -> [head : Heads, now : 0 .. LastDay] \cup {NotLooking}]
    BY DEF RetentionInit
  <2>3. /\ card \in [state : States \cup {"none"}, revision : 0 .. MaxTaskRevision,
                     from : 0 .. Never]
        /\ evidence \in [revision : 0 .. MaxTaskRevision, at : 0 .. Never]
        /\ restoredOn \in 0 .. Never /\ day \in 0 .. LastDay
    BY DaysAreNumbers DEF RetentionInit, NoCardRow, NoEvidence
  <2> QED BY <1>3, <2>1, <2>2, <2>3 DEF RetentionTypeOK
<1>6. ReadingsArePast /\ CountsFromRestore /\ EvidenceIsOfTheCard
  BY DEF RetentionInit, ReadingsArePast, CountsFromRestore, EvidenceIsOfTheCard, NoCardRow
<1> QED BY <1>4, <1>5, <1>6 DEF RetentionIInv

\* What a viewer reads is a head of the task, on or before today.
LEMMA ReadingIs ==
  ASSUME RetentionIInv, NEW v \in Viewer, views[v] # NotLooking
  PROVE  views[v].head \in Heads /\ views[v].now \in 0 .. LastDay /\ views[v].now <= day
BY DEF RetentionIInv, RetentionTypeOK, ReadingsArePast

\* A sweep: an unfinished, undated or other task's card is left alone, and any
\* other only moves on.
LEMMA SweepIs ==
  ASSUME RetentionIInv, NEW v \in Viewer, SweepTaskRetention(v)
  PROVE  /\ settings' = CurrentSettings
         /\ \/ UNCHANGED <<card, evidence>>
            \/ /\ card.state = "none" \/ card.revision = views[v].head.revision
               /\ UNCHANGED card
               /\ card.state = "evidence_only"
               /\ evidence' = Ensured(views[v].head, CountedFrom(views[v].head))
            \/ LET h == views[v].head
                   from == CountedFrom(h)
                   target == TargetState(from, views[v].now)
               IN /\ card.state = "none" \/ card.revision = h.revision
                  /\ card.state = "none" \/ Order[target] > Order[card.state]
                  /\ card' = [state |-> target, revision |-> h.revision, from |-> from]
                  /\ evidence' = IF target = "evidence_only" THEN Ensured(h, from)
                                 ELSE evidence
BY DEF SweepTaskRetention

\* A sweep keeps the invariant: what it puts away for good gets its evidence.
LEMMA SweepKeeps ==
  ASSUME RetentionIInv, NEW v \in Viewer, SweepTaskRetention(v)
  PROVE  RetentionIInv'
<1> DEFINE h == views[v].head
           from == CountedFrom(h)
           target == TargetState(from, views[v].now)
<1>0. /\ RetentionTypeOK /\ PeriodsFit /\ ReadingsArePast
      /\ CountsFromRestore /\ EvidenceIsOfTheCard
      /\ views[v] # NotLooking /\ views' = [views EXCEPT ![v] = NotLooking]
      /\ settings' = CurrentSettings /\ UNCHANGED <<day, head, restoredOn>>
  BY DEF RetentionIInv, SweepTaskRetention
<1>1. /\ settings'.periods \in Periods /\ settings'.revision \in 1 .. MaxSettings + 1
      /\ PeriodsFit' /\ ReadingsArePast'
  BY <1>0, SettingsAreCurrent DEF PeriodsFit, ReadingsArePast, RetentionTypeOK
<1>2. /\ h.revision \in 1 .. MaxTaskRevision /\ h.at \in 0 .. Never
      /\ card.revision \in 0 .. MaxTaskRevision /\ card.from \in 0 .. Never
      /\ card.state \in States \cup {"none"}
  BY <1>0, ReadingIs DEF RetentionTypeOK, Heads
<1>3. from \in 0 .. Never /\ target \in States
  BY <1>2, TargetTyped DEF CountedFrom, CompletedOn
<1>4. MaxTaskRevision \in Nat /\ h.revision \in 0 .. MaxTaskRevision
  BY <1>2, DaysAreNumbers
<1>5. Ensured(h, from) \in [revision : 0 .. MaxTaskRevision, at : 0 .. Never]
  BY <1>0, <1>3, <1>4 DEF Ensured, RetentionTypeOK
<1>6. card.state # "none" => from = card.from
  BY DEF CountedFrom
<1>7. evidence = NoEvidence \/ card.state = "evidence_only"
  BY <1>0 DEF EvidenceIsOfTheCard
<1>8. /\ card' \in [state : States \cup {"none"}, revision : 0 .. MaxTaskRevision,
                    from : 0 .. Never]
      /\ evidence' \in [revision : 0 .. MaxTaskRevision, at : 0 .. Never]
      /\ CountsFromRestore' /\ EvidenceIsOfTheCard'
  <2>1. CASE UNCHANGED <<card, evidence>>
    BY <1>0, <2>1 DEF RetentionTypeOK, CountsFromRestore, EvidenceIsOfTheCard
  <2>2. CASE /\ UNCHANGED card
             /\ card.state = "evidence_only" /\ card.revision = h.revision
             /\ evidence' = Ensured(h, from)
    <3>1. evidence'.revision = card.revision
      BY <1>0, <2>2 DEF Ensured, EvidenceIsOfTheCard
    <3>2. CountsFromRestore' /\ EvidenceIsOfTheCard'
      BY <1>0, <2>2, <3>1 DEF CountsFromRestore, EvidenceIsOfTheCard
    <3> QED BY <1>0, <1>5, <2>2, <3>2 DEF RetentionTypeOK
  <2>3. CASE /\ card.state = "none" \/ card.revision = h.revision
             /\ card.state = "none" \/ Order[target] > Order[card.state]
             /\ card' = [state |-> target, revision |-> h.revision, from |-> from]
             /\ evidence' = IF target = "evidence_only" THEN Ensured(h, from) ELSE evidence
    <3> HIDE DEF h, from, target
    <3>1. card.state # "evidence_only"
      BY <1>3, <2>3 DEF Order, States
    <3>2. evidence = NoEvidence
      BY <1>7, <3>1
    <3>3. CountsFromRestore'
      BY <1>0, <1>3, <1>6, <2>3 DEF CountsFromRestore, States
    <3>4. EvidenceIsOfTheCard'
      BY <2>3, <3>2 DEF EvidenceIsOfTheCard, Ensured
    <3> QED BY <1>0, <1>3, <1>4, <1>5, <2>3, <3>3, <3>4 DEF RetentionTypeOK
  <2> QED BY <2>1, <2>2, <2>3, SweepIs
<1>9. RetentionTypeOK'
  BY <1>0, <1>1, <1>8 DEF RetentionTypeOK
<1> QED BY <1>1, <1>8, <1>9 DEF RetentionIInv

\* What the task, the clock and a viewer do leaves the card and its settings alone.
LEMMA CardIsLeft ==
  ASSUME RetentionIInv,
         UNCHANGED <<card, evidence, settings, restoredOn>>,
         day' \in 0 .. LastDay, day' >= day, head' \in Heads,
         views' \in [Viewer -> [head : Heads, now : 0 .. LastDay] \cup {NotLooking}],
         \A v \in Viewer : views'[v] \in {views[v], NotLooking, [head |-> head, now |-> day]}
  PROVE  RetentionIInv'
<1>1. RetentionTypeOK'
  BY DEF RetentionIInv, RetentionTypeOK
<1>2. ReadingsArePast'
  <2> SUFFICES ASSUME NEW v \in Viewer, views'[v] # NotLooking PROVE views'[v].now <= day'
    BY DEF ReadingsArePast
  <2>1. day \in Nat /\ day' \in Nat
    BY DaysAreNumbers DEF RetentionIInv, RetentionTypeOK
  <2>2. CASE views'[v] = views[v]
    <3>1. views[v].now <= day /\ views[v].now \in 0 .. LastDay
      BY <2>2, ReadingIs
    <3> QED BY <2>1, <2>2, <3>1
  <2>3. CASE views'[v] = [head |-> head, now |-> day]
    BY <2>1, <2>3
  <2> QED BY <2>2, <2>3
<1> QED BY <1>1, <1>2 DEF RetentionIInv, PeriodsFit, CountsFromRestore, EvidenceIsOfTheCard

\* Every other step keeps the invariant too.
LEMMA OtherRetentionKeeps ==
  ASSUME RetentionIInv,
         \/ TaskAdvances \/ Tomorrow \/ RestoreTaskCard
         \/ \E v \in Viewer : Look(v) \/ LookAway(v)
         \/ \E p \in Periods : UpdateTaskRetentionSettings(p)
  PROVE  RetentionIInv'
<1>0. /\ RetentionTypeOK /\ PeriodsFit /\ ReadingsArePast
      /\ CountsFromRestore /\ EvidenceIsOfTheCard
      /\ day \in 0 .. LastDay /\ day \in 0 .. Never /\ head \in Heads
      /\ views \in [Viewer -> [head : Heads, now : 0 .. LastDay] \cup {NotLooking}]
  BY DaysAreNumbers DEF RetentionIInv, RetentionTypeOK
<1>1. CASE TaskAdvances
  <2>1. UNCHANGED <<day, card, evidence, settings, views, restoredOn>>
    BY <1>1 DEF TaskAdvances
  <2>2. head.revision + 1 \in 1 .. MaxTaskRevision
    BY <1>0, <1>1, DaysAreNumbers DEF TaskAdvances, Heads
  <2>3. Never \in 0 .. Never
    BY DaysAreNumbers
  <2>4. head' \in Heads
    BY <1>0, <1>1, <2>2, <2>3 DEF TaskAdvances, Heads
  <2>5. day' >= day
    BY <1>0, <2>1, DaysAreNumbers
  <2> QED BY <1>0, <2>1, <2>4, <2>5, CardIsLeft
<1>2. CASE Tomorrow
  <2>1. /\ day' \in 0 .. LastDay /\ day' >= day
        /\ UNCHANGED <<head, card, evidence, settings, views, restoredOn>>
    BY <1>0, <1>2, DaysAreNumbers DEF Tomorrow
  <2> QED BY <1>0, <2>1, CardIsLeft
<1>3. ASSUME NEW v \in Viewer, Look(v) \/ LookAway(v) PROVE RetentionIInv'
  <2>1. /\ UNCHANGED <<day, head, card, evidence, settings, restoredOn>>
        /\ views' = [views EXCEPT ![v] = NotLooking] \/ 
           views' = [views EXCEPT ![v] = [head |-> head, now |-> day]]
    BY <1>3 DEF Look, LookAway
  <2>2. day' >= day
    BY <1>0, <2>1, DaysAreNumbers
  <2>3. views' \in [Viewer -> [head : Heads, now : 0 .. LastDay] \cup {NotLooking}]
    BY <1>0, <2>1
  <2>4. \A u \in Viewer : views'[u] \in {views[u], NotLooking, [head |-> head, now |-> day]}
    BY <1>0, <2>1
  <2> QED BY <1>0, <2>1, <2>2, <2>3, <2>4, CardIsLeft
<1>4. ASSUME NEW p \in Periods, UpdateTaskRetentionSettings(p) PROVE RetentionIInv'
  <2>1. /\ UNCHANGED <<day, head, card, evidence, views, restoredOn>>
        /\ settings' = With(p, CurrentSettings.revision + 1)
        /\ CurrentSettings.revision < MaxSettings
    BY <1>4 DEF UpdateTaskRetentionSettings
  <2>2. settings'.periods = p /\ settings'.revision \in 1 .. MaxSettings + 1
    BY <1>0, <2>1, SettingsAreCurrent, RetentionAssumption DEF With
  <2>3. RetentionTypeOK'
    BY <1>0, <2>1, <2>2 DEF RetentionTypeOK
  <2> QED BY <1>0, <2>1, <2>2, <2>3 DEF RetentionIInv, PeriodsFit, ReadingsArePast,
                                         CountsFromRestore, EvidenceIsOfTheCard
<1>5. CASE RestoreTaskCard
  <2>1. /\ card.state = "trashed"
        /\ card' = [card EXCEPT !.state = "visible", !.from = day]
        /\ settings' = CurrentSettings
        /\ restoredOn' = day
        /\ UNCHANGED <<day, head, evidence, views>>
    BY <1>5 DEF RestoreTaskCard, InTheBin
  <2>2. /\ settings'.periods \in Periods /\ settings'.revision \in 1 .. MaxSettings + 1
        /\ PeriodsFit'
    BY <1>0, <2>1, SettingsAreCurrent DEF PeriodsFit
  <2>3. /\ card' \in [state : States \cup {"none"}, revision : 0 .. MaxTaskRevision,
                      from : 0 .. Never]
        /\ card'.state = "visible" /\ card'.from = day
    BY <1>0, <2>1 DEF RetentionTypeOK, States
  <2>4. RetentionTypeOK'
    BY <1>0, <2>1, <2>2, <2>3 DEF RetentionTypeOK
  <2>5. evidence = NoEvidence
    BY <1>0, <2>1 DEF EvidenceIsOfTheCard
  <2> QED BY <1>0, <2>1, <2>2, <2>3, <2>4, <2>5 DEF RetentionIInv, ReadingsArePast,
                                   CountsFromRestore, EvidenceIsOfTheCard
<1> QED BY <1>1, <1>2, <1>3, <1>4, <1>5

\* The invariant of the task cards.
THEOREM RetentionInvariance == RetentionSpec => []RetentionIInv
<1>1. RetentionIInv /\ [RetentionNext]_retentionVars => RetentionIInv'
  <2>1. ASSUME RetentionIInv, UNCHANGED retentionVars PROVE RetentionIInv'
    BY <2>1 DEF retentionVars, RetentionIInv, RetentionTypeOK, PeriodsFit,
                ReadingsArePast, CountsFromRestore, EvidenceIsOfTheCard
  <2> QED BY <2>1, SweepKeeps, OtherRetentionKeeps DEF RetentionNext
<1> QED BY <1>1, RetentionStarts, PTL DEF RetentionSpec

\* A sweep moves a card on only when its day has come, and never back.
LEMMA SweepProtects ==
  ASSUME RetentionIInv, NEW v \in Viewer, SweepTaskRetention(v)
  PROVE  /\ card.state = "visible" /\ card'.state # "visible" /\ restoredOn # Never
              => day >= restoredOn + settings'.periods.completed
         /\ card.state \in {"sealed", "evidence_only"}
              => Order[card'.state] >= Order[card.state] /\ card'.revision = card.revision
<1> DEFINE h == views[v].head
           from == CountedFrom(h)
           target == TargetState(from, views[v].now)
<1>0. /\ RetentionTypeOK /\ PeriodsFit /\ CountsFromRestore
      /\ views[v] # NotLooking /\ settings' = CurrentSettings
  BY DEF RetentionIInv, SweepTaskRetention
<1>1. CASE UNCHANGED card
  BY <1>1 DEF Order
<1>2. CASE /\ card.state = "none" \/ card.revision = h.revision
           /\ card.state = "none" \/ Order[target] > Order[card.state]
           /\ card' = [state |-> target, revision |-> h.revision, from |-> from]
  <2>1. target \in States
    BY TargetTyped
  <2>2. card.state # "none" => from = card.from
    BY DEF CountedFrom
  <2>3. views[v].now \in Nat /\ views[v].now <= day /\ day \in Nat
    BY <1>0, ReadingIs, DaysAreNumbers DEF RetentionTypeOK
  <2>4. ASSUME card.state = "visible", card'.state # "visible", restoredOn # Never
        PROVE  day >= restoredOn + settings'.periods.completed
    <3>1. from = restoredOn /\ target # "visible"
      BY <1>0, <1>2, <2>2, <2>4 DEF CountsFromRestore
    <3>2. from \in Nat
      BY <1>0, <3>1, DaysAreNumbers DEF RetentionTypeOK
    <3>3. views[v].now >= from + CurrentSettings.periods.completed
      <4> HIDE DEF from
      <4> QED BY <1>0, <2>3, <3>1, <3>2, TargetIsLate
    <3>4. CurrentSettings.periods.completed \in Nat
      BY <1>0, SettingsAreCurrent, RetentionAssumption DEF Periods
    <3> QED BY <1>0, <2>3, <3>1, <3>2, <3>3, <3>4
  <2>5. ASSUME card.state \in {"sealed", "evidence_only"}
        PROVE  Order[card'.state] >= Order[card.state] /\ card'.revision = card.revision
    <3> HIDE DEF h, from, target
    <3> QED BY <1>2, <2>1, <2>5 DEF Order, States
  <2> QED BY <2>4, <2>5
<1> QED BY <1>1, <1>2, SweepIs

\* A restored card stays in the list for the whole first period, a card that is put
\* away stays so, and its evidence is of its own completion, for any periods, number
\* of viewers and days.
THEOREM CardsAreProtected == RetentionSpec => RestoredCardIsProtected
<1>1. ASSUME RetentionIInv, RetentionIInv', [RetentionNext]_retentionVars
      PROVE  [/\ card.state = "visible" /\ card'.state # "visible" /\ restoredOn # Never
                   => day >= restoredOn + settings'.periods.completed
              /\ card.state \in {"sealed", "evidence_only"}
                   => Order[card'.state] >= Order[card.state] /\ card'.revision = card.revision
              /\ card'.state = "evidence_only" => evidence'.revision = card'.revision]_retentionVars
  <2>1. card'.state = "evidence_only" => evidence'.revision = card'.revision
    BY <1>1 DEF RetentionIInv, EvidenceIsOfTheCard
  <2>2. CASE UNCHANGED card
    BY <2>1, <2>2 DEF Order
  <2>3. CASE RestoreTaskCard
    BY <2>1, <2>3 DEF RestoreTaskCard, InTheBin
  <2>4. ASSUME NEW v \in Viewer, SweepTaskRetention(v)
        PROVE  /\ card.state = "visible" /\ card'.state # "visible" /\ restoredOn # Never
                    => day >= restoredOn + settings'.periods.completed
               /\ card.state \in {"sealed", "evidence_only"}
                    => Order[card'.state] >= Order[card.state] /\ card'.revision = card.revision
    BY <1>1, <2>4, SweepProtects
  <2>5. RetentionNext => 
          UNCHANGED card \/ RestoreTaskCard \/ \E v \in Viewer : SweepTaskRetention(v)
    BY DEF RetentionNext, TaskAdvances, Tomorrow, Look, LookAway,
           UpdateTaskRetentionSettings
  <2> QED BY <1>1, <2>1, <2>2, <2>3, <2>4, <2>5 DEF retentionVars
<1> QED BY <1>1, RetentionInvariance, PTL DEF RetentionSpec, RestoredCardIsProtected

\* What a task card, its evidence and its settings are made of.
THEOREM RetentionTypeCorrect == RetentionSpec => []RetentionTypeOK
<1>1. RetentionIInv => RetentionTypeOK
  BY DEF RetentionIInv
<1> QED BY <1>1, RetentionInvariance, PTL

----------------------------------------------------------------------------
(* SchemaUpgrade: what an opening finds recorded can be relied on.         *)

\* The tables of an upgrade under way, and all other names.
Old == {OldTaskCards, OldTaskReceipts}

Names ==
    {"", "cards", "card_revisions", "command_log", "events", "outbox",
     "intent_aggregates", "intent_contract_revisions", "intent_receipts",
     "task_aggregates", "task_state_revisions", "card_revisions.state_json",
     "decision_resolution_receipts", "decision_resolution_items",
     "decision_completion_results", "outbox.delivery_version",
     "outbox_deliveries", "decision_resolution_receipts.workline_id",
     "decision_resolution_receipts.intent_fingerprint", "card_search",
     "card_privacy_tombstones", "ui_purge_previews", "ui_purge_requests",
     "ui_drafts", "ui_task_retention_settings", TaskCards, TaskReceipts,
     "card_source_links", "instruction_anchors", "continuation_receipts",
     "migration_epochs", "migration_records", "migration_events",
     "migration_adapters", "intent_session_rebinds", "task_session_rebinds",
     "local_rebind_transactions", "local_rebind_events",
     "ui_task_completion_evidence"}

\* What every version but 17 consists of: statements that make things.
Making == {"create", "ensure", "alter"}
Plain == [op : Making \cup {"look"}, on : Names, to : {""}]

\* No old table is among them.
LEMMA OldIsApart == Names \cap Old = {} /\ {TaskCards, TaskReceipts} \subseteq Names
BY DEF Names, Old, TaskCards, TaskReceipts, OldTaskCards, OldTaskReceipts

\* Names make plain statements.
LEMMA EachIsPlain ==
    ASSUME NEW op \in Making, NEW names \in Seq(Names)
    PROVE  /\ Each(op, names) \in Seq(Plain)
           /\ Len(Each(op, names)) = Len(names)
           /\ \A i \in 1 .. Len(names) : Each(op, names)[i] = Statement(op, names[i], "")
<1> HIDE DEF Names, Making
<1>1. Each(op, names) = [i \in 1 .. Len(names) |-> Statement(op, names[i], "")]
  BY DEF Each
<1>2. \A i \in 1 .. Len(names) : Statement(op, names[i], "") \in Plain
  BY DEF Statement, Plain
<1>3. PICK n \in Nat : n = Len(names)
  OBVIOUS
<1>4. Each(op, names) \in [1 .. n -> Plain]
  BY <1>1, <1>2, <1>3
<1>5. Each(op, names) \in Seq(Plain)
  BY <1>4, SeqDef
<1>6. Len(Each(op, names)) = n
  BY <1>4, <1>5, LenProperties
<1> QED BY <1>1, <1>3, <1>5, <1>6

\* The scripts but for version 17, and what every opening does.
LEMMA ScriptsArePlain ==
    /\ CardTables \in Seq(Plain)
    /\ IntentTables \in Seq(Plain)
    /\ TaskTables \in Seq(Plain)
    /\ StateColumn \in Seq(Plain)
    /\ DecisionTables \in Seq(Plain)
    /\ DeliveryColumn \in Seq(Plain)
    /\ DeliveryTables \in Seq(Plain)
    /\ BindingColumns \in Seq(Plain)
    /\ PrivacyTables \in Seq(Plain)
    /\ DraftTable \in Seq(Plain)
    /\ RetentionTables \in Seq(Plain)
    /\ SourceLinkTable \in Seq(Plain)
    /\ AnchorTable \in Seq(Plain)
    /\ ContinuationTable \in Seq(Plain)
    /\ MigrationTables \in Seq(Plain)
    /\ IntentRebindTable \in Seq(Plain)
    /\ TaskRebindTable \in Seq(Plain)
    /\ LocalRebindTables \in Seq(Plain)
<1>1. CardTables \in Seq(Plain)
  <2>1. <<"cards", "card_revisions", "command_log", "events", "outbox">> \in Seq(Names)
    <3>1. /\ "cards" \in Names
          /\ "card_revisions" \in Names
          /\ "command_log" \in Names
          /\ "events" \in Names
          /\ "outbox" \in Names
      BY DEF Names
    <3> QED BY <3>1
  <2>2. Each("create", <<"cards", "card_revisions", "command_log", "events", "outbox">>) \in Seq(Plain)
    BY <2>1, EachIsPlain DEF Making
  <2> QED BY <2>2 DEF CardTables, Create
<1>2. IntentTables \in Seq(Plain)
  <2>1. <<"intent_aggregates", "intent_contract_revisions",
         "intent_receipts">> \in Seq(Names)
    <3>1. /\ "intent_aggregates" \in Names
          /\ "intent_contract_revisions" \in Names
          /\ "intent_receipts" \in Names
      BY DEF Names
    <3> QED BY <3>1
  <2>2. Each("create", <<"intent_aggregates", "intent_contract_revisions",
              "intent_receipts">>) \in Seq(Plain)
    BY <2>1, EachIsPlain DEF Making
  <2> QED BY <2>2 DEF IntentTables, Create
<1>3. TaskTables \in Seq(Plain)
  <2>1. <<"task_aggregates", "task_state_revisions">> \in Seq(Names)
    <3>1. /\ "task_aggregates" \in Names
          /\ "task_state_revisions" \in Names
      BY DEF Names
    <3> QED BY <3>1
  <2>2. Each("create", <<"task_aggregates", "task_state_revisions">>) \in Seq(Plain)
    BY <2>1, EachIsPlain DEF Making
  <2> QED BY <2>2 DEF TaskTables, Create
<1>4. StateColumn \in Seq(Plain)
  <2>1. <<"card_revisions.state_json">> \in Seq(Names)
    <3>1. /\ "card_revisions.state_json" \in Names
      BY DEF Names
    <3> QED BY <3>1
  <2>2. Each("alter", <<"card_revisions.state_json">>) \in Seq(Plain)
    BY <2>1, EachIsPlain DEF Making
  <2>3. <<Statement("look", "", "")>> \in Seq(Plain)
    <3>1. Statement("look", "", "") \in Plain
      BY DEF Statement, Plain, Names
    <3>2. \A st \in Plain : <<st>> \in Seq(Plain)
      OBVIOUS
    <3> QED BY <3>1, <3>2, Zenon
  <2> QED BY <2>2, <2>3, ConcatProperties DEF StateColumn, AddColumns
<1>5. DecisionTables \in Seq(Plain)
  <2>1. <<"decision_resolution_receipts", "decision_resolution_items",
         "decision_completion_results">> \in Seq(Names)
    <3>1. /\ "decision_resolution_receipts" \in Names
          /\ "decision_resolution_items" \in Names
          /\ "decision_completion_results" \in Names
      BY DEF Names
    <3> QED BY <3>1
  <2>2. Each("ensure", <<"decision_resolution_receipts", "decision_resolution_items",
              "decision_completion_results">>) \in Seq(Plain)
    BY <2>1, EachIsPlain DEF Making
  <2> QED BY <2>2 DEF DecisionTables, Ensure
<1>6. DeliveryColumn \in Seq(Plain)
  <2>1. <<"outbox.delivery_version">> \in Seq(Names)
    <3>1. /\ "outbox.delivery_version" \in Names
      BY DEF Names
    <3> QED BY <3>1
  <2>2. Each("alter", <<"outbox.delivery_version">>) \in Seq(Plain)
    BY <2>1, EachIsPlain DEF Making
  <2>3. <<Statement("look", "", "")>> \in Seq(Plain)
    <3>1. Statement("look", "", "") \in Plain
      BY DEF Statement, Plain, Names
    <3>2. \A st \in Plain : <<st>> \in Seq(Plain)
      OBVIOUS
    <3> QED BY <3>1, <3>2, Zenon
  <2> QED BY <2>2, <2>3, ConcatProperties DEF DeliveryColumn, AddColumns
<1>7. DeliveryTables \in Seq(Plain)
  <2>1. <<"outbox_deliveries">> \in Seq(Names)
    <3>1. /\ "outbox_deliveries" \in Names
      BY DEF Names
    <3> QED BY <3>1
  <2>2. Each("ensure", <<"outbox_deliveries">>) \in Seq(Plain)
    BY <2>1, EachIsPlain DEF Making
  <2> QED BY <2>2 DEF DeliveryTables, Ensure
<1>8. BindingColumns \in Seq(Plain)
  <2>1. <<"decision_resolution_receipts.workline_id",
         "decision_resolution_receipts.intent_fingerprint">> \in Seq(Names)
    <3>1. /\ "decision_resolution_receipts.workline_id" \in Names
          /\ "decision_resolution_receipts.intent_fingerprint" \in Names
      BY DEF Names
    <3> QED BY <3>1
  <2>2. Each("alter", <<"decision_resolution_receipts.workline_id",
              "decision_resolution_receipts.intent_fingerprint">>) \in Seq(Plain)
    BY <2>1, EachIsPlain DEF Making
  <2>3. <<Statement("look", "", "")>> \in Seq(Plain)
    <3>1. Statement("look", "", "") \in Plain
      BY DEF Statement, Plain, Names
    <3>2. \A st \in Plain : <<st>> \in Seq(Plain)
      OBVIOUS
    <3> QED BY <3>1, <3>2, Zenon
  <2> QED BY <2>2, <2>3, ConcatProperties DEF BindingColumns, AddColumns
<1>9. PrivacyTables \in Seq(Plain)
  <2>1. <<"card_search", "card_privacy_tombstones", "ui_purge_previews",
         "ui_purge_requests">> \in Seq(Names)
    <3>1. /\ "card_search" \in Names
          /\ "card_privacy_tombstones" \in Names
          /\ "ui_purge_previews" \in Names
          /\ "ui_purge_requests" \in Names
      BY DEF Names
    <3> QED BY <3>1
  <2>2. Each("ensure", <<"card_search", "card_privacy_tombstones", "ui_purge_previews",
              "ui_purge_requests">>) \in Seq(Plain)
    BY <2>1, EachIsPlain DEF Making
  <2> QED BY <2>2 DEF PrivacyTables, Ensure
<1>10. DraftTable \in Seq(Plain)
  <2>1. <<"ui_drafts">> \in Seq(Names)
    <3>1. /\ "ui_drafts" \in Names
      BY DEF Names
    <3> QED BY <3>1
  <2>2. Each("ensure", <<"ui_drafts">>) \in Seq(Plain)
    BY <2>1, EachIsPlain DEF Making
  <2> QED BY <2>2 DEF DraftTable, Ensure
<1>11. RetentionTables \in Seq(Plain)
  <2>1. <<"ui_task_retention_settings", TaskCards, TaskReceipts>> \in Seq(Names)
    <3>1. /\ "ui_task_retention_settings" \in Names
          /\ TaskCards \in Names
          /\ TaskReceipts \in Names
      BY DEF Names
    <3> QED BY <3>1
  <2>2. Each("ensure", <<"ui_task_retention_settings", TaskCards, TaskReceipts>>) \in Seq(Plain)
    BY <2>1, EachIsPlain DEF Making
  <2> QED BY <2>2 DEF RetentionTables, Ensure
<1>12. SourceLinkTable \in Seq(Plain)
  <2>1. <<"card_source_links">> \in Seq(Names)
    <3>1. /\ "card_source_links" \in Names
      BY DEF Names
    <3> QED BY <3>1
  <2>2. Each("ensure", <<"card_source_links">>) \in Seq(Plain)
    BY <2>1, EachIsPlain DEF Making
  <2> QED BY <2>2 DEF SourceLinkTable, Ensure
<1>13. AnchorTable \in Seq(Plain)
  <2>1. <<"instruction_anchors">> \in Seq(Names)
    <3>1. /\ "instruction_anchors" \in Names
      BY DEF Names
    <3> QED BY <3>1
  <2>2. Each("ensure", <<"instruction_anchors">>) \in Seq(Plain)
    BY <2>1, EachIsPlain DEF Making
  <2> QED BY <2>2 DEF AnchorTable, Ensure
<1>14. ContinuationTable \in Seq(Plain)
  <2>1. <<"continuation_receipts">> \in Seq(Names)
    <3>1. /\ "continuation_receipts" \in Names
      BY DEF Names
    <3> QED BY <3>1
  <2>2. Each("ensure", <<"continuation_receipts">>) \in Seq(Plain)
    BY <2>1, EachIsPlain DEF Making
  <2> QED BY <2>2 DEF ContinuationTable, Ensure
<1>15. MigrationTables \in Seq(Plain)
  <2>1. <<"migration_epochs", "migration_records", "migration_events",
         "migration_adapters">> \in Seq(Names)
    <3>1. /\ "migration_epochs" \in Names
          /\ "migration_records" \in Names
          /\ "migration_events" \in Names
          /\ "migration_adapters" \in Names
      BY DEF Names
    <3> QED BY <3>1
  <2>2. Each("ensure", <<"migration_epochs", "migration_records", "migration_events",
              "migration_adapters">>) \in Seq(Plain)
    BY <2>1, EachIsPlain DEF Making
  <2> QED BY <2>2 DEF MigrationTables, Ensure
<1>16. IntentRebindTable \in Seq(Plain)
  <2>1. <<"intent_session_rebinds">> \in Seq(Names)
    <3>1. /\ "intent_session_rebinds" \in Names
      BY DEF Names
    <3> QED BY <3>1
  <2>2. Each("ensure", <<"intent_session_rebinds">>) \in Seq(Plain)
    BY <2>1, EachIsPlain DEF Making
  <2> QED BY <2>2 DEF IntentRebindTable, Ensure
<1>17. TaskRebindTable \in Seq(Plain)
  <2>1. <<"task_session_rebinds">> \in Seq(Names)
    <3>1. /\ "task_session_rebinds" \in Names
      BY DEF Names
    <3> QED BY <3>1
  <2>2. Each("ensure", <<"task_session_rebinds">>) \in Seq(Plain)
    BY <2>1, EachIsPlain DEF Making
  <2> QED BY <2>2 DEF TaskRebindTable, Ensure
<1>18. LocalRebindTables \in Seq(Plain)
  <2>1. <<"local_rebind_transactions", "local_rebind_events">> \in Seq(Names)
    <3>1. /\ "local_rebind_transactions" \in Names
          /\ "local_rebind_events" \in Names
      BY DEF Names
    <3> QED BY <3>1
  <2>2. Each("ensure", <<"local_rebind_transactions", "local_rebind_events">>) \in Seq(Plain)
    BY <2>1, EachIsPlain DEF Making
  <2> QED BY <2>2 DEF LocalRebindTables, Ensure
<1> QED BY <1>1, <1>2, <1>3, <1>4, <1>5, <1>6, <1>7, <1>8, <1>9, <1>10, <1>11, <1>12, <1>13, <1>14, <1>15, <1>16, <1>17, <1>18

AnyStatement == Plain \cup [op : {"rename", "copy"}, on : Retention, to : Retention]
             \cup [op : {"drop"}, on : Retention, to : {""}]
             \cup [op : {"record"}, on : 1 .. Newest, to : {""}]

\* One more statement.
LEMMA Appended ==
    ASSUME NEW S, NEW s \in Seq(S), NEW st \in S
    PROVE  /\ s \o <<st>> \in Seq(S)
           /\ Len(s \o <<st>>) = Len(s) + 1
           /\ \A i \in 1 .. Len(s) : (s \o <<st>>)[i] = s[i]
           /\ (s \o <<st>>)[Len(s) + 1] = st
<1>1. <<st>> \in Seq(S) /\ Len(<<st>>) = 1 /\ <<st>>[1] = st
  OBVIOUS
<1>2. Len(s) \in Nat
  OBVIOUS
<1> QED BY <1>1, <1>2, ConcatProperties

\* The nine statements of version 17.
LEMMA NineStatements ==
    LET s == NewRetentionTables
    IN  /\ s \in Seq(AnyStatement) /\ Len(s) = 9
        /\ s[1] = Statement("rename", TaskCards, OldTaskCards)
        /\ s[2] = Statement("rename", TaskReceipts, OldTaskReceipts)
        /\ s[3] = Statement("create", TaskCards, "")
        /\ s[4] = Statement("copy", OldTaskCards, TaskCards)
        /\ s[5] = Statement("create", TaskReceipts, "")
        /\ s[6] = Statement("copy", OldTaskReceipts, TaskReceipts)
        /\ s[7] = Statement("create", "ui_task_completion_evidence", "")
        /\ s[8] = Statement("drop", OldTaskCards, "")
        /\ s[9] = Statement("drop", OldTaskReceipts, "")
<1>1. PICK r1, r2, c1, c2, d1, d2 :
         /\ r1 = Statement("rename", TaskCards, OldTaskCards)
         /\ r2 = Statement("rename", TaskReceipts, OldTaskReceipts)
         /\ c1 = Statement("copy", OldTaskCards, TaskCards)
         /\ c2 = Statement("copy", OldTaskReceipts, TaskReceipts)
         /\ d1 = Statement("drop", OldTaskCards, "")
         /\ d2 = Statement("drop", OldTaskReceipts, "")
  OBVIOUS
<1>2. PICK m1, m2, m3 :
         /\ m1 = Statement("create", TaskCards, "")
         /\ m2 = Statement("create", TaskReceipts, "")
         /\ m3 = Statement("create", "ui_task_completion_evidence", "")
  OBVIOUS
<1>3. r1 \in AnyStatement /\ r2 \in AnyStatement /\ c1 \in AnyStatement /\ c2 \in AnyStatement /\ d1 \in AnyStatement /\ d2 \in AnyStatement
  <2>1. {TaskCards, OldTaskCards, TaskReceipts, OldTaskReceipts} \subseteq Retention
    BY DEF Retention
  <2>2. r1 \in AnyStatement /\ r2 \in AnyStatement
    BY <1>1, <2>1 DEF Statement, AnyStatement
  <2>3. c1 \in AnyStatement /\ c2 \in AnyStatement
    BY <1>1, <2>1 DEF Statement, AnyStatement
  <2>4. d1 \in AnyStatement /\ d2 \in AnyStatement
    BY <1>1, <2>1 DEF Statement, AnyStatement
  <2> QED BY <2>2, <2>3, <2>4
<1>4. m1 \in AnyStatement /\ m2 \in AnyStatement /\ m3 \in AnyStatement
  <2>1. TaskCards \in Names /\ TaskReceipts \in Names /\ "ui_task_completion_evidence" \in Names
    BY DEF Names
  <2> QED BY <1>2, <2>1 DEF Statement, AnyStatement, Plain, Making
<1>5. NewRetentionTables = <<r1, r2, m1, c1, m2, c2, m3, d1, d2>>
  BY <1>1, <1>2, Zenon DEF NewRetentionTables, SetAside, CopyCards, CopyReceipts, DropOld
<1>6. PICK s : s = <<r1, r2, m1, c1, m2, c2, m3, d1, d2>>
  OBVIOUS
<1>7. s \in Seq(AnyStatement) /\ Len(s) = 9
  BY <1>3, <1>4, <1>6
<1>8. /\ s[1] = r1 /\ s[2] = r2 /\ s[3] = m1 /\ s[4] = c1 /\ s[5] = m2
      /\ s[6] = c2 /\ s[7] = m3 /\ s[8] = d1 /\ s[9] = d2
  BY <1>6
<1>9. NewRetentionTables = s
  BY <1>5, <1>6
<1> QED BY <1>1, <1>2, <1>7, <1>8, <1>9, Zenon

\* The script of a version with what every opening does before it.
Body(v) == EveryTime(v) \o ScriptOf[v]

\* All of them consist of plain statements, but for version 17.
LEMMA BodyIsPlain ==
    ASSUME NEW v \in 1 .. Newest, v # 17
    PROVE  EveryTime(v) \in Seq(Plain) /\ ScriptOf[v] \in Seq(Plain) /\ Body(v) \in Seq(Plain)
<1>1. v \in {1, 2, 3, 4, 5, 6, 7, 8, 9, 10, 11, 12, 13, 14, 15, 16, 18}
  BY DEF Newest
<1>2. <<>> \in Seq(Plain)
  OBVIOUS
<1>3. ScriptOf[v] \in Seq(Plain)
  <2>1. /\ ScriptOf[1] = CardTables /\ ScriptOf[2] = IntentTables
        /\ ScriptOf[3] = TaskTables /\ ScriptOf[4] = <<>> /\ ScriptOf[5] = <<>>
        /\ ScriptOf[6] = DeliveryTables /\ ScriptOf[7] = <<>>
        /\ ScriptOf[8] = PrivacyTables /\ ScriptOf[9] = DraftTable
        /\ ScriptOf[10] = RetentionTables /\ ScriptOf[11] = SourceLinkTable
        /\ ScriptOf[12] = AnchorTable /\ ScriptOf[13] = ContinuationTable
        /\ ScriptOf[14] = MigrationTables /\ ScriptOf[15] = IntentRebindTable
        /\ ScriptOf[16] = TaskRebindTable /\ ScriptOf[18] = LocalRebindTables
    BY DEF ScriptOf
  <2> QED BY <1>1, <1>2, <2>1, ScriptsArePlain
<1>4. EveryTime(v) \in Seq(Plain)
  BY <1>1, <1>2, ScriptsArePlain DEF EveryTime
<1> QED BY <1>3, <1>4, ConcatProperties DEF Body

\* Version 17 is its script.
LEMMA BodyOf17 ==
    /\ EveryTime(17) = <<>>
    /\ ScriptOf[17] = NewRetentionTables
    /\ Body(17) = NewRetentionTables
<1>1. EveryTime(17) = <<>>
  BY DEF EveryTime
<1>2. ScriptOf[17] = NewRetentionTables
  BY DEF ScriptOf
<1> QED BY <1>1, <1>2, NineStatements, ConcatEmptySeq DEF Body

\* A version that is recorded has only what every opening does; one that is not
\* ends with its record.
LEMMA UpgradeIs ==
    ASSUME NEW v \in 1 .. Newest, NEW applied
    PROVE  /\ Upgrade(applied, v) \in Seq(AnyStatement)
           /\ v \in applied => Upgrade(applied, v) = EveryTime(v)
           /\ v \in applied /\ v # 17 => Upgrade(applied, v) \in Seq(Plain)
           /\ v \notin applied =>
                /\ Len(Upgrade(applied, v)) = Len(Body(v)) + 1
                /\ \A i \in 1 .. Len(Body(v)) : Upgrade(applied, v)[i] = Body(v)[i]
                /\ Upgrade(applied, v)[Len(Body(v)) + 1] =
                     [op |-> "record", on |-> v, to |-> ""]
<1> DEFINE st == [op |-> "record", on |-> v, to |-> ""]
<1>1. EveryTime(v) \in Seq(AnyStatement) /\ ScriptOf[v] \in Seq(AnyStatement) /\ Body(v) \in Seq(AnyStatement)
  <2>1. CASE v = 17
    <3>1. <<>> \in Seq(AnyStatement)
      OBVIOUS
    <3> QED BY <3>1, <2>1, BodyOf17, NineStatements
  <2>2. CASE v # 17
    <3>1. Plain \subseteq AnyStatement
      BY DEF AnyStatement
    <3> QED BY <3>1, <2>2, BodyIsPlain, SeqMonotonic
  <2> QED BY <2>1, <2>2
<1>2. CASE v \in applied
  <2>1. Upgrade(applied, v) = EveryTime(v)
    BY <1>1, <1>2, ConcatEmptySeq DEF Upgrade
  <2> QED BY <2>1, <1>1, <1>2, BodyIsPlain
<1>3. CASE v \notin applied
  <2>1. st \in AnyStatement /\ <<st>> \in Seq(AnyStatement)
    <3>1. st \in AnyStatement
      BY DEF AnyStatement
    <3> HIDE DEF st
    <3> QED BY <3>1
  <2> HIDE DEF st
  <2>2. Upgrade(applied, v) = EveryTime(v) \o (ScriptOf[v] \o <<st>>)
    BY <1>3, Zenon DEF Upgrade, Version, RecordOf, st
  <2>3. EveryTime(v) \o (ScriptOf[v] \o <<st>>) = Body(v) \o <<st>>
    <3>1. PICK e, b, r : e = EveryTime(v) /\ b = ScriptOf[v] /\ r = <<st>>
      OBVIOUS
    <3>2. e \in Seq(AnyStatement) /\ b \in Seq(AnyStatement) /\ r \in Seq(AnyStatement)
      BY <1>1, <2>1, <3>1
    <3>3. (e \o b) \o r = e \o (b \o r)
      BY <3>2, ConcatAssociative
    <3> QED BY <3>1, <3>3, Zenon DEF Body
  <2>4. PICK u : u = Upgrade(applied, v) /\ u = Body(v) \o <<st>>
    BY <2>2, <2>3
  <2>5. u \in Seq(AnyStatement) /\ Len(u) = Len(Body(v)) + 1
        /\ (\A i \in 1 .. Len(Body(v)) : u[i] = Body(v)[i]) /\ u[Len(Body(v)) + 1] = st
    BY <1>1, <2>1, <2>4, Appended
  <2> QED BY <1>3, <2>4, <2>5 DEF st
<1> QED BY <1>2, <1>3

\* The two tables that version 17 replaces: their names, and the statements that
\* set one aside, copy its rows and drop it.
Pairs == {[new |-> TaskCards, old |-> OldTaskCards, aside |-> 1, copied |-> 4, dropped |-> 8],
          [new |-> TaskReceipts, old |-> OldTaskReceipts, aside |-> 2, copied |-> 6,
           dropped |-> 9]}

\* The names of the pairs are apart, and their statements are in this order.
LEMMA PairFacts ==
    /\ \A r \in Pairs :
         /\ r.new \in Retention /\ r.old \in Retention /\ r.new # r.old
         /\ r.old \in Old /\ r.new \in {TaskCards, TaskReceipts}
         /\ r.aside \in 1 .. 2 /\ r.copied \in 4 .. 6 /\ r.dropped \in 8 .. 9
    /\ \A r, s \in Pairs : r # s =>
         /\ r.new # s.new /\ r.old # s.old /\ r.new # s.old /\ r.old # s.new
         /\ r.aside # s.aside /\ r.copied # s.copied /\ r.dropped # s.dropped
    /\ Retention = {r.new : r \in Pairs} \cup {r.old : r \in Pairs}
BY DEF Pairs, Retention, Old, TaskCards, TaskReceipts, OldTaskCards, OldTaskReceipts

\* Every script consists of statements.
LEMMA BodyIs ==
    ASSUME NEW v \in 1 .. Newest
    PROVE  Body(v) \in Seq(AnyStatement)
<1>1. CASE v = 17
  BY <1>1, BodyOf17, NineStatements
<1>2. CASE v # 17
  <2>1. Plain \subseteq AnyStatement
    BY DEF AnyStatement
  <2> QED BY <2>1, <1>2, BodyIsPlain, SeqMonotonic
<1> QED BY <1>1, <1>2

\* The nine statements by what they do.
LEMMA NineOps ==
    ASSUME NEW i \in 1 .. Len(NewRetentionTables), NEW st, st = NewRetentionTables[i]
    PROVE  /\ st \in AnyStatement /\ st.op # "record"
           /\ st.op = "rename" => \E r \in Pairs : i = r.aside /\ st.on = r.new /\ st.to = r.old
           /\ st.op = "copy" => \E r \in Pairs : i = r.copied /\ st.on = r.old /\ st.to = r.new
           /\ st.op = "drop" => \E r \in Pairs : i = r.dropped /\ st.on = r.old
           /\ \A r \in Pairs :
                /\ i = r.aside => st.op = "rename"
                /\ i = r.copied => st.op = "copy"
                /\ i = r.dropped => st.op = "drop"
<1> DEFINE s == NewRetentionTables
<1>1. i \in 1 .. 9
  BY NineStatements
<1>2. st \in AnyStatement
  BY NineStatements, ElementOfSeq
<1>3. CASE i = 1
  <2>1. st = Statement("rename", TaskCards, OldTaskCards)
    BY <1>3, NineStatements
  <2> QED BY <1>2, <1>3, <2>1 DEF Pairs, Statement
<1>4. CASE i = 2
  <2>1. st = Statement("rename", TaskReceipts, OldTaskReceipts)
    BY <1>4, NineStatements
  <2> QED BY <1>2, <1>4, <2>1 DEF Pairs, Statement
<1>5. CASE i = 4
  <2>1. st = Statement("copy", OldTaskCards, TaskCards)
    BY <1>5, NineStatements
  <2> QED BY <1>2, <1>5, <2>1 DEF Pairs, Statement
<1>6. CASE i = 6
  <2>1. st = Statement("copy", OldTaskReceipts, TaskReceipts)
    BY <1>6, NineStatements
  <2> QED BY <1>2, <1>6, <2>1 DEF Pairs, Statement
<1>7. CASE i = 8
  <2>1. st = Statement("drop", OldTaskCards, "")
    BY <1>7, NineStatements
  <2>2. st.op = "drop" /\ st.on = OldTaskCards
    <3>1. \A t : Statement("drop", t, "").op = "drop" /\ Statement("drop", t, "").on = t
      BY DEF Statement
    <3> QED BY <2>1, <3>1
  <2> QED BY <1>2, <1>7, <2>2 DEF Pairs
<1>8. CASE i = 9
  <2>1. st = Statement("drop", OldTaskReceipts, "")
    BY <1>8, NineStatements
  <2>2. st.op = "drop" /\ st.on = OldTaskReceipts
    <3>1. \A t : Statement("drop", t, "").op = "drop" /\ Statement("drop", t, "").on = t
      BY DEF Statement
    <3> QED BY <2>1, <3>1
  <2> QED BY <1>2, <1>8, <2>2 DEF Pairs
<1>9. CASE i \in {3, 5, 7}
  <2>1. st.op = "create"
    <3>1. \A t : Statement("create", t, "").op = "create"
      BY DEF Statement
    <3>2. CASE i = 3
      BY <3>1, <3>2, NineStatements
    <3>3. CASE i = 5
      BY <3>1, <3>3, NineStatements
    <3>4. CASE i = 7
      BY <3>1, <3>4, NineStatements
    <3> QED BY <1>9, <3>2, <3>3, <3>4
  <2> QED BY <1>2, <1>9, <2>1 DEF Pairs
<1> QED BY <1>1, <1>3, <1>4, <1>5, <1>6, <1>7, <1>8, <1>9

\* What a version makes.
LEMMA MadeIs ==
    ASSUME NEW v \in 1 .. Newest
    PROVE  ObjectsOf(v) = {x \in Names :
                            \E i \in 1 .. Len(Body(v)) :
                               Body(v)[i].op \in Making /\ Body(v)[i].on = x}
<1>1. DOMAIN Body(v) = 1 .. Len(Body(v)) /\ Body(v) \in Seq(AnyStatement)
  BY BodyIs, LenProperties
<1>2. \A i \in 1 .. Len(Body(v)) : Body(v)[i] \in AnyStatement
  BY <1>1
<1>3. \A st \in AnyStatement : st.op \in Making => st.on \in Names
  BY DEF AnyStatement, Plain, Making
<1>4. ObjectsOf(v) = {st.on : st \in {q \in ToSet(Body(v)) : q.op \in Making}}
  BY DEF ObjectsOf, MadeBy, Body, Making
<1> QED BY <1>1, <1>2, <1>3, <1>4 DEF ToSet

\* Which statement is where.
LEMMA StatementIs ==
    ASSUME NEW v \in 1 .. Newest, NEW applied, NEW i \in 1 .. Len(Upgrade(applied, v)),
           NEW st, st = Upgrade(applied, v)[i]
    PROVE  /\ st.op \in Making => st.on \in ObjectsOf(v)
           /\ st.op = "rename" =>
                v = 17 /\ \E r \in Pairs : i = r.aside /\ st.on = r.new /\ st.to = r.old
           /\ st.op = "copy" =>
                v = 17 /\ \E r \in Pairs : i = r.copied /\ st.on = r.old /\ st.to = r.new
           /\ st.op = "drop" => v = 17 /\ \E r \in Pairs : i = r.dropped /\ st.on = r.old
           /\ st.op = "record" =>
                st.on = v /\ v \notin applied /\ i = Len(Upgrade(applied, v))
           /\ i = Len(Upgrade(applied, v)) /\ v \notin applied => st.op = "record"
           /\ v = 17 => \A r \in Pairs :
                /\ i = r.aside => st.op = "rename"
                /\ i = r.copied => st.op = "copy"
                /\ i = r.dropped => st.op = "drop"
<1> DEFINE U == Upgrade(applied, v)
           B == Body(v)
<1>1. U \in Seq(AnyStatement) /\ Len(U) \in Nat /\ i \in 1 .. Len(U) /\ st = U[i]
  <2>1. U \in Seq(AnyStatement)
    BY UpgradeIs
  <2> HIDE DEF U
  <2>2. Len(U) \in Nat
    BY <2>1
  <2> QED BY <2>1, <2>2 DEF U
<1>2. CASE v \notin applied /\ i = Len(U)
  <2>1. i = Len(B) + 1
    BY <1>2, UpgradeIs
  <2>2. st.op = "record" /\ st.on = v
    <3>1. U[Len(B) + 1] = [op |-> "record", on |-> v, to |-> ""]
      BY <1>2, UpgradeIs
    <3>2. U[i] = [op |-> "record", on |-> v, to |-> ""]
      BY <2>1, <3>1
    <3>3. PICK q : q = [op |-> "record", on |-> v, to |-> ""]
      OBVIOUS
    <3>4. q.op = "record" /\ q.on = v
      BY <3>3
    <3> QED BY <1>1, <3>2, <3>3, <3>4, Zenon
  <2>3. v = 17 => i = 10
    <3>1. v = 17 => Len(B) = 9
      BY BodyOf17, NineStatements
    <3>2. PICK n : n = Len(B)
      OBVIOUS
    <3>3. v = 17 => n = 9
      BY <3>1, <3>2
    <3>4. i = n + 1
      BY <2>1, <3>2
    <3> QED BY <3>3, <3>4
  <2>4. \A r \in Pairs : r.aside # 10 /\ r.copied # 10 /\ r.dropped # 10
    BY PairFacts
  <2>5. v = 17 => \A r \in Pairs : i # r.aside /\ i # r.copied /\ i # r.dropped
    BY <2>3, <2>4
  <2>6. st.op \notin Making \cup {"rename", "copy", "drop"}
    BY <2>2 DEF Making
  <2> QED BY <1>2, <2>2, <2>5, <2>6
<1>3. CASE v \notin applied /\ i # Len(U)
  <2>1. i \in 1 .. Len(B) /\ st = B[i]
    <3>1. Len(U) = Len(B) + 1 /\ \A j \in 1 .. Len(B) : U[j] = B[j]
      BY <1>3, UpgradeIs
    <3>2. PICK n, m : n = Len(U) /\ m = Len(B)
      OBVIOUS
    <3>3. n = m + 1 /\ n \in Nat /\ i \in 1 .. n /\ i # n
      BY <1>1, <1>3, <3>1, <3>2
    <3>4. Len(B) \in Nat
      <4>1. B \in Seq(AnyStatement)
        BY BodyIs
      <4> HIDE DEF B
      <4> QED BY <4>1
    <3>5. i \in 1 .. Len(B)
      BY <3>2, <3>3, <3>4
    <3> QED BY <1>1, <3>1, <3>5
  <2>2. st \in AnyStatement /\ (v # 17 => st \in Plain) /\ st.op # "record"
    <3>1. CASE v # 17
      <4>1. B \in Seq(Plain)
        BY <3>1, BodyIsPlain
      <4> HIDE DEF B
      <4>2. st \in Plain
        BY <4>1, <2>1
      <4> QED BY <4>2 DEF AnyStatement, Plain, Making
    <3>2. CASE v = 17
      <4>1. B = NewRetentionTables
        BY <3>2, BodyOf17
      <4> QED BY <4>1, <3>2, <2>1, NineOps
    <3> QED BY <3>1, <3>2
  <2>3. st.op \in Making => st.on \in ObjectsOf(v)
    <3>1. st.op \in Making => st.on \in Names
      BY <2>2 DEF AnyStatement, Plain, Making
    <3> QED BY <2>1, <3>1, MadeIs
  <2>4. CASE v # 17
    BY <2>2, <2>3, <2>4, <1>3 DEF Plain, Making
  <2>5. CASE v = 17
    <3>1. st = NewRetentionTables[i] /\ i \in 1 .. Len(NewRetentionTables)
      BY <2>1, <2>5, BodyOf17
    <3>2. /\ st.op = "rename" => \E r \in Pairs : i = r.aside /\ st.on = r.new /\ st.to = r.old
          /\ st.op = "copy" => \E r \in Pairs : i = r.copied /\ st.on = r.old /\ st.to = r.new
          /\ st.op = "drop" => \E r \in Pairs : i = r.dropped /\ st.on = r.old
          /\ \A r \in Pairs :
               /\ i = r.aside => st.op = "rename"
               /\ i = r.copied => st.op = "copy"
               /\ i = r.dropped => st.op = "drop"
      BY <3>1, NineOps
    <3> QED BY <3>2, <1>3, <2>2, <2>3, <2>5
  <2> QED BY <2>4, <2>5
<1>4. CASE v \in applied
  <2>1. U = EveryTime(v)
    BY <1>4, UpgradeIs
  <2>2. v # 17
    <3>1. ASSUME v = 17 PROVE FALSE
      <4>1. U = <<>>
        BY <2>1, <3>1, BodyOf17
      <4>2. Len(<<>>) = 0
        OBVIOUS
      <4> QED BY <4>1, <4>2, <1>1
    <3> QED BY <3>1
  <2>3. st \in Plain
    <3>1. U \in Seq(Plain)
      BY <1>4, <2>2, UpgradeIs
    <3> HIDE DEF U
    <3> QED BY <3>1, <1>1
  <2>4. st.op \in Making => st.on \in ObjectsOf(v)
    <3>1. PICK e, b : e = EveryTime(v) /\ b = ScriptOf[v]
      OBVIOUS
    <3>2. e \in Seq(Plain) /\ b \in Seq(Plain) /\ B = e \o b /\ st = e[i] /\ i \in 1 .. Len(e)
      BY <2>1, <2>2, <3>1, <1>1, BodyIsPlain DEF Body
    <3>3. i \in 1 .. Len(e \o b) /\ (e \o b)[i] = e[i]
      <4>1. Len(e) \in Nat /\ Len(b) \in Nat
        BY <3>2
      <4>2. i \in 1 .. Len(e) + Len(b) /\ i <= Len(e)
        BY <3>2, <4>1
      <4> QED BY <3>2, <4>1, <4>2, ConcatProperties
    <3>4. st.on \in Names
      BY <2>3 DEF Plain
    <3> QED BY <3>2, <3>3, <3>4, MadeIs
  <2> QED BY <1>4, <2>2, <2>3, <2>4 DEF Plain, Making
<1> QED BY <1>2, <1>3, <1>4

----------------------------------------------------------------------------
(* The invariant. *)

Place == [applied : SUBSET (1 .. Newest), version : 0 .. Newest + 1, at : Nat,
          found : SUBSET LateColumns]

\* From being set aside until it is dropped the old table of a pair is there.
Aside(o, r) == o.version = 17 /\ o.at \in r.aside + 1 .. r.dropped

Kept == [cards : SUBSET TaskRow, receipts : SUBSET Nat, cut : BOOLEAN]

KeptOf(r) == IF r.new = TaskCards THEN kept.cards ELSE kept.receipts

\* An opener has been through every version before the one it is at, and what
\* the statements behind it make is there.
PlaceOK(o) ==
    /\ o.applied \subseteq recorded
    /\ o.version \in 1 .. Newest =>
        /\ o.at \in 1 .. Len(Upgrade(o.applied, o.version))
        /\ 1 .. o.version - 1 \subseteq recorded
        /\ \A j \in 1 .. o.at - 1 :
              Upgrade(o.applied, o.version)[j].op \in Making
                => Upgrade(o.applied, o.version)[j].on \in Standing

\* The version that replaces a pair of tables has the old one, and once its rows
\* are copied the new one is there and has them all.
AsideOK(o, r) ==
    Aside(o, r) => /\ r.old \in objects
                   /\ o.at > r.copied => /\ r.new \in objects
                                         /\ rows[r.old] \subseteq rows[r.new]

\* While no opening broke off an old table is there only as long as one replaces it.
InHand(r) == ~kept.cut /\ r.old \in objects => \E p \in Opener : Aside(openers[p], r)

SchemaOK ==
    /\ \E n \in 0 .. Newest : recorded = 1 .. n
    /\ \A v \in recorded : ObjectsOf(v) \subseteq Standing
    /\ objects \subseteq Retention \cup UNION {ObjectsOf(v) : v \in 1 .. Newest}
    /\ openers \in [Opener -> Place]
    /\ \A p \in Opener : PlaceOK(openers[p])
    /\ opens \in 0 .. MaxOpens

RowsOK ==
    /\ rows \in [Retention -> SUBSET (TaskRow \cup Nat)]
    /\ \A t \in Retention \ objects : rows[t] = {}
    /\ kept \in Kept
    /\ \E m \in 0 .. MaxSweeps : kept.receipts = 1 .. m
    /\ \A r \in Pairs : InHand(r)
    /\ \A r \in Pairs : rows[r.new] \cup rows[r.old] = KeptOf(r)
    /\ \A p \in Opener, r \in Pairs : AsideOK(openers[p], r)
    /\ \A r \in Pairs : \A p, q \in Opener :
          Aside(openers[p], r) /\ Aside(openers[q], r) => p = q

SchemaIInv == SchemaOK /\ RowsOK

\* What stands is what is there and the pairs that are set aside.
LEMMA StandingIs ==
    /\ Standing = (objects \ Old) \cup {r.new : r \in {s \in Pairs : s.old \in objects}}
    /\ Standing' = (objects' \ Old) \cup {r.new : r \in {s \in Pairs : s.old \in objects'}}
<1>1. \A x : /\ x \in {r.new : r \in {s \in Pairs : s.old \in objects}} <=>
                  \/ x = TaskCards /\ OldTaskCards \in objects
                  \/ x = TaskReceipts /\ OldTaskReceipts \in objects
             /\ x \in {r.new : r \in {s \in Pairs : s.old \in objects'}} <=>
                  \/ x = TaskCards /\ OldTaskCards \in objects'
                  \/ x = TaskReceipts /\ OldTaskReceipts \in objects'
  <2> DEFINE c == [new |-> TaskCards, old |-> OldTaskCards, aside |-> 1, copied |-> 4,
                   dropped |-> 8]
             e == [new |-> TaskReceipts, old |-> OldTaskReceipts, aside |-> 2,
                   copied |-> 6, dropped |-> 9]
  <2>1. /\ c.new = TaskCards /\ c.old = OldTaskCards
        /\ e.new = TaskReceipts /\ e.old = OldTaskReceipts
    OBVIOUS
  <2>2. Pairs = {c, e}
    BY DEF Pairs
  <2> HIDE DEF c, e
  <2>3. \A S, x : x \in {r.new : r \in {s \in Pairs : s.old \in S}} <=>
                  (x = c.new /\ c.old \in S) \/ (x = e.new /\ e.old \in S)
    BY <2>2
  <2> QED BY <2>1, <2>3
<1> QED BY <1>1 DEF Standing, Old

\* What stands goes on standing while nothing but a table of a pair goes, and each
\* pair keeps one of its two.
LEMMA StandingGrows ==
    ASSUME objects \ Retention \subseteq objects',
           \A r \in Pairs : r.new \in objects \/ r.old \in objects
                            => r.new \in objects' \/ r.old \in objects'
    PROVE  Standing \subseteq Standing'
<1> SUFFICES ASSUME NEW t \in Standing PROVE t \in Standing'
  OBVIOUS
<1>1. /\ Retention = {r.new : r \in Pairs} \cup {r.old : r \in Pairs}
      /\ Old = {r.old : r \in Pairs}
      /\ \A r, s \in Pairs : r.new # s.old
  BY PairFacts DEF Old, Pairs, TaskCards, TaskReceipts, OldTaskCards, OldTaskReceipts
<1>2. CASE \E r \in Pairs : t = r.new
  <2>1. PICK r \in Pairs : t = r.new
    BY <1>2
  <2>2. r.new \in objects \/ r.old \in objects
    <3>1. \A s \in Pairs : s.new = r.new => s.old = r.old
      BY PairFacts
    <3> QED BY <2>1, <3>1, StandingIs
  <2> QED BY <1>1, <2>1, <2>2, StandingIs
<1>3. CASE ~\E r \in Pairs : t = r.new
  BY <1>1, <1>3, StandingIs
<1> QED BY <1>2, <1>3

\* What a version makes is among the names, and none of it is an old table.
LEMMA MadeApart ==
    ASSUME NEW v \in 1 .. Newest
    PROVE  ObjectsOf(v) \subseteq Names /\ ObjectsOf(v) \cap Old = {}
<1>1. ObjectsOf(v) \subseteq Names
  <2> HIDE DEF Names
  <2> QED BY MadeIs
<1> QED BY <1>1, OldIsApart

\* The first version that is due is not before v, and all between are recorded.
LEMMA FirstDueIs ==
    ASSUME NEW applied, NEW v \in 1 .. Newest + 1, NEW u, u = FirstDue(applied, v)
    PROVE  /\ u \in v .. Newest + 1
           /\ u \in 1 .. Newest => 1 \in 1 .. Len(Upgrade(applied, u))
           /\ \A w \in v .. u - 1 : w \in applied
<1> DEFINE T == {w \in v .. Newest : Upgrade(applied, w) # <<>>} \cup {Newest + 1}
<1>0. Newest = 18
  BY DEF Newest
<1>1. T \in SUBSET Nat /\ T # {}
  BY <1>0
<1>2. \E x \in T : \A y \in T : x <= y
  <2> HIDE DEF T
  <2> QED BY <1>1, LeastElement
<1>3. u \in T /\ \A y \in T : u <= y
  <2>1. u = CHOOSE x \in T : \A y \in T : x =< y
    BY DEF FirstDue, Min
  <2> HIDE DEF T
  <2> QED BY <1>2, <2>1
<1>4. u \in v .. Newest + 1
  BY <1>0, <1>3
<1>5. ASSUME u \in 1 .. Newest PROVE 1 \in 1 .. Len(Upgrade(applied, u))
  <2>1. Upgrade(applied, u) # <<>>
    BY <1>0, <1>3, <1>5
  <2>2. Upgrade(applied, u) \in Seq(AnyStatement)
    BY <1>5, UpgradeIs
  <2>3. Len(Upgrade(applied, u)) \in Nat \ {0}
    BY <2>1, <2>2, EmptySeq
  <2> QED BY <2>3
<1>6. ASSUME NEW w \in v .. u - 1 PROVE w \in applied
  <2>1. w \in 1 .. Newest /\ w < u /\ w \in v .. Newest
    BY <1>0, <1>4
  <2>2. w \notin T
    <3> HIDE DEF T
    <3> QED BY <2>1, <1>0, <1>1, <1>3, <1>4
  <2>3. Upgrade(applied, w) = <<>>
    BY <2>1, <2>2
  <2>4. Len(<<>>) = 0
    OBVIOUS
  <2>5. w \notin applied => Len(Upgrade(applied, w)) = Len(Body(w)) + 1
    BY <2>1, UpgradeIs
  <2>6. Len(Body(w)) \in Nat
    BY <2>1, BodyIs, LenProperties
  <2>7. w \notin applied => 0 = Len(Body(w)) + 1
    BY <2>3, <2>4, <2>5
  <2> QED BY <2>6, <2>7
<1> QED BY <1>4, <1>5, <1>6

\* One statement further.
LEMMA FurtherIs ==
    ASSUME NEW o \in Place, o.version \in 1 .. Newest,
           o.at \in 1 .. Len(Upgrade(o.applied, o.version)),
           NEW n, n = Further(o)
    PROVE  /\ n \in Place /\ n.applied = o.applied /\ n.found = o.found
           /\ \/ /\ o.at < Len(Upgrade(o.applied, o.version))
                 /\ n.version = o.version /\ n.at = o.at + 1
              \/ /\ o.at = Len(Upgrade(o.applied, o.version))
                 /\ n.version \in o.version + 1 .. Newest + 1 /\ n.at = 1
                 /\ n.version \in 1 .. Newest =>
                        1 \in 1 .. Len(Upgrade(o.applied, n.version))
                 /\ \A w \in o.version + 1 .. n.version - 1 : w \in o.applied
<1>0. Newest = 18
  BY DEF Newest
<1>1. PICK k : k = Len(Upgrade(o.applied, o.version))
  OBVIOUS
<1>2. k \in Nat /\ o.at \in 1 .. k
  <2>1. Upgrade(o.applied, o.version) \in Seq(AnyStatement)
    BY UpgradeIs
  <2> QED BY <1>1, <2>1, LenProperties
<1>3. CASE o.at < k
  <2>1. n = [o EXCEPT !.at = @ + 1]
    BY <1>1, <1>3 DEF Further
  <2>2. n = [applied |-> o.applied, version |-> o.version, at |-> o.at + 1, found |-> o.found]
    BY <2>1 DEF Place
  <2> QED BY <1>1, <1>2, <1>3, <2>2 DEF Place
<1>4. CASE ~(o.at < k)
  <2>1. PICK u : u = FirstDue(o.applied, o.version + 1)
    OBVIOUS
  <2>2. n = [o EXCEPT !.version = u, !.at = 1]
    BY <1>1, <1>4, <2>1 DEF Further
  <2>3. n = [applied |-> o.applied, version |-> u, at |-> 1, found |-> o.found]
    BY <2>2 DEF Place
  <2>4. o.version + 1 \in 1 .. Newest + 1
    <3>1. PICK w : w = o.version
      OBVIOUS
    <3>2. w \in 1 .. Newest
      BY <3>1
    <3>3. w + 1 \in 1 .. Newest + 1
      BY <1>0, <3>2
    <3> QED BY <3>1, <3>3
  <2>5. /\ u \in o.version + 1 .. Newest + 1
        /\ u \in 1 .. Newest => 1 \in 1 .. Len(Upgrade(o.applied, u))
        /\ \A w \in o.version + 1 .. u - 1 : w \in o.applied
    BY <2>1, <2>4, FirstDueIs
  <2>6. u \in 0 .. Newest + 1 /\ o.at = k
    <3>1. u \in 0 .. Newest + 1
      <4>1. PICK w : w = o.version
        OBVIOUS
      <4>2. w \in 1 .. Newest /\ u \in w + 1 .. Newest + 1
        BY <2>5, <4>1
      <4> QED BY <1>0, <4>2
    <3>2. o.at = k
      BY <1>2, <1>4
    <3> QED BY <3>1, <3>2
  <2>7. n \in Place
    BY <2>3, <2>6 DEF Place
  <2> QED BY <1>1, <2>3, <2>5, <2>6, <2>7
<1> QED BY <1>3, <1>4

\* Where one statement further is, whatever is found on the way.
MovesTo(o, n) ==
    /\ n.applied = o.applied
    /\ \/ /\ o.at < Len(Upgrade(o.applied, o.version))
          /\ n.version = o.version /\ n.at = o.at + 1
       \/ /\ o.at = Len(Upgrade(o.applied, o.version))
          /\ n.version \in o.version + 1 .. Newest + 1 /\ n.at = 1
          /\ n.version \in 1 .. Newest => 1 \in 1 .. Len(Upgrade(o.applied, n.version))
          /\ \A w \in o.version + 1 .. n.version - 1 : w \in o.applied

\* A place stays good while the schema grows.
LEMMA PlaceStays ==
    ASSUME NEW o, PlaceOK(o), recorded \subseteq recorded', Standing \subseteq Standing'
    PROVE  PlaceOK(o)'
BY DEF PlaceOK

\* One statement further, when what was to be made is made and what was to be
\* recorded is recorded.
LEMMA PlaceMoves ==
    ASSUME NEW o \in Place, PlaceOK(o), o.version \in 1 .. Newest,
           NEW n \in Place, MovesTo(o, n),
           NEW st, st = Upgrade(o.applied, o.version)[o.at],
           recorded \subseteq recorded', Standing \subseteq Standing',
           st.op \in Making => st.on \in Standing',
           st.op = "record" => st.on \in recorded'
    PROVE  PlaceOK(n)'
<1>0. Newest = 18
  BY DEF Newest
<1>1. PICK v, a, i, k : v = o.version /\ a = o.applied /\ i = o.at /\ k = Len(Upgrade(a, v))
  OBVIOUS
<1>2. v \in 1 .. Newest /\ i \in 1 .. k /\ a \subseteq recorded /\ 1 .. v - 1 \subseteq recorded
  BY <1>1 DEF PlaceOK
<1>3. \A j \in 1 .. i - 1 :
        Upgrade(a, v)[j].op \in Making => Upgrade(a, v)[j].on \in Standing
  BY <1>1 DEF PlaceOK
<1>4. k \in Nat
  <2>1. Upgrade(a, v) \in Seq(AnyStatement)
    BY <1>2, UpgradeIs
  <2> QED BY <1>1, <2>1, LenProperties
<1>5. st = Upgrade(a, v)[i] /\ n.applied = a
  BY <1>1 DEF MovesTo
<1>6. CASE i < k /\ n.version = v /\ n.at = i + 1
  <2>1. i + 1 \in 1 .. k
    BY <1>2, <1>4, <1>6
  <2>2. \A j \in 1 .. i :
          Upgrade(a, v)[j].op \in Making => Upgrade(a, v)[j].on \in Standing'
    <3> TAKE j \in 1 .. i
    <3>1. CASE j = i
      BY <3>1, <1>5
    <3>2. CASE j # i
      <4>1. j \in 1 .. i - 1
        BY <3>2, <1>2, <1>4
      <4> QED BY <4>1, <1>3
    <3> QED BY <3>1, <3>2
  <2>3. n.at - 1 = i
    BY <1>2, <1>4, <1>6
  <2>4. n.at \in 1 .. Len(Upgrade(a, v))
    BY <2>1, <1>1, <1>6
  <2>5. a \subseteq recorded' /\ 1 .. v - 1 \subseteq recorded'
    BY <1>2
  <2> QED BY <2>2, <2>3, <2>4, <2>5, <1>5, <1>6 DEF PlaceOK
<1>7. CASE /\ i = k /\ n.version \in v + 1 .. Newest + 1 /\ n.at = 1
           /\ n.version \in 1 .. Newest => 1 \in 1 .. Len(Upgrade(a, n.version))
           /\ \A w \in v + 1 .. n.version - 1 : w \in a
  <2>1. v \in recorded'
    <3>1. i \in 1 .. Len(Upgrade(a, v)) /\ i = Len(Upgrade(a, v))
      BY <1>1, <1>2, <1>7
    <3>2. v \in a \/ (st.op = "record" /\ st.on = v)
      <4>1. /\ st.op = "record" => st.on = v
            /\ i = Len(Upgrade(a, v)) /\ v \notin a => st.op = "record"
        BY <3>1, <1>2, <1>5, StatementIs
      <4> QED BY <4>1, <3>1, Zenon
    <3> QED BY <3>2, <1>2
  <2>2. 1 .. n.version - 1 \subseteq recorded'
    <3> SUFFICES ASSUME NEW w \in 1 .. n.version - 1
                 PROVE  w \in recorded'
      OBVIOUS
    <3>1. w \in 1 .. v - 1 \/ w = v \/ w \in v + 1 .. n.version - 1
      BY <1>0, <1>2, <1>7
    <3> QED BY <3>1, <2>1, <1>2, <1>7
  <2>3. 1 .. n.at - 1 = {}
    BY <1>7
  <2> QED BY <2>2, <2>3, <1>2, <1>5, <1>7 DEF PlaceOK
<1> QED BY <1>1, <1>6, <1>7 DEF MovesTo

\* Who has a table aside had it aside before, but for the statement that does it.
LEMMA AsideMoves ==
    ASSUME NEW o \in Place, PlaceOK(o), o.version \in 1 .. Newest,
           NEW n \in Place, MovesTo(o, n),
           NEW st, st = Upgrade(o.applied, o.version)[o.at],
           NEW r \in Pairs, Aside(n, r)
    PROVE  \/ /\ st.op = "rename" /\ st.on = r.new /\ st.to = r.old
              /\ n.at < r.copied
           \/ /\ Aside(o, r)
              /\ n.at > r.copied =>
                    \/ o.at > r.copied
                    \/ st.op = "copy" /\ st.on = r.old /\ st.to = r.new
<1>1. PICK i, k : i = o.at /\ k = Len(Upgrade(o.applied, o.version))
  OBVIOUS
<1>2. PICK a, c, d : a = r.aside /\ c = r.copied /\ d = r.dropped
  OBVIOUS
<1>3. a \in 1 .. 2 /\ c \in 4 .. 6 /\ d \in 8 .. 9
  BY <1>2, PairFacts
<1>4. i \in 1 .. k /\ i \in Nat
  BY <1>1 DEF PlaceOK, Place
<1>5. n.version = 17 /\ n.at \in a + 1 .. d
  BY <1>2 DEF Aside
<1>6. n.at # 1
  BY <1>3, <1>5
<1>7. o.version = 17 /\ n.at = i + 1
  BY <1>1, <1>5, <1>6 DEF MovesTo
<1>8. /\ i = a => st.op = "rename"
      /\ i = c => st.op = "copy"
      /\ st.op = "rename" => \E s \in Pairs : i = s.aside /\ st.on = s.new /\ st.to = s.old
      /\ st.op = "copy" => \E s \in Pairs : i = s.copied /\ st.on = s.old /\ st.to = s.new
  BY <1>1, <1>2, <1>4, <1>7, StatementIs
<1>9. CASE i = a
  <2>1. PICK s \in Pairs : i = s.aside /\ st.on = s.new /\ st.to = s.old
    BY <1>8, <1>9
  <2>2. s = r
    BY <1>2, <1>9, <2>1, PairFacts
  <2>3. n.at < c
    BY <1>3, <1>7, <1>9
  <2> QED BY <1>2, <1>8, <1>9, <2>1, <2>2, <2>3
<1>10. CASE i # a
  <2>1. i \in a + 1 .. d
    BY <1>3, <1>4, <1>5, <1>7, <1>10
  <2>2. Aside(o, r)
    BY <1>1, <1>2, <1>7, <2>1 DEF Aside
  <2>3. CASE i = c
    <3>1. PICK s \in Pairs : i = s.copied /\ st.on = s.old /\ st.to = s.new
      BY <1>8, <2>3
    <3>2. s = r
      BY <1>2, <2>3, <3>1, PairFacts
    <3> QED BY <1>8, <2>2, <2>3, <3>1, <3>2
  <2>4. CASE i # c
    <3>1. n.at > c => i > c
      BY <1>3, <1>4, <1>7, <2>4
    <3> QED BY <1>1, <1>2, <2>2, <3>1
  <2> QED BY <2>3, <2>4
<1> QED BY <1>9, <1>10

\* Who sets a table aside has it aside, until it drops it.
LEMMA AsideStays ==
    ASSUME NEW o \in Place, PlaceOK(o), o.version \in 1 .. Newest,
           NEW n \in Place, MovesTo(o, n), NEW r \in Pairs,
           \/ Aside(o, r) /\ o.at # r.dropped
           \/ o.version = 17 /\ o.at = r.aside
    PROVE  Aside(n, r)
<1>1. PICK a, d, i, k : /\ a = r.aside /\ d = r.dropped /\ i = o.at
                        /\ k = Len(Upgrade(o.applied, o.version))
  OBVIOUS
<1>2. a \in 1 .. 2 /\ d \in 8 .. 9 /\ i \in Nat /\ i \in 1 .. k
  BY <1>1, PairFacts DEF PlaceOK, Place
<1>3. o.version = 17 /\ i \in a .. d - 1
  <2>1. CASE Aside(o, r) /\ o.at # r.dropped
    BY <1>1, <1>2, <2>1 DEF Aside
  <2>2. CASE o.version = 17 /\ o.at = r.aside
    BY <1>1, <1>2, <2>2
  <2> QED BY <2>1, <2>2
<1>4. k = 10
  <2>0. 17 \in 1 .. Newest
    BY DEF Newest
  <2>1. 17 \notin o.applied
    <3> SUFFICES ASSUME 17 \in o.applied PROVE FALSE
      OBVIOUS
    <3>1. Upgrade(o.applied, 17) = <<>>
      BY <2>0, UpgradeIs, BodyOf17
    <3>2. Len(<<>>) = 0
      OBVIOUS
    <3>3. k = 0
      BY <1>1, <1>3, <3>1, <3>2
    <3> QED BY <1>2, <3>3
  <2>2. Len(Upgrade(o.applied, 17)) = Len(Body(17)) + 1 /\ Body(17) = NewRetentionTables
    BY <2>0, <2>1, UpgradeIs, BodyOf17
  <2>3. PICK m : m = Len(NewRetentionTables)
    OBVIOUS
  <2>4. m = 9
    BY <2>3, NineStatements
  <2>5. k = m + 1
    <3>1. k = Len(Upgrade(o.applied, 17)) /\ Len(Body(17)) = m
      BY <1>1, <1>3, <2>2, <2>3
    <3> QED BY <2>2, <3>1, Zenon
  <2> QED BY <2>4, <2>5
<1>5. n.version = 17 /\ n.at = i + 1
  <2>1. i # k
    BY <1>2, <1>3, <1>4
  <2>2. o.at # Len(Upgrade(o.applied, o.version))
    BY <1>1, <2>1
  <2> QED BY <1>1, <1>3, <2>2 DEF MovesTo
<1>6. i + 1 \in a + 1 .. d
  BY <1>2, <1>3
<1> QED BY <1>1, <1>5, <1>6 DEF Aside

\* An opener goes somewhere; the schema grows, and what is recorded stays a prefix.
LEMMA SchemaGoesOn ==
    ASSUME SchemaOK, NEW p \in Opener, NEW n \in Place,
           openers' = [openers EXCEPT ![p] = n], PlaceOK(n)',
           \E m \in 0 .. Newest : recorded' = 1 .. m,
           recorded \subseteq recorded', Standing \subseteq Standing',
           objects' \subseteq Retention \cup UNION {ObjectsOf(v) : v \in 1 .. Newest},
           \A v \in recorded' \ recorded : ObjectsOf(v) \subseteq Standing',
           opens' \in 0 .. MaxOpens
    PROVE  SchemaOK'
<1>1. openers' \in [Opener -> Place]
  BY DEF SchemaOK
<1>2. \A q \in Opener : openers'[q] = IF q = p THEN n ELSE openers[q]
  BY DEF SchemaOK
<1>3. ASSUME NEW q \in Opener PROVE PlaceOK(openers[q])'
  <2>1. CASE q = p
    <3>1. openers'[q] = n
      BY <1>2, <2>1
    <3> QED BY <3>1 DEF PlaceOK
  <2>2. CASE q # p
    <3>1. PICK o : o = openers[q]
      OBVIOUS
    <3>2. PlaceOK(o)
      BY <3>1 DEF SchemaOK
    <3>3. PlaceOK(o)'
      BY <3>2, PlaceStays
    <3>4. openers'[q] = o
      BY <1>2, <2>2, <3>1
    <3> QED BY <3>3, <3>4 DEF PlaceOK
  <2> QED BY <2>1, <2>2
<1>4. \A v \in recorded' : ObjectsOf(v) \subseteq Standing'
  BY DEF SchemaOK
<1> QED BY <1>1, <1>3, <1>4 DEF SchemaOK

\* A step that leaves the rows alone, sets nothing aside and drops nothing.
LEMMA RowsStay ==
    ASSUME SchemaOK, RowsOK, NEW p \in Opener, NEW n \in Place,
           openers' = [openers EXCEPT ![p] = n], rows' = rows, objects \subseteq objects',
           kept' \in Kept, kept'.cards = kept.cards, kept'.receipts = kept.receipts,
           ~kept'.cut => ~kept.cut,
           \A r \in Pairs : Aside(n, r) =>
                /\ Aside(openers[p], r)
                /\ n.at > r.copied => openers[p].at > r.copied,
           \A r \in Pairs : Aside(openers[p], r) => kept'.cut \/ Aside(n, r),
           \A r \in Pairs : r.old \in objects' => r.old \in objects
    PROVE  RowsOK'
<1>1. \A q \in Opener : openers'[q] = IF q = p THEN n ELSE openers[q]
  BY DEF SchemaOK
<1>2. \A q \in Opener, r \in Pairs : Aside(openers'[q], r) =>
        /\ Aside(openers[q], r)
        /\ openers'[q].at > r.copied => openers[q].at > r.copied
  BY <1>1
<1>3. ASSUME NEW q \in Opener, NEW r \in Pairs PROVE AsideOK(openers[q], r)'
  BY <1>2 DEF RowsOK, AsideOK, Aside
<1>4. \A r \in Pairs : \A q, u \in Opener :
        Aside(openers'[q], r) /\ Aside(openers'[u], r) => q = u
  BY <1>2 DEF RowsOK
<1>5. \A r \in Pairs : (rows[r.new] \cup rows[r.old] = KeptOf(r))'
  BY DEF RowsOK, KeptOf
<1>6. \A t \in Retention \ objects' : rows'[t] = {}
  BY DEF RowsOK
<1>7. /\ rows' \in [Retention -> SUBSET (TaskRow \cup Nat)]
      /\ \E m \in 0 .. MaxSweeps : kept'.receipts = 1 .. m
  BY DEF RowsOK
<1>8. ASSUME NEW r \in Pairs, ~kept'.cut, r.old \in objects'
      PROVE  \E q \in Opener : Aside(openers'[q], r)
  <2>1. PICK q \in Opener : Aside(openers[q], r)
    BY <1>8 DEF RowsOK, InHand
  <2>2. Aside(openers'[q], r)
    BY <1>1, <1>8, <2>1
  <2> QED BY <2>2
<1> HIDE DEF RowsOK
<1> QED BY <1>3, <1>4, <1>5, <1>6, <1>7, <1>8 DEF RowsOK, Aside, InHand

\* The statement an opener is at.
LEMMA AtStatement ==
    ASSUME SchemaOK, NEW p \in Opener, Opening(p),
           NEW o, o = openers[p], NEW st, st = Now(p)
    PROVE  /\ o \in Place /\ PlaceOK(o) /\ o.version \in 1 .. Newest
           /\ o.at \in 1 .. Len(Upgrade(o.applied, o.version))
           /\ st = Upgrade(o.applied, o.version)[o.at]
           /\ Further(o) \in Place /\ MovesTo(o, Further(o))
           /\ st.op \in Making => st.on \in ObjectsOf(o.version)
<1>1. o \in Place /\ PlaceOK(o) /\ o.version \in 1 .. Newest
  BY DEF SchemaOK, Opening
<1>2. o.at \in 1 .. Len(Upgrade(o.applied, o.version))
  BY <1>1 DEF PlaceOK
<1>3. st = Upgrade(o.applied, o.version)[o.at]
  BY DEF Now
<1>4. PICK n : n = Further(o)
  OBVIOUS
<1>5. n \in Place /\ MovesTo(o, n)
  <2>1. /\ n \in Place /\ n.applied = o.applied /\ n.found = o.found
        /\ \/ /\ o.at < Len(Upgrade(o.applied, o.version))
              /\ n.version = o.version /\ n.at = o.at + 1
           \/ /\ o.at = Len(Upgrade(o.applied, o.version))
              /\ n.version \in o.version + 1 .. Newest + 1 /\ n.at = 1
              /\ n.version \in 1 .. Newest =>
                     1 \in 1 .. Len(Upgrade(o.applied, n.version))
              /\ \A w \in o.version + 1 .. n.version - 1 : w \in o.applied
    BY <1>1, <1>2, <1>4, FurtherIs
  <2> QED BY <2>1 DEF MovesTo
<1>6. st.op \in Making => st.on \in ObjectsOf(o.version)
  BY <1>1, <1>2, <1>3, StatementIs
<1> QED BY <1>1, <1>2, <1>3, <1>4, <1>5, <1>6

\* A statement that leaves the rows alone.
LEMMA PlainStep ==
    ASSUME SchemaIInv, NEW p \in Opener, Opening(p),
           NEW n \in Place, MovesTo(openers[p], n),
           openers' = [openers EXCEPT ![p] = n],
           NEW st, st = Now(p), st.op \notin {"rename", "copy", "drop"},
           st.op \in Making => st.on \in objects',
           st.op = "record" => st.on \in recorded',
           \E m \in 0 .. Newest : recorded' = 1 .. m,
           recorded \subseteq recorded', objects \subseteq objects',
           objects' \cap Old \subseteq objects,
           objects' \subseteq Retention \cup UNION {ObjectsOf(v) : v \in 1 .. Newest},
           \A v \in recorded' \ recorded : ObjectsOf(v) \subseteq Standing',
           opens' = opens, rows' = rows, kept' = kept
    PROVE  SchemaIInv'
<1>1. SchemaOK /\ RowsOK
  BY DEF SchemaIInv
<1>2. PICK o : o = openers[p]
  OBVIOUS
<1>3. /\ o \in Place /\ PlaceOK(o) /\ o.version \in 1 .. Newest
      /\ o.at \in 1 .. Len(Upgrade(o.applied, o.version))
      /\ st = Upgrade(o.applied, o.version)[o.at] /\ MovesTo(o, n)
      /\ st.op \in Making => st.on \in ObjectsOf(o.version)
  BY <1>1, <1>2, AtStatement
<1>4. Standing \subseteq Standing'
  BY StandingGrows
<1>5. st.op \in Making => st.on \in Standing'
  BY <1>3, MadeApart, StandingIs
<1>6. PlaceOK(n)'
  BY <1>3, <1>4, <1>5, PlaceMoves
<1>7. opens' \in 0 .. MaxOpens
  BY <1>1 DEF SchemaOK
<1>8. SchemaOK'
  BY <1>1, <1>4, <1>6, <1>7, SchemaGoesOn
<1>9. ASSUME NEW r \in Pairs
      PROVE  /\ Aside(n, r) => Aside(o, r) /\ (n.at > r.copied => o.at > r.copied)
             /\ Aside(o, r) => Aside(n, r)
             /\ r.old \in objects' => r.old \in objects
  <2>1. Aside(n, r) => Aside(o, r) /\ (n.at > r.copied => o.at > r.copied)
    BY <1>3, AsideMoves
  <2>2. ASSUME Aside(o, r) PROVE Aside(n, r)
    <3>1. o.version = 17
      BY <2>2 DEF Aside
    <3>2. o.at # r.dropped
      BY <1>3, <3>1, StatementIs
    <3> QED BY <1>3, <2>2, <3>2, AsideStays
  <2>3. r.old \in objects' => r.old \in objects
    BY PairFacts
  <2> QED BY <2>1, <2>2, <2>3
<1>10. kept' \in Kept /\ kept'.cards = kept.cards /\ kept'.receipts = kept.receipts
       /\ (~kept'.cut => ~kept.cut)
  BY <1>1 DEF RowsOK
<1>11. RowsOK'
  BY <1>1, <1>2, <1>9, <1>10, RowsStay
<1> QED BY <1>8, <1>11 DEF SchemaIInv

\* What comes behind another sequence.
LEMMA Behind ==
    ASSUME NEW S, NEW a \in Seq(S), NEW b \in Seq(S), NEW m \in Nat, m = Len(a),
           NEW i \in 1 .. Len(b)
    PROVE  a \o b \in Seq(S) /\ Len(a \o b) = m + Len(b) /\ (a \o b)[m + i] = b[i]
<1>1. Len(b) \in Nat
  OBVIOUS
<1>2. m + i \in 1 .. m + Len(b) /\ ~(m + i <= m) /\ (m + i) - m = i
  BY <1>1
<1> QED BY <1>1, <1>2, ConcatProperties

\* The columns a table is made with belong to versions of their own.
LEMMA ColumnsOf ==
    /\ "outbox.delivery_version" \in ObjectsOf(6)
    /\ "decision_resolution_receipts.workline_id" \in ObjectsOf(7)
    /\ "decision_resolution_receipts.intent_fingerprint" \in ObjectsOf(7)
    /\ DeliveryColumn[2].on = "outbox.delivery_version"
    /\ BindingColumns[2].on = "decision_resolution_receipts.workline_id"
    /\ BindingColumns[3].on = "decision_resolution_receipts.intent_fingerprint"
<1> DEFINE first == <<Statement("look", "", "")>>
           two == <<"decision_resolution_receipts.workline_id",
                    "decision_resolution_receipts.intent_fingerprint">>
           one == <<"outbox.delivery_version">>
<1>1. first \in Seq(Plain) /\ Len(first) = 1
  <2>1. Statement("look", "", "") \in Plain
    BY DEF Statement, Plain, Names
  <2>2. \A st \in Plain : <<st>> \in Seq(Plain) /\ Len(<<st>>) = 1
    OBVIOUS
  <2> QED BY <2>1, <2>2, Zenon
<1>2. /\ one \in Seq(Names) /\ Len(one) = 1 /\ one[1] = "outbox.delivery_version"
      /\ two \in Seq(Names) /\ Len(two) = 2
      /\ two[1] = "decision_resolution_receipts.workline_id"
      /\ two[2] = "decision_resolution_receipts.intent_fingerprint"
  <2>1. /\ "outbox.delivery_version" \in Names
        /\ "decision_resolution_receipts.workline_id" \in Names
        /\ "decision_resolution_receipts.intent_fingerprint" \in Names
    BY DEF Names
  <2> QED BY <2>1
<1> HIDE DEF first, one, two
<1>3. PICK e1, e2 : e1 = Each("alter", one) /\ e2 = Each("alter", two)
  OBVIOUS
<1>4. /\ e1 \in Seq(Plain) /\ Len(e1) = 1 /\ e1[1] = Statement("alter", one[1], "")
      /\ e2 \in Seq(Plain) /\ Len(e2) = 2
      /\ e2[1] = Statement("alter", two[1], "") /\ e2[2] = Statement("alter", two[2], "")
  <2>1. 1 \in 1 .. Len(one) /\ 1 \in 1 .. Len(two) /\ 2 \in 1 .. Len(two) /\ "alter" \in Making
    BY <1>2 DEF Making
  <2> QED BY <2>1, <1>2, <1>3, EachIsPlain
<1>5. DeliveryColumn = first \o e1 /\ BindingColumns = first \o e2
  BY <1>3, Zenon DEF DeliveryColumn, BindingColumns, AddColumns, first, one, two
<1>6. PICK d, b : d = DeliveryColumn /\ b = BindingColumns
  OBVIOUS
<1>7. /\ d \in Seq(Plain) /\ Len(d) = 2 /\ d[2] = e1[1]
      /\ b \in Seq(Plain) /\ Len(b) = 3 /\ b[2] = e2[1] /\ b[3] = e2[2]
  <2>1. PICK m, n1, n2 : m = Len(first) /\ n1 = Len(e1) /\ n2 = Len(e2)
    OBVIOUS
  <2>2. m = 1 /\ n1 = 1 /\ n2 = 2
    BY <2>1, <1>1, <1>4, Zenon
  <2>3. 1 \in 1 .. n1 /\ 1 \in 1 .. n2 /\ 2 \in 1 .. n2 /\ m \in Nat
    BY <2>2
  <2>4. first \in Seq(Plain) /\ e1 \in Seq(Plain) /\ e2 \in Seq(Plain)
    BY <1>1, <1>4
  <2>5. d \in Seq(Plain) /\ Len(d) = m + n1 /\ d[m + 1] = e1[1]
    <3>1. first \o e1 \in Seq(Plain) /\ Len(first \o e1) = m + n1 /\ (first \o e1)[m + 1] = e1[1]
      BY <2>1, <2>3, <2>4, Behind
    <3> QED BY <3>1, <1>5, <1>6, Zenon
  <2>6. b \in Seq(Plain) /\ Len(b) = m + n2 /\ b[m + 1] = e2[1] /\ b[m + 2] = e2[2]
    <3>1. first \o e2 \in Seq(Plain) /\ Len(first \o e2) = m + n2 /\ (first \o e2)[m + 1] = e2[1]
      BY <2>1, <2>3, <2>4, Behind
    <3>2. (first \o e2)[m + 2] = e2[2]
      BY <2>1, <2>3, <2>4, Behind
    <3> QED BY <3>1, <3>2, <1>5, <1>6, Zenon
  <2> QED BY <2>2, <2>5, <2>6
<1>8. /\ d[2].op = "alter" /\ d[2].on = "outbox.delivery_version"
      /\ b[2].op = "alter" /\ b[2].on = "decision_resolution_receipts.workline_id"
      /\ b[3].op = "alter" /\ b[3].on = "decision_resolution_receipts.intent_fingerprint"
  <2>1. \A x : Statement("alter", x, "").op = "alter" /\ Statement("alter", x, "").on = x
    BY DEF Statement
  <2>2. /\ d[2] = Statement("alter", "outbox.delivery_version", "")
        /\ b[2] = Statement("alter", "decision_resolution_receipts.workline_id", "")
        /\ b[3] = Statement("alter", "decision_resolution_receipts.intent_fingerprint", "")
    BY <1>2, <1>4, <1>7, Zenon
  <2> QED BY <2>1, <2>2, Zenon
<1>9. ASSUME NEW v \in {6, 7}, NEW i \in 1 .. Len(EveryTime(v)), EveryTime(v)[i].op = "alter"
      PROVE  EveryTime(v)[i].on \in ObjectsOf(v)
  <2>1. v \in 1 .. Newest /\ v # 17
    BY DEF Newest
  <2>2. PICK e, s : e = EveryTime(v) /\ s = ScriptOf[v]
    OBVIOUS
  <2>3. e \in Seq(Plain) /\ s \in Seq(Plain) /\ Body(v) = e \o s
    BY <2>1, <2>2, BodyIsPlain DEF Body
  <2>4. i \in 1 .. Len(e \o s) /\ (e \o s)[i] = e[i]
    <3>1. Len(e) \in Nat /\ Len(s) \in Nat
      BY <2>3
    <3>2. i \in 1 .. Len(e) + Len(s) /\ i <= Len(e)
      BY <2>2, <3>1
    <3> QED BY <2>3, <3>1, <3>2, ConcatProperties
  <2>5. e[i] \in Plain
    BY <2>2, <2>3, <1>9, ElementOfSeq
  <2>6. e[i].on \in Names
    <3> HIDE DEF Names
    <3> QED BY <2>5 DEF Plain
  <2>7. "alter" \in Making
    BY DEF Making
  <2> HIDE DEF Names
  <2> QED BY <2>1, <2>2, <2>3, <2>4, <2>6, <2>7, <1>9, MadeIs
<1>10. EveryTime(6) = d /\ EveryTime(7) = b
  BY <1>6 DEF EveryTime
<1>11. "outbox.delivery_version" \in ObjectsOf(6)
  BY <1>7, <1>8, <1>9, <1>10
<1>12. /\ "decision_resolution_receipts.workline_id" \in ObjectsOf(7)
       /\ "decision_resolution_receipts.intent_fingerprint" \in ObjectsOf(7)
  BY <1>7, <1>8, <1>9, <1>10
<1> QED BY <1>6, <1>8, <1>11, <1>12

\* A table is made with columns some version is to make.
LEMMA ColumnsAreKnown ==
    ASSUME NEW v \in 1 .. Newest, NEW t \in ObjectsOf(v)
    PROVE  WithColumns(t) \subseteq UNION {ObjectsOf(u) : u \in 1 .. Newest}
<1>1. 6 \in 1 .. Newest /\ 7 \in 1 .. Newest
  BY DEF Newest
<1>2. WithColumns(t) \subseteq {t} \cup ObjectsOf(6) \cup ObjectsOf(7)
  <2>1. CASE t = "outbox"
    BY <2>1, ColumnsOf DEF WithColumns
  <2>2. CASE t = "decision_resolution_receipts"
    BY <2>2, ColumnsOf DEF WithColumns
  <2>3. CASE t # "outbox" /\ t # "decision_resolution_receipts"
    BY <2>3 DEF WithColumns
  <2> QED BY <2>1, <2>2, <2>3
<1> QED BY <1>1, <1>2

\* A table is made.
LEMMA TableMade ==
    ASSUME SchemaIInv, NEW p \in Opener, MakeTable(p)
    PROVE  SchemaIInv'
<1>1. SchemaOK /\ RowsOK /\ Opening(p)
  BY DEF SchemaIInv, MakeTable, IsAt
<1>2. PICK st, o, n : st = Now(p) /\ o = openers[p] /\ n = Further(o)
  OBVIOUS
<1>3. o.version \in 1 .. Newest /\ n \in Place /\ MovesTo(o, n)
      /\ (st.op \in Making => st.on \in ObjectsOf(o.version))
  BY <1>1, <1>2, AtStatement
<1>4. st.op \in {"create", "ensure"} /\ st.op \in Making
  BY <1>2 DEF MakeTable, IsAt, Making
<1>5. openers' = [openers EXCEPT ![p] = n]
  BY <1>2 DEF MakeTable, Proceed
<1>6. objects' = objects \cup (IF st.on \in objects THEN {} ELSE WithColumns(st.on))
  BY <1>2 DEF MakeTable
<1>7. objects' \subseteq Retention \cup UNION {ObjectsOf(v) : v \in 1 .. Newest}
  <2>1. objects \subseteq Retention \cup UNION {ObjectsOf(v) : v \in 1 .. Newest}
    BY <1>1 DEF SchemaOK
  <2>2. WithColumns(st.on) \subseteq UNION {ObjectsOf(v) : v \in 1 .. Newest}
    BY <1>3, <1>4, ColumnsAreKnown
  <2> QED BY <2>1, <2>2, <1>6
<1>8. st.on \in objects'
  BY <1>6 DEF WithColumns
<1>9. recorded' = recorded /\ rows' = rows /\ kept' = kept /\ opens' = opens
  BY DEF MakeTable
<1>10. \E m \in 0 .. Newest : recorded' = 1 .. m
  BY <1>1, <1>9 DEF SchemaOK
<1>11. st.op \notin {"rename", "copy", "drop"} /\ st.op # "record"
  BY <1>4
<1>12. objects \subseteq objects' /\ objects' \cap Old \subseteq objects
  <2>1. WithColumns(st.on) \cap Old = {}
    BY <1>3, <1>4, ColumnsAreKnown, MadeApart
  <2> QED BY <1>6, <2>1
<1>13. MovesTo(openers[p], n)
  BY <1>2, <1>3
<1>14. recorded \subseteq recorded' /\ recorded' \ recorded = {}
  BY <1>9
<1> QED BY <1>1, <1>2, <1>3, <1>5, <1>7, <1>8, <1>9, <1>10, <1>11, <1>12, <1>13, <1>14, PlainStep

\* The columns of a table are looked for.
LEMMA ColumnsLooked ==
    ASSUME SchemaIInv, NEW p \in Opener, LookForColumns(p)
    PROVE  SchemaIInv'
<1>1. SchemaOK /\ RowsOK /\ Opening(p)
  BY DEF SchemaIInv, LookForColumns, IsAt
<1>2. PICK st, o, f, n : /\ st = Now(p) /\ o = openers[p] /\ f = Further(o)
                         /\ n = [f EXCEPT !.found = objects \cap LateColumns]
  OBVIOUS
<1>3. f \in Place /\ MovesTo(o, f)
  BY <1>1, <1>2, AtStatement
<1>4. n = [applied |-> f.applied, version |-> f.version, at |-> f.at,
           found |-> objects \cap LateColumns]
  BY <1>2, <1>3 DEF Place
<1>5. n \in Place
  <2>1. objects \cap LateColumns \in SUBSET LateColumns
    OBVIOUS
  <2> HIDE DEF LateColumns
  <2> QED BY <1>3, <1>4, <2>1 DEF Place
<1>6. n.applied = f.applied /\ n.version = f.version /\ n.at = f.at
  BY <1>4
<1>7. MovesTo(openers[p], n)
  BY <1>2, <1>3, <1>6 DEF MovesTo
<1>8. openers' = [openers EXCEPT ![p] = n]
  BY <1>2 DEF LookForColumns
<1>9. st.op = "look" /\ st.op \notin Making /\ st.op \notin {"rename", "copy", "drop"}
      /\ st.op # "record"
  <2>1. st.op = "look"
    BY <1>2 DEF LookForColumns, IsAt
  <2> QED BY <2>1 DEF Making
<1>10. objects' = objects /\ recorded' = recorded /\ rows' = rows /\ kept' = kept /\ opens' = opens
  BY DEF LookForColumns
<1>11. (\E m \in 0 .. Newest : recorded' = 1 .. m)
       /\ objects' \subseteq Retention \cup UNION {ObjectsOf(v) : v \in 1 .. Newest}
  BY <1>1, <1>10 DEF SchemaOK
<1>12. recorded \subseteq recorded' /\ recorded' \ recorded = {} /\ objects \subseteq objects'
       /\ objects' \cap Old \subseteq objects
  BY <1>10
<1> QED BY <1>1, <1>2, <1>5, <1>7, <1>8, <1>9, <1>10, <1>11, <1>12, PlainStep

\* A column is added.
LEMMA ColumnAdded ==
    ASSUME SchemaIInv, NEW p \in Opener, AlterTable(p)
    PROVE  SchemaIInv'
<1>1. SchemaOK /\ RowsOK /\ Opening(p)
  BY DEF SchemaIInv, AlterTable, IsAt
<1>2. PICK st, o, n : st = Now(p) /\ o = openers[p] /\ n = Further(o)
  OBVIOUS
<1>3. o.version \in 1 .. Newest /\ n \in Place /\ MovesTo(o, n)
      /\ (st.op \in Making => st.on \in ObjectsOf(o.version))
  BY <1>1, <1>2, AtStatement
<1>4. st.op = "alter" /\ st.op \in Making
  BY <1>2 DEF AlterTable, IsAt, Making
<1>5. openers' = [openers EXCEPT ![p] = n]
  BY <1>2 DEF AlterTable, Proceed
<1>6. objects' = objects \cup {st.on}
  BY <1>2 DEF AlterTable
<1>7. objects' \subseteq Retention \cup UNION {ObjectsOf(v) : v \in 1 .. Newest}
  <2>1. objects \subseteq Retention \cup UNION {ObjectsOf(v) : v \in 1 .. Newest}
    BY <1>1 DEF SchemaOK
  <2>2. st.on \in UNION {ObjectsOf(v) : v \in 1 .. Newest}
    BY <1>3, <1>4
  <2> QED BY <2>1, <2>2, <1>6
<1>8. recorded' = recorded /\ rows' = rows /\ kept' = kept /\ opens' = opens
  BY DEF AlterTable
<1>9. \E m \in 0 .. Newest : recorded' = 1 .. m
  BY <1>1, <1>8 DEF SchemaOK
<1>10. st.op \notin {"rename", "copy", "drop"} /\ st.op # "record"
  BY <1>4
<1>11. objects \subseteq objects' /\ st.on \in objects' /\ recorded \subseteq recorded'
       /\ recorded' \ recorded = {} /\ objects' \cap Old \subseteq objects
  BY <1>3, <1>4, <1>6, <1>8, MadeApart
<1>12. MovesTo(openers[p], n)
  BY <1>2, <1>3
<1> QED BY <1>1, <1>2, <1>3, <1>5, <1>7, <1>8, <1>9, <1>10, <1>11, <1>12, PlainStep

\* A version is recorded: what it makes is there, since its script is behind the
\* opener, and it is the next, since every version before it is recorded.
LEMMA VersionRecorded ==
    ASSUME SchemaIInv, NEW p \in Opener, RecordVersion(p)
    PROVE  SchemaIInv'
<1>0. Newest = 18
  BY DEF Newest
<1>1. SchemaOK /\ RowsOK /\ Opening(p)
  BY DEF SchemaIInv, RecordVersion, IsAt
<1>2. PICK st, o, n, v : st = Now(p) /\ o = openers[p] /\ n = Further(o) /\ v = o.version
  OBVIOUS
<1>3. /\ n \in Place /\ MovesTo(o, n) /\ o \in Place /\ PlaceOK(o) /\ v \in 1 .. Newest
      /\ o.at \in 1 .. Len(Upgrade(o.applied, v)) /\ st = Upgrade(o.applied, v)[o.at]
  BY <1>1, <1>2, AtStatement
<1>4. st.op = "record" /\ st.op \notin Making /\ st.op \notin {"rename", "copy", "drop"}
  <2>1. st.op = "record"
    BY <1>2 DEF RecordVersion, IsAt
  <2> QED BY <2>1 DEF Making
<1>5. st.on = v /\ v \notin o.applied /\ o.at = Len(Upgrade(o.applied, v))
  BY <1>3, <1>4, StatementIs
<1>6. openers' = [openers EXCEPT ![p] = n]
  BY <1>2 DEF RecordVersion, Proceed
<1>7. v \notin recorded /\ recorded' = recorded \cup {v}
  BY <1>2, <1>5 DEF RecordVersion
<1>8. \E m \in 0 .. Newest : recorded' = 1 .. m
  <2>1. PICK m \in 0 .. Newest : recorded = 1 .. m
    BY <1>1 DEF SchemaOK
  <2>2. 1 .. v - 1 \subseteq recorded
    BY <1>2, <1>3 DEF PlaceOK
  <2>3. v = m + 1
    <3>1. v > m
      BY <1>3, <1>7, <2>1, <1>0
    <3>2. v - 1 <= m
      <4>1. CASE v = 1
        BY <4>1, <2>1, <1>0
      <4>2. CASE v # 1
        <5>1. v - 1 \in 1 .. v - 1
          BY <4>2, <1>3, <1>0
        <5>2. v - 1 \in 1 .. m
          BY <5>1, <2>1, <2>2
        <5> QED BY <5>2, <2>1, <1>0
      <4> QED BY <4>1, <4>2
    <3> QED BY <3>1, <3>2, <1>3, <2>1, <1>0
  <2>4. recorded' = 1 .. v
    BY <1>7, <2>1, <2>3, <1>0
  <2>5. v \in 0 .. Newest
    BY <1>3, <1>0
  <2> QED BY <2>4, <2>5, Zenon
<1>9. ObjectsOf(v) \subseteq Standing
  <2> SUFFICES ASSUME NEW x \in ObjectsOf(v) PROVE x \in Standing
    OBVIOUS
  <2>1. PICK i \in 1 .. Len(Body(v)) : Body(v)[i].op \in Making /\ Body(v)[i].on = x
    BY <1>3, MadeIs
  <2>2. Upgrade(o.applied, v)[i] = Body(v)[i] /\ Len(Upgrade(o.applied, v)) = Len(Body(v)) + 1
    BY <1>3, <1>5, UpgradeIs
  <2>3. i \in 1 .. o.at - 1
    <3>1. Len(Body(v)) \in Nat
      BY <1>3, BodyIs, LenProperties
    <3>2. PICK k : k = Len(Body(v))
      OBVIOUS
    <3>3. k \in Nat /\ o.at = k + 1 /\ i \in 1 .. k
      BY <3>1, <3>2, <1>5, <2>2
    <3> QED BY <3>3
  <2>4. Upgrade(o.applied, v)[i].on \in Standing
    BY <1>2, <1>3, <2>1, <2>2, <2>3 DEF PlaceOK
  <2> QED BY <2>1, <2>2, <2>4
<1>10. objects' = objects /\ rows' = rows /\ kept' = kept /\ opens' = opens
  BY DEF RecordVersion
<1>11. objects' \subseteq Retention \cup UNION {ObjectsOf(u) : u \in 1 .. Newest}
  BY <1>1, <1>10 DEF SchemaOK
<1>12. \A u \in recorded' \ recorded : ObjectsOf(u) \subseteq Standing'
  BY <1>7, <1>9, <1>10 DEF Standing
<1>13. MovesTo(openers[p], n)
  BY <1>2, <1>3
<1>14. recorded \subseteq recorded' /\ objects \subseteq objects' /\ st.on \in recorded'
       /\ objects' \cap Old \subseteq objects
  BY <1>5, <1>7, <1>10
<1> QED BY <1>1, <1>2, <1>3, <1>4, <1>6, <1>8, <1>10, <1>11, <1>12, <1>13, <1>14, PlainStep

\* A table is set aside: nobody else has it aside, or its old one would be there.
LEMMA TableRenamed ==
    ASSUME SchemaIInv, NEW p \in Opener, RenameTable(p)
    PROVE  SchemaIInv'
<1>1. SchemaOK /\ RowsOK /\ Opening(p)
  BY DEF SchemaIInv, RenameTable, IsAt
<1>2. PICK st, o, n : st = Now(p) /\ o = openers[p] /\ n = Further(o)
  OBVIOUS
<1>3. /\ n \in Place /\ MovesTo(o, n) /\ o \in Place /\ PlaceOK(o) /\ o.version \in 1 .. Newest
      /\ o.at \in 1 .. Len(Upgrade(o.applied, o.version))
      /\ st = Upgrade(o.applied, o.version)[o.at]
  BY <1>1, <1>2, AtStatement
<1>4. st.op = "rename"
  BY <1>2 DEF RenameTable, IsAt
<1>5. PICK r \in Pairs : /\ st.on = r.new /\ st.to = r.old
                        /\ o.version = 17 /\ o.at = r.aside
  BY <1>3, <1>4, StatementIs
<1>6. /\ r.new \in objects /\ r.old \notin objects
      /\ objects' = (objects \ {r.new}) \cup {r.old}
      /\ rows' = [rows EXCEPT ![r.old] = rows[r.new], ![r.new] = {}]
      /\ openers' = [openers EXCEPT ![p] = n]
      /\ recorded' = recorded /\ opens' = opens /\ kept' = kept
  BY <1>2, <1>5 DEF RenameTable, Proceed
<1>7. r.new \in Retention /\ r.old \in Retention /\ r.new # r.old
  BY PairFacts
<1>8. st.op \notin Making /\ st.op # "record" /\ st.op # "copy"
  BY <1>4 DEF Making
<1>9. SchemaOK'
  <2>1. Standing \subseteq Standing' /\ recorded \subseteq recorded' /\ recorded' \ recorded = {}
    <3>1. objects \ Retention \subseteq objects'
      BY <1>6, <1>7
    <3>2. \A s \in Pairs : s.new \in objects \/ s.old \in objects
                         => s.new \in objects' \/ s.old \in objects'
      BY <1>6, PairFacts
    <3> QED BY <1>6, <3>1, <3>2, StandingGrows
  <2>2. PlaceOK(n)'
    BY <1>3, <1>8, <2>1, PlaceMoves
  <2>3. objects' \subseteq Retention \cup UNION {ObjectsOf(v) : v \in 1 .. Newest}
    BY <1>1, <1>6, <1>7 DEF SchemaOK
  <2>4. (\E m \in 0 .. Newest : recorded' = 1 .. m) /\ opens' \in 0 .. MaxOpens
    BY <1>1, <1>6 DEF SchemaOK
  <2> QED BY <1>1, <1>3, <1>6, <2>1, <2>2, <2>3, <2>4, SchemaGoesOn
<1>10. \A q \in Opener : openers'[q] = IF q = p THEN n ELSE openers[q]
  BY <1>1, <1>6 DEF SchemaOK
<1>11. \A q \in Opener : ~Aside(openers[q], r)
  BY <1>1, <1>6 DEF RowsOK, AsideOK
<1>12. \A t \in Retention : rows'[t] = IF t = r.new THEN {}
                                      ELSE IF t = r.old THEN rows[r.new] ELSE rows[t]
  BY <1>1, <1>6, <1>7 DEF RowsOK
<1>13. ASSUME NEW s \in Pairs, Aside(n, s)
       PROVE  \/ s = r /\ n.at < s.copied
              \/ Aside(o, s) /\ (n.at > s.copied => o.at > s.copied)
  <2>1. \/ st.on = s.new /\ st.to = s.old /\ n.at < s.copied
        \/ Aside(o, s) /\ (n.at > s.copied => o.at > s.copied)
    BY <1>3, <1>8, <1>13, AsideMoves
  <2>2. st.on = s.new => s = r
    BY <1>5, PairFacts
  <2> QED BY <2>1, <2>2
<1>14. ASSUME NEW q \in Opener, NEW s \in Pairs, Aside(openers'[q], s)
       PROVE  \/ s = r /\ q = p /\ ~(openers'[q].at > s.copied)
              \/ /\ s # r /\ Aside(openers[q], s)
                 /\ openers'[q].at > s.copied => openers[q].at > s.copied
  <2>1. CASE q = p
    <3>1. openers'[q] = n
      BY <1>10, <2>1
    <3>2. n.at < s.copied => ~(n.at > s.copied)
      <4>1. n.at \in Nat /\ s.copied \in 4 .. 6
        BY <1>3, PairFacts DEF Place
      <4> QED BY <4>1
    <3> QED BY <1>2, <1>11, <1>13, <1>14, <2>1, <3>1, <3>2
  <2>2. CASE q # p
    <3>1. openers'[q] = openers[q]
      BY <1>10, <2>2
    <3> QED BY <1>11, <1>14, <3>1
  <2> QED BY <2>1, <2>2
<1>15. RowsOK'
  <2>1. rows' \in [Retention -> SUBSET (TaskRow \cup Nat)]
    <3>1. rows[r.new] \in SUBSET (TaskRow \cup Nat) /\ {} \in SUBSET (TaskRow \cup Nat)
      BY <1>1, <1>7 DEF RowsOK
    <3> QED BY <1>1, <1>6, <3>1 DEF RowsOK
  <2>2. \A t \in Retention \ objects' : rows'[t] = {}
    BY <1>1, <1>6, <1>12 DEF RowsOK
  <2>3. /\ kept' \in Kept
        /\ \E m \in 0 .. MaxSweeps : kept'.receipts = 1 .. m
    BY <1>1, <1>6 DEF RowsOK
  <2>4. ASSUME NEW s \in Pairs
        PROVE  rows'[s.new] \cup rows'[s.old] = KeptOf(s)
    <3>1. rows[s.new] \cup rows[s.old] = KeptOf(s) /\ rows[r.old] = {}
      BY <1>1, <1>6, <1>7 DEF RowsOK
    <3>2. CASE s = r
      BY <1>7, <1>12, <3>1, <3>2
    <3>3. CASE s # r
      <4>1. /\ s.new # r.new /\ s.new # r.old /\ s.old # r.new /\ s.old # r.old
            /\ s.new \in Retention /\ s.old \in Retention
        BY <3>3, PairFacts
      <4> QED BY <4>1, <1>12, <3>1
    <3> QED BY <3>2, <3>3
  <2>5. \A s \in Pairs : (rows[s.new] \cup rows[s.old] = KeptOf(s))'
    BY <2>4, <1>6 DEF KeptOf
  <2>6. ASSUME NEW q \in Opener, NEW s \in Pairs
        PROVE  AsideOK(openers[q], s)'
    <3> SUFFICES ASSUME Aside(openers'[q], s)
                 PROVE  /\ s.old \in objects'
                        /\ openers'[q].at > s.copied =>
                             s.new \in objects' /\ rows'[s.old] \subseteq rows'[s.new]
      BY DEF AsideOK, Aside
    <3>1. CASE s = r /\ ~(openers'[q].at > s.copied)
      BY <3>1, <1>6
    <3>2. CASE s # r /\ Aside(openers[q], s)
               /\ (openers'[q].at > s.copied => openers[q].at > s.copied)
      <4>1. /\ s.new # r.new /\ s.new # r.old /\ s.old # r.new /\ s.old # r.old
            /\ s.new \in Retention /\ s.old \in Retention
        BY <3>2, PairFacts
      <4>2. /\ s.old \in objects
            /\ openers[q].at > s.copied =>
                 s.new \in objects /\ rows[s.old] \subseteq rows[s.new]
        BY <1>1, <3>2 DEF RowsOK, AsideOK
      <4> QED BY <4>1, <4>2, <3>2, <1>6, <1>12
    <3> QED BY <1>14, <3>1, <3>2
  <2>7. \A s \in Pairs : \A q, u \in Opener :
          Aside(openers'[q], s) /\ Aside(openers'[u], s) => q = u
    BY <1>1, <1>14 DEF RowsOK
  <2>8. ASSUME NEW s \in Pairs, ~kept'.cut, s.old \in objects'
        PROVE  \E q \in Opener : Aside(openers'[q], s)
    <3>1. CASE s = r
      BY <1>3, <1>5, <1>10, <3>1, AsideStays
    <3>2. CASE s # r
      <4>1. s.old \in objects
        BY <1>6, <2>8, <3>2, PairFacts
      <4>2. PICK q \in Opener : Aside(openers[q], s)
        BY <1>1, <1>6, <2>8, <4>1 DEF RowsOK, InHand
      <4>3. Aside(o, s) => Aside(n, s)
        <5>1. o.at = s.dropped => st.op = "drop"
          BY <1>3, <1>5, StatementIs
        <5> QED BY <1>3, <1>4, <5>1, AsideStays
      <4> QED BY <1>2, <1>10, <4>2, <4>3
    <3> QED BY <3>1, <3>2
  <2> HIDE DEF Retention
  <2> QED BY <2>1, <2>2, <2>3, <2>5, <2>6, <2>7, <2>8 DEF RowsOK, Aside, InHand
<1> QED BY <1>9, <1>15 DEF SchemaIInv

\* The rows of the old table are copied.
LEMMA RowsCopied ==
    ASSUME SchemaIInv, NEW p \in Opener, CopyRows(p)
    PROVE  SchemaIInv'
<1>1. SchemaOK /\ RowsOK /\ Opening(p)
  BY DEF SchemaIInv, CopyRows, IsAt
<1>2. PICK st, o, n : st = Now(p) /\ o = openers[p] /\ n = Further(o)
  OBVIOUS
<1>3. /\ n \in Place /\ MovesTo(o, n) /\ o \in Place /\ PlaceOK(o) /\ o.version \in 1 .. Newest
      /\ o.at \in 1 .. Len(Upgrade(o.applied, o.version))
      /\ st = Upgrade(o.applied, o.version)[o.at]
  BY <1>1, <1>2, AtStatement
<1>4. st.op = "copy"
  BY <1>2 DEF CopyRows, IsAt
<1>5. PICK r \in Pairs : st.on = r.old /\ st.to = r.new
  BY <1>3, <1>4, StatementIs
<1>6. /\ rows' = [rows EXCEPT ![r.new] = @ \cup rows[r.old]]
      /\ openers' = [openers EXCEPT ![p] = n]
      /\ objects' = objects /\ recorded' = recorded /\ opens' = opens /\ kept' = kept
      /\ r.new \in objects
  BY <1>2, <1>5 DEF CopyRows, Proceed
<1>7. r.new \in Retention /\ r.old \in Retention /\ r.new # r.old
  BY PairFacts
<1>8. st.op \notin Making /\ st.op # "record" /\ st.op # "rename"
  BY <1>4 DEF Making
<1>9. SchemaOK'
  <2>1. Standing \subseteq Standing' /\ recorded \subseteq recorded' /\ recorded' \ recorded = {}
    BY <1>6 DEF Standing
  <2>2. PlaceOK(n)'
    BY <1>3, <1>8, <2>1, PlaceMoves
  <2>3. objects' \subseteq Retention \cup UNION {ObjectsOf(v) : v \in 1 .. Newest}
    BY <1>1, <1>6 DEF SchemaOK
  <2>4. (\E m \in 0 .. Newest : recorded' = 1 .. m) /\ opens' \in 0 .. MaxOpens
    BY <1>1, <1>6 DEF SchemaOK
  <2> QED BY <1>1, <1>3, <1>6, <2>1, <2>2, <2>3, <2>4, SchemaGoesOn
<1>10. \A q \in Opener : openers'[q] = IF q = p THEN n ELSE openers[q]
  BY <1>1, <1>6 DEF SchemaOK
<1>11. \A t \in Retention : rows'[t] = IF t = r.new THEN rows[t] \cup rows[r.old] ELSE rows[t]
  BY <1>1, <1>6, <1>7 DEF RowsOK
<1>12. ASSUME NEW q \in Opener, NEW s \in Pairs, Aside(openers'[q], s)
       PROVE  /\ Aside(openers[q], s)
              /\ openers'[q].at > s.copied => openers[q].at > s.copied \/ s = r
  <2>1. CASE q = p
    <3>1. Aside(n, s)
      BY <1>10, <1>12, <2>1
    <3>2. /\ Aside(o, s)
          /\ n.at > s.copied => o.at > s.copied \/ st.on = s.old
      BY <1>3, <1>8, <3>1, AsideMoves
    <3>3. st.on = s.old => s = r
      BY <1>5, PairFacts
    <3> QED BY <1>2, <1>10, <2>1, <3>2, <3>3
  <2>2. CASE q # p
    BY <1>10, <1>12, <2>2
  <2> QED BY <2>1, <2>2
<1>13. RowsOK'
  <2>1. rows' \in [Retention -> SUBSET (TaskRow \cup Nat)]
    <3>1. rows[r.new] \cup rows[r.old] \in SUBSET (TaskRow \cup Nat)
      BY <1>1, <1>7 DEF RowsOK
    <3> QED BY <1>1, <1>6, <3>1 DEF RowsOK
  <2>2. \A t \in Retention \ objects' : rows'[t] = {}
    BY <1>1, <1>6, <1>11 DEF RowsOK
  <2>3. /\ kept' \in Kept
        /\ \E m \in 0 .. MaxSweeps : kept'.receipts = 1 .. m
    BY <1>1, <1>6 DEF RowsOK
  <2>4. ASSUME NEW s \in Pairs
        PROVE  /\ rows'[s.new] \cup rows'[s.old] = KeptOf(s)
               /\ rows'[s.old] = rows[s.old] /\ rows[s.new] \subseteq rows'[s.new]
               /\ s = r => rows'[s.old] \subseteq rows'[s.new]
    <3>1. rows[s.new] \cup rows[s.old] = KeptOf(s)
      BY <1>1 DEF RowsOK
    <3>2. CASE s = r
      BY <1>7, <1>11, <3>1, <3>2
    <3>3. CASE s # r
      <4>1. s.new # r.new /\ s.old # r.new /\ s.new \in Retention /\ s.old \in Retention
        BY <3>3, PairFacts
      <4> QED BY <4>1, <1>11, <3>1, <3>3
    <3> QED BY <3>2, <3>3
  <2>5. \A s \in Pairs : (rows[s.new] \cup rows[s.old] = KeptOf(s))'
    BY <2>4, <1>6 DEF KeptOf
  <2>6. ASSUME NEW q \in Opener, NEW s \in Pairs
        PROVE  AsideOK(openers[q], s)'
    <3> SUFFICES ASSUME Aside(openers'[q], s)
                 PROVE  /\ s.old \in objects'
                        /\ openers'[q].at > s.copied =>
                             s.new \in objects' /\ rows'[s.old] \subseteq rows'[s.new]
      BY DEF AsideOK, Aside
    <3>1. /\ s.old \in objects
          /\ openers[q].at > s.copied =>
               s.new \in objects /\ rows[s.old] \subseteq rows[s.new]
      BY <1>1, <1>12 DEF RowsOK, AsideOK
    <3> QED BY <3>1, <1>6, <1>12, <2>4
  <2>7. \A s \in Pairs : \A q, u \in Opener :
          Aside(openers'[q], s) /\ Aside(openers'[u], s) => q = u
    BY <1>1, <1>12 DEF RowsOK
  <2>8. ASSUME NEW s \in Pairs, ~kept'.cut, s.old \in objects'
        PROVE  \E q \in Opener : Aside(openers'[q], s)
    <3>1. PICK q \in Opener : Aside(openers[q], s)
      BY <1>1, <1>6, <2>8 DEF RowsOK, InHand
    <3>2. Aside(o, s) => Aside(n, s)
      <4>1. Aside(o, s) /\ o.at = s.dropped => st.op = "drop"
        BY <1>3, StatementIs DEF Aside
      <4> QED BY <1>3, <1>4, <4>1, AsideStays
    <3> QED BY <1>2, <1>10, <3>1, <3>2
  <2> HIDE DEF Retention
  <2> QED BY <2>1, <2>2, <2>3, <2>5, <2>6, <2>7, <2>8 DEF RowsOK, Aside, InHand
<1> QED BY <1>9, <1>13 DEF SchemaIInv

\* An old table is dropped, by the one who has it aside and has copied its rows.
LEMMA TableDropped ==
    ASSUME SchemaIInv, NEW p \in Opener, DropTable(p)
    PROVE  SchemaIInv'
<1>1. SchemaOK /\ RowsOK /\ Opening(p)
  BY DEF SchemaIInv, DropTable, IsAt
<1>2. PICK st, o, n : st = Now(p) /\ o = openers[p] /\ n = Further(o)
  OBVIOUS
<1>3. /\ n \in Place /\ MovesTo(o, n) /\ o \in Place /\ PlaceOK(o) /\ o.version \in 1 .. Newest
      /\ o.at \in 1 .. Len(Upgrade(o.applied, o.version))
      /\ st = Upgrade(o.applied, o.version)[o.at]
  BY <1>1, <1>2, AtStatement
<1>4. st.op = "drop"
  BY <1>2 DEF DropTable, IsAt
<1>5. PICK r \in Pairs : o.at = r.dropped /\ st.on = r.old
  BY <1>3, <1>4, StatementIs
<1>6. /\ rows' = [rows EXCEPT ![r.old] = {}]
      /\ openers' = [openers EXCEPT ![p] = n]
      /\ objects' = objects \ {r.old}
      /\ recorded' = recorded /\ opens' = opens /\ kept' = kept
  BY <1>2, <1>5 DEF DropTable, Proceed
<1>7. r.new \in Retention /\ r.old \in Retention /\ r.new # r.old
  BY PairFacts
<1>8. st.op \notin Making /\ st.op # "record" /\ st.op # "rename" /\ st.op # "copy"
  BY <1>4 DEF Making
<1>9. Aside(o, r) /\ o.at > r.copied
  <2>1. o.version = 17
    BY <1>3, <1>4, StatementIs
  <2>2. PICK a, c, d : a = r.aside /\ c = r.copied /\ d = r.dropped
    OBVIOUS
  <2>3. a \in 1 .. 2 /\ c \in 4 .. 6 /\ d \in 8 .. 9
    BY <2>2, PairFacts
  <2>4. d \in a + 1 .. d /\ d > c
    BY <2>3
  <2> QED BY <1>5, <2>1, <2>2, <2>4 DEF Aside
<1>10. rows[r.old] \subseteq rows[r.new] /\ r.new \in objects
  BY <1>1, <1>2, <1>9 DEF RowsOK, AsideOK
<1>11. SchemaOK'
  <2>1. Standing \subseteq Standing' /\ recorded \subseteq recorded' /\ recorded' \ recorded = {}
    <3>1. objects \ Retention \subseteq objects'
      BY <1>6, <1>7
    <3>2. \A s \in Pairs : s.new \in objects \/ s.old \in objects
                         => s.new \in objects' \/ s.old \in objects'
      BY <1>6, <1>7, <1>10, PairFacts
    <3> QED BY <1>6, <3>1, <3>2, StandingGrows
  <2>2. PlaceOK(n)'
    BY <1>3, <1>8, <2>1, PlaceMoves
  <2>3. objects' \subseteq Retention \cup UNION {ObjectsOf(v) : v \in 1 .. Newest}
    BY <1>1, <1>6 DEF SchemaOK
  <2>4. (\E m \in 0 .. Newest : recorded' = 1 .. m) /\ opens' \in 0 .. MaxOpens
    BY <1>1, <1>6 DEF SchemaOK
  <2> QED BY <1>1, <1>3, <1>6, <2>1, <2>2, <2>3, <2>4, SchemaGoesOn
<1>12. \A q \in Opener : openers'[q] = IF q = p THEN n ELSE openers[q]
  BY <1>1, <1>6 DEF SchemaOK
<1>13. \A t \in Retention : rows'[t] = IF t = r.old THEN {} ELSE rows[t]
  BY <1>1, <1>6, <1>7 DEF RowsOK
<1>14. ~Aside(n, r)
  <2>1. PICK a, d, i : a = r.aside /\ d = r.dropped /\ i = o.at
    OBVIOUS
  <2>2. a \in 1 .. 2 /\ d \in 8 .. 9 /\ i = d
    BY <1>5, <2>1, PairFacts
  <2>3. n.at = i + 1 \/ n.at = 1
    BY <1>3, <2>1 DEF MovesTo
  <2>4. n.at \notin a + 1 .. d
    BY <2>2, <2>3
  <2> QED BY <2>1, <2>4 DEF Aside
<1>15. ASSUME NEW q \in Opener, NEW s \in Pairs, Aside(openers'[q], s)
       PROVE  /\ Aside(openers[q], s) /\ s # r
              /\ openers'[q].at > s.copied => openers[q].at > s.copied
  <2>1. CASE q = p
    <3>1. Aside(n, s)
      BY <1>12, <1>15, <2>1
    <3>2. /\ Aside(o, s)
          /\ n.at > s.copied => o.at > s.copied
      BY <1>3, <1>8, <3>1, AsideMoves
    <3> QED BY <1>2, <1>12, <1>14, <2>1, <3>1, <3>2
  <2>2. CASE q # p
    <3>1. Aside(openers[q], s) /\ openers'[q] = openers[q]
      BY <1>12, <1>15, <2>2
    <3>2. s # r
      BY <1>1, <1>2, <1>9, <2>2, <3>1 DEF RowsOK
    <3> QED BY <3>1, <3>2
  <2> QED BY <2>1, <2>2
<1>16. RowsOK'
  <2>1. rows' \in [Retention -> SUBSET (TaskRow \cup Nat)]
    BY <1>1, <1>6 DEF RowsOK
  <2>2. \A t \in Retention \ objects' : rows'[t] = {}
    BY <1>1, <1>6, <1>13 DEF RowsOK
  <2>3. /\ kept' \in Kept
        /\ \E m \in 0 .. MaxSweeps : kept'.receipts = 1 .. m
    BY <1>1, <1>6 DEF RowsOK
  <2>4. ASSUME NEW s \in Pairs
        PROVE  rows'[s.new] \cup rows'[s.old] = KeptOf(s)
    <3>1. rows[s.new] \cup rows[s.old] = KeptOf(s)
      BY <1>1 DEF RowsOK
    <3>2. CASE s = r
      BY <1>7, <1>10, <1>13, <3>1, <3>2
    <3>3. CASE s # r
      <4>1. s.new # r.old /\ s.old # r.old /\ s.new \in Retention /\ s.old \in Retention
        BY <3>3, PairFacts
      <4> QED BY <4>1, <1>13, <3>1
    <3> QED BY <3>2, <3>3
  <2>5. \A s \in Pairs : (rows[s.new] \cup rows[s.old] = KeptOf(s))'
    BY <2>4, <1>6 DEF KeptOf
  <2>6. ASSUME NEW q \in Opener, NEW s \in Pairs
        PROVE  AsideOK(openers[q], s)'
    <3> SUFFICES ASSUME Aside(openers'[q], s)
                 PROVE  /\ s.old \in objects'
                        /\ openers'[q].at > s.copied =>
                             s.new \in objects' /\ rows'[s.old] \subseteq rows'[s.new]
      BY DEF AsideOK, Aside
    <3>1. s.new # r.old /\ s.old # r.old /\ s.new \in Retention /\ s.old \in Retention
      BY <1>15, PairFacts
    <3>2. /\ s.old \in objects
          /\ openers[q].at > s.copied =>
               s.new \in objects /\ rows[s.old] \subseteq rows[s.new]
      BY <1>1, <1>15 DEF RowsOK, AsideOK
    <3> QED BY <3>1, <3>2, <1>6, <1>13, <1>15
  <2>7. \A s \in Pairs : \A q, u \in Opener :
          Aside(openers'[q], s) /\ Aside(openers'[u], s) => q = u
    BY <1>1, <1>15 DEF RowsOK
  <2>8. ASSUME NEW s \in Pairs, ~kept'.cut, s.old \in objects'
        PROVE  \E q \in Opener : Aside(openers'[q], s)
    <3>1. s # r /\ s.old \in objects
      BY <1>6, <2>8
    <3>2. PICK q \in Opener : Aside(openers[q], s)
      BY <1>1, <1>6, <2>8, <3>1 DEF RowsOK, InHand
    <3>3. Aside(o, s) => Aside(n, s)
      <4>1. o.at # s.dropped
        BY <1>5, <3>1, PairFacts
      <4> QED BY <1>3, <4>1, AsideStays
    <3> QED BY <1>2, <1>12, <3>2, <3>3
  <2> HIDE DEF Retention
  <2> QED BY <2>1, <2>2, <2>3, <2>5, <2>6, <2>7, <2>8 DEF RowsOK, Aside, InHand
<1> QED BY <1>11, <1>16 DEF SchemaIInv

\* Who has a table aside is replacing the pairs.
LEMMA AsideReplaces ==
    ASSUME NEW p \in Opener, NEW r \in Pairs, Aside(openers[p], r)
    PROVE  Replacing(p)
<1>1. PICK a, d, m : a = r.aside /\ d = r.dropped /\ m = Len(NewRetentionTables)
  OBVIOUS
<1>2. a \in 1 .. 2 /\ d \in 8 .. 9 /\ m = 9
  BY <1>1, PairFacts, NineStatements
<1>3. openers[p].version = 17 /\ openers[p].at \in a + 1 .. d
  BY <1>1 DEF Aside
<1>4. openers[p].at \in 2 .. m
  BY <1>2, <1>3
<1> QED BY <1>1, <1>3, <1>4 DEF Replacing

\* An opener is at no statement when it begins and when it is done.
LEMMA OpensOrEnds ==
    ASSUME SchemaIInv, NEW p \in Opener, Open(p) \/ OpeningEnds(p)
    PROVE  SchemaIInv'
<1>0. Newest = 18
  BY DEF Newest
<1>1. SchemaOK /\ RowsOK
  BY DEF SchemaIInv
<1>2. PICK n : /\ openers' = [openers EXCEPT ![p] = n]
               /\ n \in Place /\ PlaceOK(n) /\ \A r \in Pairs : ~Aside(n, r)
               /\ opens' \in 0 .. MaxOpens
  <2>1. CASE Open(p)
    <3>1. PICK u : u = FirstDue(recorded, 1)
      OBVIOUS
    <3>2. PICK n : n = [applied |-> recorded, version |-> u, at |-> 1, found |-> {}]
      OBVIOUS
    <3>3. openers' = [openers EXCEPT ![p] = n] /\ opens' = opens + 1 /\ opens < MaxOpens
      BY <2>1, <3>1, <3>2 DEF Open
    <3>4. 1 \in 1 .. Newest + 1
      BY <1>0
    <3>5. /\ u \in 1 .. Newest + 1
          /\ u \in 1 .. Newest => 1 \in 1 .. Len(Upgrade(recorded, u))
          /\ \A w \in 1 .. u - 1 : w \in recorded
      BY <3>1, <3>4, FirstDueIs
    <3>6. recorded \in SUBSET (1 .. Newest)
      BY <1>0, <1>1 DEF SchemaOK
    <3>7. n \in Place
      <4>1. u \in 0 .. Newest + 1
        BY <3>5, <1>0
      <4> QED BY <3>2, <3>6, <4>1 DEF Place
    <3>8. PlaceOK(n)
      <4>1. n.applied = recorded /\ n.version = u /\ n.at = 1
        BY <3>2
      <4>2. 1 .. n.at - 1 = {}
        BY <4>1
      <4> QED BY <3>5, <4>1, <4>2 DEF PlaceOK
    <3>9. ASSUME NEW r \in Pairs PROVE ~Aside(n, r)
      <4>1. PICK a, d : a = r.aside /\ d = r.dropped
        OBVIOUS
      <4>2. a \in 1 .. 2 /\ n.at = 1
        BY <3>2, <4>1, PairFacts
      <4>3. n.at \notin a + 1 .. d
        BY <4>2
      <4> QED BY <4>1, <4>3 DEF Aside
    <3>10. opens' \in 0 .. MaxOpens
      BY <1>1, <3>3, SchemaAssumption DEF SchemaOK
    <3> QED BY <3>3, <3>7, <3>8, <3>9, <3>10
  <2>2. CASE OpeningEnds(p)
    <3>1. openers' = [openers EXCEPT ![p] = Closed] /\ opens' = opens
      BY <2>2 DEF OpeningEnds
    <3>2. Closed \in Place
      BY <1>0 DEF Closed, Place
    <3>3. PlaceOK(Closed) /\ \A r \in Pairs : ~Aside(Closed, r)
      <4>1. Closed.version = 0 /\ Closed.applied = {} /\ 0 # 17 /\ 0 \notin 1 .. Newest
        BY DEF Closed
      <4> QED BY <4>1 DEF PlaceOK, Aside
    <3> QED BY <1>1, <3>1, <3>2, <3>3 DEF SchemaOK
  <2> QED BY <2>1, <2>2
<1>3. objects' = objects /\ recorded' = recorded /\ rows' = rows
  BY DEF Open, OpeningEnds
<1>4. (\E m \in 0 .. Newest : recorded' = 1 .. m)
      /\ objects' \subseteq Retention \cup UNION {ObjectsOf(v) : v \in 1 .. Newest}
  BY <1>1, <1>3 DEF SchemaOK
<1>5. recorded \subseteq recorded' /\ recorded' \ recorded = {} /\ objects \subseteq objects'
      /\ Standing \subseteq Standing'
  BY <1>3 DEF Standing
<1>6. PlaceOK(n)'
  BY <1>2, <1>5, PlaceStays
<1>7. SchemaOK'
  BY <1>1, <1>2, <1>4, <1>5, <1>6, SchemaGoesOn
<1>8. /\ kept' \in Kept /\ kept'.cards = kept.cards /\ kept'.receipts = kept.receipts
      /\ ~kept'.cut => ~kept.cut
      /\ \A r \in Pairs : Aside(openers[p], r) => kept'.cut
  <2>1. CASE Open(p)
    <3>1. kept' = kept /\ openers[p].version = 0
      BY <2>1 DEF Open, Closed
    <3> QED BY <1>1, <3>1 DEF RowsOK, Aside
  <2>2. CASE OpeningEnds(p)
    <3>1. kept' = [kept EXCEPT !.cut = @ \/ Replacing(p)] /\ kept \in Kept
      BY <1>1, <2>2 DEF OpeningEnds, RowsOK
    <3>2. kept' = [cards |-> kept.cards, receipts |-> kept.receipts,
                   cut |-> (kept.cut \/ Replacing(p))]
      BY <3>1 DEF Kept
    <3>3. Replacing(p) \in BOOLEAN
      BY DEF Replacing
    <3>4. \A r \in Pairs : Aside(openers[p], r) => Replacing(p)
      BY AsideReplaces
    <3> QED BY <3>1, <3>2, <3>3, <3>4 DEF Kept
  <2> QED BY <2>1, <2>2
<1>9. RowsOK'
  BY <1>1, <1>2, <1>3, <1>5, <1>8, RowsStay
<1> QED BY <1>7, <1>9 DEF SchemaIInv

\* Who has a table aside has not opened the database yet.
LEMMA AsideIsOpening ==
    ASSUME NEW p \in Opener, NEW r \in Pairs, Aside(openers[p], r)
    PROVE  ~IsOpen(p)
BY DEF Aside, IsOpen, Newest

\* A sweep adds a row and a receipt of its own, to the tables that bear the name.
LEMMA Swept ==
    ASSUME SchemaIInv, NEW p \in Opener, Sweep(p)
    PROVE  SchemaIInv'
<1>0. Newest = 18
  BY DEF Newest
<1>1. SchemaOK /\ RowsOK
  BY DEF SchemaIInv
<1>2. Closed \in Place /\ PlaceOK(Closed) /\ \A r \in Pairs : ~Aside(Closed, r)
  <2>1. Closed \in Place
    BY <1>0 DEF Closed, Place
  <2>2. Closed.version = 0 /\ Closed.applied = {} /\ 0 # 17 /\ 0 \notin 1 .. Newest
    BY DEF Closed
  <2> QED BY <2>1, <2>2 DEF PlaceOK, Aside
<1>3. /\ openers' = [openers EXCEPT ![p] = Closed]
      /\ objects' = objects /\ recorded' = recorded /\ opens' = opens
  BY DEF Sweep
<1>4. /\ \E m \in 0 .. Newest : recorded' = 1 .. m
      /\ objects' \subseteq Retention \cup UNION {ObjectsOf(v) : v \in 1 .. Newest}
      /\ opens' \in 0 .. MaxOpens
  BY <1>1, <1>3 DEF SchemaOK
<1>5. recorded \subseteq recorded' /\ recorded' \ recorded = {} /\ objects \subseteq objects'
      /\ Standing \subseteq Standing'
  BY <1>3 DEF Standing
<1>6. PlaceOK(Closed)'
  <2>1. PICK c : c = Closed
    OBVIOUS
  <2>2. PlaceOK(c)'
    BY <1>2, <1>5, <2>1, PlaceStays
  <2> QED BY <2>1, <2>2 DEF PlaceOK, Closed
<1>7. SchemaOK'
  BY <1>1, <1>2, <1>3, <1>4, <1>5, <1>6, SchemaGoesOn
<1>8. CASE UNCHANGED <<rows, kept>>
  <2>1. \A r \in Pairs : ~Aside(openers[p], r)
    BY AsideIsOpening DEF Sweep
  <2>2. kept \in Kept
    BY <1>1 DEF RowsOK
  <2>3. RowsOK'
    BY <1>1, <1>2, <1>3, <1>5, <1>8, <2>1, <2>2, RowsStay
  <2> QED BY <1>7, <2>3 DEF SchemaIInv
<1>9. CASE ~UNCHANGED <<rows, kept>>
  <2>1. PICK t, m, k :
          /\ t \in TaskRow
          /\ m = Cardinality(kept.receipts) /\ m < MaxSweeps /\ k = m + 1
          /\ rows' = [rows EXCEPT ![TaskCards] = @ \cup {t}, ![TaskReceipts] = @ \cup {k}]
          /\ kept' = [kept EXCEPT !.cards = @ \cup {t}, !.receipts = @ \cup {k}]
          /\ {TaskCards, TaskReceipts} \subseteq objects
    BY <1>9 DEF Sweep
  <2>16. kept' = [cards |-> kept.cards \cup {t}, receipts |-> kept.receipts \cup {k},
                  cut |-> kept.cut]
    BY <1>1, <2>1 DEF RowsOK, Kept
  <2>2. kept.receipts = 1 .. m /\ m \in 0 .. MaxSweeps
    <3>1. PICK i \in 0 .. MaxSweeps : kept.receipts = 1 .. i
      BY <1>1 DEF RowsOK
    <3>2. Cardinality(1 .. i) = i
      <4>1. i \in Nat /\ Cardinality(1 .. i) = IF 1 > i THEN 0 ELSE i - 1 + 1
        BY <3>1, SchemaAssumption, FS_Interval
      <4> QED BY <4>1
    <3> QED BY <2>1, <3>1, <3>2
  <2>3. kept'.receipts = 1 .. k /\ k \in 0 .. MaxSweeps
    <3>1. k = m + 1 /\ m \in Nat /\ m < MaxSweeps /\ MaxSweeps \in Nat
      BY <2>1, <2>2, SchemaAssumption
    <3>2. 1 .. k = (1 .. m) \cup {k} /\ k \in 0 .. MaxSweeps
      BY <3>1
    <3> QED BY <2>1, <2>2, <2>16, <3>2
  <2>4. TaskCards # TaskReceipts /\ TaskCards \in Retention /\ TaskReceipts \in Retention
    BY DEF TaskCards, TaskReceipts, Retention
  <2>5. \A u \in Retention :
          /\ u = TaskCards => rows'[u] = rows[u] \cup {t}
          /\ u = TaskReceipts => rows'[u] = rows[u] \cup {k}
          /\ u \notin {TaskCards, TaskReceipts} => rows'[u] = rows[u]
    <3> HIDE DEF TaskCards, TaskReceipts, Retention
    <3> QED BY <1>1, <2>1, <2>4 DEF RowsOK
  <2>6. rows' \in [Retention -> SUBSET (TaskRow \cup Nat)]
    <3>1. k \in Nat
      BY <2>3, SchemaAssumption
    <3>2. /\ rows[TaskCards] \cup {t} \in SUBSET (TaskRow \cup Nat)
          /\ rows[TaskReceipts] \cup {k} \in SUBSET (TaskRow \cup Nat)
      BY <1>1, <2>1, <2>4, <3>1 DEF RowsOK
    <3> HIDE DEF Retention, TaskCards, TaskReceipts
    <3> QED BY <1>1, <2>1, <2>4, <3>2 DEF RowsOK
  <2>7. \A u \in Retention \ objects' : rows'[u] = {}
    BY <1>1, <1>3, <2>1, <2>5 DEF RowsOK
  <2>8. kept' \in Kept
    BY <1>1, <2>1, <2>3, <2>16, SchemaAssumption DEF RowsOK, Kept
  <2>9. ASSUME NEW r \in Pairs
        PROVE  /\ (rows[r.new] \cup rows[r.old] = KeptOf(r))'
               /\ rows'[r.old] = rows[r.old] /\ rows[r.new] \subseteq rows'[r.new]
    <3>1. rows[r.new] \cup rows[r.old] = KeptOf(r)
      BY <1>1 DEF RowsOK
    <3>2. /\ r.new \in Retention /\ r.old \in Retention /\ r.new \in {TaskCards, TaskReceipts}
          /\ r.old # TaskCards /\ r.old # TaskReceipts
      BY DEF Pairs, Retention, TaskCards, TaskReceipts, OldTaskCards, OldTaskReceipts
    <3>3. rows'[r.old] = rows[r.old]
      BY <3>2, <2>5
    <3>4. CASE r.new = TaskCards
      <4>1. rows'[r.new] = rows[r.new] \cup {t}
        BY <3>2, <3>4, <2>5
      <4>2. kept'.cards = kept.cards \cup {t}
        BY <2>16
      <4> QED BY <3>1, <3>3, <3>4, <4>1, <4>2 DEF KeptOf
    <3>5. CASE r.new = TaskReceipts
      <4>1. rows'[r.new] = rows[r.new] \cup {k} /\ kept'.receipts = kept.receipts \cup {k}
        BY <3>2, <3>5, <2>16, <2>4, <2>5
      <4> QED BY <3>1, <3>3, <3>5, <2>4, <4>1 DEF KeptOf
    <3> QED BY <3>2, <3>4, <3>5
  <2>10. \A q \in Opener : openers'[q] = IF q = p THEN Closed ELSE openers[q]
    BY <1>1, <1>3 DEF SchemaOK
  <2>11. \A q \in Opener, r \in Pairs : Aside(openers'[q], r) =>
           Aside(openers[q], r) /\ openers'[q] = openers[q]
    BY <1>2, <2>10
  <2>12. ASSUME NEW q \in Opener, NEW r \in Pairs
         PROVE  AsideOK(openers[q], r)'
    <3> SUFFICES ASSUME Aside(openers'[q], r)
                 PROVE  /\ r.old \in objects'
                        /\ openers'[q].at > r.copied =>
                             r.new \in objects' /\ rows'[r.old] \subseteq rows'[r.new]
      BY DEF AsideOK, Aside
    <3>1. /\ r.old \in objects
          /\ openers[q].at > r.copied =>
               r.new \in objects /\ rows[r.old] \subseteq rows[r.new]
      BY <1>1, <2>11 DEF RowsOK, AsideOK
    <3> QED BY <3>1, <1>3, <2>9, <2>11
  <2>13. \A r \in Pairs : \A q, u \in Opener :
           Aside(openers'[q], r) /\ Aside(openers'[u], r) => q = u
    BY <1>1, <2>11 DEF RowsOK
  <2>14. \E i \in 0 .. MaxSweeps : kept'.receipts = 1 .. i
    BY <2>3
  <2>17. ASSUME NEW r \in Pairs, ~kept'.cut, r.old \in objects'
         PROVE  \E q \in Opener : Aside(openers'[q], r)
    <3>1. PICK q \in Opener : Aside(openers[q], r)
      BY <1>1, <1>3, <2>16, <2>17 DEF RowsOK, InHand
    <3>2. q # p
      BY <3>1, AsideIsOpening DEF Sweep
    <3> QED BY <2>10, <3>1, <3>2
  <2>15. RowsOK'
    <3> HIDE DEF Retention
    <3> QED BY <2>6, <2>7, <2>8, <2>9, <2>12, <2>13, <2>14, <2>17 DEF RowsOK, Aside, InHand
  <2> QED BY <1>7, <2>15 DEF SchemaIInv
<1> QED BY <1>8, <1>9

\* Version 10 makes the two retention tables.
LEMMA RetentionMade == {TaskCards, TaskReceipts} \subseteq ObjectsOf(10)
<1> DEFINE names == <<"ui_task_retention_settings", TaskCards, TaskReceipts>>
<1>1. names \in Seq(Names) /\ Len(names) = 3 /\ names[2] = TaskCards /\ names[3] = TaskReceipts
  <2>1. "ui_task_retention_settings" \in Names /\ TaskCards \in Names /\ TaskReceipts \in Names
    BY DEF Names
  <2> HIDE DEF Names
  <2> QED BY <2>1
<1> HIDE DEF names
<1>2. PICK b : b = Each("ensure", names)
  OBVIOUS
<1>3. /\ b \in Seq(Plain) /\ Len(b) = 3
      /\ b[2] = Statement("ensure", TaskCards, "") /\ b[3] = Statement("ensure", TaskReceipts, "")
  <2>1. 2 \in 1 .. Len(names) /\ 3 \in 1 .. Len(names) /\ "ensure" \in Making
    BY <1>1 DEF Making
  <2>2. /\ b \in Seq(Plain) /\ Len(b) = Len(names)
        /\ b[2] = Statement("ensure", names[2], "") /\ b[3] = Statement("ensure", names[3], "")
    BY <2>1, <1>1, <1>2, EachIsPlain
  <2> QED BY <2>2, <1>1, Zenon
<1>4. Body(10) = b
  <2>1. EveryTime(10) = <<>>
    BY DEF EveryTime
  <2>2. ScriptOf[10] = RetentionTables
    BY DEF ScriptOf
  <2>3. RetentionTables = b
    BY <1>2, Zenon DEF RetentionTables, Ensure, names
  <2> QED BY <2>1, <2>2, <2>3, <1>3, ConcatEmptySeq DEF Body
<1>5. /\ b[2].op \in Making /\ b[2].on = TaskCards
      /\ b[3].op \in Making /\ b[3].on = TaskReceipts
  <2>1. \A x : Statement("ensure", x, "").op = "ensure" /\ Statement("ensure", x, "").on = x
    BY DEF Statement
  <2>2. "ensure" \in Making
    BY DEF Making
  <2> QED BY <2>1, <2>2, <1>3, Zenon
<1>6. 2 \in 1 .. Len(Body(10)) /\ 3 \in 1 .. Len(Body(10)) /\ 10 \in 1 .. Newest
  <2>1. PICK k : k = Len(b)
    OBVIOUS
  <2>2. k = 3
    BY <1>3, <2>1
  <2>3. 2 \in 1 .. k /\ 3 \in 1 .. k
    BY <2>2
  <2>4. 10 \in 1 .. Newest
    BY DEF Newest
  <2> QED BY <1>4, <2>1, <2>3, <2>4
<1>7. TaskCards \in Names /\ TaskReceipts \in Names
  BY OldIsApart
<1> HIDE DEF Names
<1> QED BY <1>4, <1>5, <1>6, <1>7, MadeIs

\* A database of an older release.
LEMMA SchemaStarts ==
    ASSUME SchemaInit
    PROVE  SchemaIInv
<1>0. Newest = 18
  BY DEF Newest
<1>1. PICK v \in StartVersion : /\ recorded = 1 .. v
                                /\ objects = UNION {ObjectsOf(u) : u \in 1 .. v}
  BY DEF SchemaInit
<1>2. v \in 0 .. Newest
  BY <1>0, SchemaAssumption
<1>3. Closed \in Place /\ PlaceOK(Closed) /\ \A r \in Pairs : ~Aside(Closed, r)
  <2>1. Closed \in Place
    BY <1>0 DEF Closed, Place
  <2>2. Closed.version = 0 /\ Closed.applied = {} /\ 0 # 17 /\ 0 \notin 1 .. Newest
    BY DEF Closed
  <2> QED BY <2>1, <2>2 DEF PlaceOK, Aside
<1>4. openers = [p \in Opener |-> Closed] /\ opens = 0
  BY DEF SchemaInit
<1>5. SchemaOK
  <2>1. 1 .. v \subseteq 1 .. Newest
    BY <1>0, <1>2
  <2>2. \A u \in recorded : ObjectsOf(u) \subseteq Standing
    BY <1>1, <2>1, MadeApart, StandingIs
  <2>3. objects \subseteq Retention \cup UNION {ObjectsOf(u) : u \in 1 .. Newest}
    BY <1>1, <2>1
  <2>4. openers \in [Opener -> Place] /\ \A p \in Opener : PlaceOK(openers[p])
    BY <1>3, <1>4
  <2>5. opens \in 0 .. MaxOpens
    BY <1>4, SchemaAssumption
  <2> QED BY <1>1, <1>2, <2>2, <2>3, <2>4, <2>5 DEF SchemaOK
<1>6. /\ kept \in Kept
      /\ \E m \in 0 .. MaxSweeps : kept.receipts = 1 .. m
      /\ 10 \notin recorded => kept.cards = {} /\ kept.receipts = {}
  <2>1. CASE 10 \in recorded
    <3>1. kept = [cards |-> TaskRow, receipts |-> {1}, cut |-> FALSE]
      BY <2>1 DEF SchemaInit
    <3>2. {1} = 1 .. 1 /\ 1 \in 0 .. MaxSweeps
      BY SchemaAssumption
    <3> QED BY <2>1, <3>1, <3>2 DEF Kept
  <2>2. CASE 10 \notin recorded
    <3>1. kept = [cards |-> {}, receipts |-> {}, cut |-> FALSE]
      BY <2>2 DEF SchemaInit
    <3>2. {} = 1 .. 0 /\ 0 \in 0 .. MaxSweeps
      BY SchemaAssumption
    <3> QED BY <2>2, <3>1, <3>2 DEF Kept
  <2> QED BY <2>1, <2>2
<1>7. rows = [t \in Retention |-> CASE t = TaskCards    -> kept.cards
                                    [] t = TaskReceipts -> kept.receipts
                                    [] OTHER        -> {}]
  BY DEF SchemaInit
<1>8. TaskCards # TaskReceipts /\ {TaskCards, TaskReceipts} \subseteq Retention
  BY DEF TaskCards, TaskReceipts, Retention
<1>9. \A t \in Retention : /\ t = TaskCards => rows[t] = kept.cards
                           /\ t = TaskReceipts => rows[t] = kept.receipts
                           /\ t \notin {TaskCards, TaskReceipts} => rows[t] = {}
  <2> HIDE DEF TaskCards, TaskReceipts, Retention
  <2> QED BY <1>7, <1>8
<1>10. DOMAIN rows = Retention /\ rows = [t \in Retention |-> rows[t]]
  BY <1>7
<1>11. rows \in [Retention -> SUBSET (TaskRow \cup Nat)]
  <2>1. \A t \in Retention : rows[t] \in SUBSET (TaskRow \cup Nat)
    BY <1>6, <1>9 DEF Kept
  <2> HIDE DEF Retention
  <2> QED BY <1>10, <2>1
<1>12. \A t \in Retention \ objects : rows[t] = {}
  <2>1. 10 \in recorded => {TaskCards, TaskReceipts} \subseteq objects
    BY <1>1, RetentionMade
  <2> QED BY <2>1, <1>6, <1>9
<1>13. \A r \in Pairs : rows[r.new] \cup rows[r.old] = KeptOf(r)
  <2> SUFFICES ASSUME NEW r \in Pairs PROVE rows[r.new] \cup rows[r.old] = KeptOf(r)
    OBVIOUS
  <2>1. /\ r.new \in Retention /\ r.old \in Retention /\ r.new \in {TaskCards, TaskReceipts}
        /\ r.old \notin {TaskCards, TaskReceipts}
    BY DEF Pairs, Retention, TaskCards, TaskReceipts, OldTaskCards, OldTaskReceipts
  <2>2. rows[r.old] = {}
    BY <2>1, <1>9
  <2>3. rows[r.new] = KeptOf(r)
    BY <2>1, <1>8, <1>9 DEF KeptOf
  <2> QED BY <2>2, <2>3
<1>14. RowsOK
  <2>1. \A p \in Opener, r \in Pairs : ~Aside(openers[p], r)
    BY <1>3, <1>4
  <2>2. \A r \in Pairs : r.old \notin objects
    <3>1. objects \cap Old = {}
      <4>1. 1 .. v \subseteq 1 .. Newest
        BY <1>0, <1>2
      <4> QED BY <1>1, <4>1, MadeApart
    <3> QED BY <3>1, PairFacts
  <2> HIDE DEF Retention, Pairs
  <2> QED BY <2>1, <2>2, <1>6, <1>11, <1>12, <1>13 DEF RowsOK, AsideOK, InHand
<1> QED BY <1>5, <1>14 DEF SchemaIInv

\* Every step keeps the invariant.
LEMMA SchemaSteps ==
    ASSUME SchemaIInv, [SchemaNext]_schemaVars
    PROVE  SchemaIInv'
<1>1. CASE UNCHANGED schemaVars
  <2>1. /\ objects' = objects /\ recorded' = recorded /\ rows' = rows
        /\ openers' = openers /\ opens' = opens /\ kept' = kept
    BY <1>1 DEF schemaVars
  <2> QED BY <2>1 DEF SchemaIInv, SchemaOK, RowsOK, PlaceOK, AsideOK, Aside, KeptOf, InHand, Standing
<1>2. CASE SchemaNext
  <2>1. PICK p \in Opener :
          \/ Open(p) \/ MakeTable(p) \/ LookForColumns(p) \/ AlterTable(p)
          \/ RenameTable(p) \/ CopyRows(p) \/ DropTable(p) \/ RecordVersion(p)
          \/ OpeningEnds(p) \/ Sweep(p)
    BY <1>2 DEF SchemaNext
  <2> QED BY <2>1, OpensOrEnds, TableMade, ColumnsLooked, ColumnAdded, TableRenamed, RowsCopied,
             TableDropped, VersionRecorded, Swept
<1> QED BY <1>1, <1>2

\* The invariant holds throughout.
LEMMA SchemaInvariance == SchemaSpec => []SchemaIInv
<1>1. SchemaInit => SchemaIInv
  BY SchemaStarts
<1>2. SchemaIInv /\ [SchemaNext]_schemaVars => SchemaIInv'
  BY SchemaSteps
<1> QED BY <1>1, <1>2, PTL DEF SchemaSpec

\* The rows of a pair of tables are rows that were written.
LEMMA RowsAreKept ==
    ASSUME SchemaIInv
    PROVE  /\ rows[TaskCards] \cup rows[OldTaskCards] = kept.cards
           /\ rows[TaskReceipts] \cup rows[OldTaskReceipts] = kept.receipts
<1> DEFINE c == [new |-> TaskCards, old |-> OldTaskCards, aside |-> 1, copied |-> 4,
                 dropped |-> 8]
           e == [new |-> TaskReceipts, old |-> OldTaskReceipts, aside |-> 2, copied |-> 6,
                 dropped |-> 9]
<1>1. c \in Pairs /\ e \in Pairs
  BY DEF Pairs
<1>2. TaskCards # TaskReceipts
  BY DEF TaskCards, TaskReceipts
<1>3. KeptOf(c) = kept.cards /\ KeptOf(e) = kept.receipts
  BY <1>2 DEF KeptOf
<1>4. \A r \in Pairs : rows[r.new] \cup rows[r.old] = KeptOf(r)
  BY DEF SchemaIInv, RowsOK
<1>5. c.new = TaskCards /\ c.old = OldTaskCards /\ e.new = TaskReceipts /\ e.old = OldTaskReceipts
  OBVIOUS
<1> HIDE DEF c, e
<1> QED BY <1>1, <1>3, <1>4, <1>5

\* Types (_connection, _migrate): what is recorded is a prefix of the versions, the
\* tables are those of the scripts and the old pair, rows and receipts are of their kind.
THEOREM SchemaTypeCorrect == SchemaSpec => []SchemaTypeOK
<1>1. SchemaIInv => SchemaTypeOK
  <2> SUFFICES ASSUME SchemaIInv PROVE SchemaTypeOK
    OBVIOUS
  <2>1. /\ \E n \in 0 .. Newest : recorded = 1 .. n
        /\ objects \subseteq Retention \cup UNION {ObjectsOf(v) : v \in 1 .. Newest}
        /\ opens \in 0 .. MaxOpens
        /\ \A p \in Opener : openers[p].applied \subseteq recorded
    BY DEF SchemaIInv, SchemaOK, PlaceOK
  <2>2. kept.cards \subseteq TaskRow /\ kept.receipts \subseteq 1 .. MaxSweeps
    <3>1. PICK m \in 0 .. MaxSweeps : kept.receipts = 1 .. m
      BY DEF SchemaIInv, RowsOK
    <3>2. 1 .. m \subseteq 1 .. MaxSweeps
      BY SchemaAssumption
    <3> QED BY <3>1, <3>2 DEF SchemaIInv, RowsOK, Kept
  <2>3. /\ rows[TaskCards] \subseteq TaskRow /\ rows[OldTaskCards] \subseteq TaskRow
        /\ rows[TaskReceipts] \subseteq 1 .. MaxSweeps
        /\ rows[OldTaskReceipts] \subseteq 1 .. MaxSweeps
    BY <2>2, RowsAreKept
  <2> HIDE DEF Retention, TaskCards, TaskReceipts, OldTaskCards, OldTaskReceipts
  <2> QED BY <2>1, <2>3 DEF SchemaTypeOK
<1> QED BY <1>1, SchemaInvariance, PTL

\* Every opening migrates on its own and may stop anywhere (_migrate); what a recorded
\* version makes is there or set aside, no retention row or receipt is ever destroyed,
\* and if no opening broke off between setting a table aside and dropping it, and none
\* is there, the tables are in place and have all of them.
THEOREM UpgradeKeeps == SchemaSpec => []UpgradeLosesNothing
<1>1. SchemaIInv => UpgradeLosesNothing
  <2> SUFFICES ASSUME SchemaIInv PROVE UpgradeLosesNothing
    OBVIOUS
  <2>1. \A v \in recorded : ObjectsOf(v) \subseteq Standing
    BY DEF SchemaIInv, SchemaOK
  <2>2. ASSUME ~kept.cut, \A p \in Opener : ~Replacing(p)
        PROVE  /\ \A v \in recorded : ObjectsOf(v) \subseteq objects
               /\ kept.cards \subseteq rows[TaskCards]
               /\ kept.receipts \subseteq rows[TaskReceipts]
    <3>1. \A r \in Pairs : r.old \notin objects
      BY <2>2, AsideReplaces DEF SchemaIInv, RowsOK, InHand
    <3>2. OldTaskCards \notin objects /\ OldTaskReceipts \notin objects
      BY <3>1 DEF Pairs
    <3>3. Standing \subseteq objects
      BY <3>1, StandingIs
    <3>4. rows[OldTaskCards] = {} /\ rows[OldTaskReceipts] = {}
      BY <3>2 DEF SchemaIInv, RowsOK, Retention
    <3> QED BY <2>1, <3>3, <3>4, RowsAreKept
  <2> QED BY <2>1, <2>2, RowsAreKept DEF UpgradeLosesNothing
<1> QED BY <1>1, SchemaInvariance, PTL
=============================================================================
