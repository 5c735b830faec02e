---------------------------- MODULE SessionRebind ----------------------------
(***************************************************************************)
(* How a task and its intent change hands between sessions in              *)
(* brain_control.py: the recovery reference (issue, consume, finalize,     *)
(* query, revoke, expiry), the two older one-call rebinds, the intent      *)
(* resolution that takes an authorized intent over, the task mutation that *)
(* takes an authorized task over, and the projection of the intent's head  *)
(* receipt that context readers use without opening the database.          *)
(*                                                                         *)
(* Every method runs inside one BEGIN IMMEDIATE transaction and is one     *)
(* action; the publication of the projection follows the commit, outside   *)
(* the transaction, and may end half way.  created_at comparisons become   *)
(* positions in the append-only histories, which is what they decide.      *)
(* Contract, plan and state hashes stand or fall with the receipt or the   *)
(* state revision they belong to, so that alone is compared.               *)
(*                                                                         *)
(* A behaviour follows one aggregate of a task, its intent or its state.   *)
(* The two have recoveries, owners and histories of their own and share    *)
(* only the rows an older intent rebind leaves for a task mutation.        *)
(***************************************************************************)
EXTENDS Naturals, Sequences, FiniteSets

CONSTANTS Session,          \* session keys
          NoSession,        \* the empty owner of an unclaimed recovery
          MaxRebindSteps,   \* bound on recoveries issued plus receipts or
                            \* state revisions written
          MaxPublishers     \* bound on publications under way at once

ASSUME RebindAssumption ==
    /\ NoSession \notin Session
    /\ {MaxRebindSteps, MaxPublishers} \subseteq Nat

VARIABLES
    subject,        \* the aggregate followed, "intent" or "task"
    owner,          \* its owner_session_key
    history,        \* the session of each intent receipt or state revision
    rebinds,        \* local_rebind_transactions with their latest event
    legacyRebinds,  \* rows of task_session_rebinds and intent_session_rebinds
    markers,        \* files of the intent's pending directory
    publishers,     \* processes between commit and end of publication
    projection,     \* the projected receipt, and the head when it was written
    reused          \* a refused command took away the marker of another one

projectionVars == <<markers, publishers, projection, reused>>
rebindVars == <<subject, owner, history, rebinds, legacyRebinds, projectionVars>>

Owner == Session \cup {NoSession}
Kinds == {"intent", "task"}
\* A revoked recovery and an expired one are treated alike: both have ended.
Statuses == {"issued", "consumed", "finalized", "ended"}

\* latest_receipt_id of an intent, head_revision of a task.
HeadRev == Len(history)

BelowBound == Len(rebinds) + HeadRev < MaxRebindSteps

\* The successor a recovery names: the column filled at issue, else the one
\* its latest event carries (revoked and expired events carry none).
EffectiveNewOwner(t) == IF t.new # NoSession THEN t.new ELSE t.claimed

(***************************************************************************)
(* Whether the hand-off of a finalized recovery has been applied, as the   *)
(* code decides it.  Finalize found the head it was issued for, so what is *)
(* behind that head was created later.                                     *)
(***************************************************************************)

AnyReceiptOfSuccessor(t) ==
    \E i \in 1 .. HeadRev : history[i] = EffectiveNewOwner(t)

IntentLocalRebindConsumed(t) ==
    \E i \in t.head + 1 .. HeadRev : history[i] = EffectiveNewOwner(t)

\* The owner must still be the successor, and the first revision after the
\* one authorized must be the successor's.
TaskLocalRebindConsumed(t) ==
    /\ HeadRev > t.head
    /\ owner = EffectiveNewOwner(t)
    /\ history[t.head + 1] = EffectiveNewOwner(t)

LocalRebindConsumed(t) ==
    IF subject = "intent" THEN IntentLocalRebindConsumed(t)
                          ELSE TaskLocalRebindConsumed(t)

\* The recoveries that keep a new one from being issued.
Blocking ==
    {r \in DOMAIN rebinds :
        \/ rebinds[r].status \in {"issued", "consumed"}
        \/ rebinds[r].status = "finalized" /\ ~LocalRebindConsumed(rebinds[r])}

(***************************************************************************)
(* The recovery reference.                                                 *)
(***************************************************************************)

\* A recovery is requested for a named successor, who must be the caller, or
\* for whoever consumes it, and then the caller must be the owner.
ValidIssueRequest(s, new) ==
    /\ new # owner
    /\ s = (IF new = NoSession THEN owner ELSE new)

\* issue_local_rebind by session s.
IssueLocalRebind(s, new) ==
    /\ BelowBound
    /\ owner # NoSession
    /\ ValidIssueRequest(s, new)
    /\ Blocking = {}
    /\ rebinds' = Append(rebinds, [prev |-> owner, new |-> new, head |-> HeadRev,
                                   claimed |-> NoSession, status |-> "issued"])
    /\ UNCHANGED <<subject, owner, history, legacyRebinds, projectionVars>>

\* Who may look a recovery up by its reference, for what.
MayLookUpByRef(t, s, action) ==
    /\ t.new \in {NoSession, s}
    /\ IF t.status = "issued"
         THEN IF action = "consume" THEN s # t.prev ELSE s \in {t.prev, t.new}
         ELSE s = (IF EffectiveNewOwner(t) # NoSession THEN EffectiveNewOwner(t)
                                                       ELSE t.prev)

\* A lost reference is looked up by its issue command, to query or revoke.
MayLookUpByCommand(t, s) == s \in {t.prev, EffectiveNewOwner(t)}

MayLookUp(t, s, action) ==
    \/ MayLookUpByRef(t, s, action)
    \/ action \in {"query", "revoke"} /\ MayLookUpByCommand(t, s)

\* The next event of a recovery, with the successor it carries.
AppendLocalRebindEvent(r, status, claimed) ==
    /\ rebinds' = [rebinds EXCEPT ![r].status = status, ![r].claimed = claimed]
    /\ UNCHANGED <<subject, owner, history, legacyRebinds>>

\* A lookup after the time to live first appends the expired event; that
\* event has no successor, and a caller it does not admit undoes it.
ExpireIfNeeded(r, s, action) ==
    LET t == rebinds[r]
        expired == [t EXCEPT !.status = "ended", !.claimed = NoSession]
    IN  /\ t.status \in {"issued", "consumed"}
        /\ MayLookUp(expired, s, action)
        /\ AppendLocalRebindEvent(r, "ended", NoSession)
        /\ UNCHANGED projectionVars

\* consume_local_rebind: a successor claims the recovery.
ConsumeLocalRebind(r, s) ==
    /\ rebinds[r].status = "issued"
    /\ MayLookUpByRef(rebinds[r], s, "consume")
    /\ s # rebinds[r].prev
    /\ AppendLocalRebindEvent(r, "consumed", s)
    /\ UNCHANGED projectionVars

\* _verify_local_rebind_aggregate: the head is the one it was issued for.
VerifyLocalRebindAggregate(t) == owner = t.prev /\ HeadRev = t.head

\* The pending marker of a mutation: receipt at, or a hand-off after it.
Marker(type, s, at) == [type |-> type, session |-> s, at |-> at]

\* finalize_local_rebind: the successor is authorized; for an intent the
\* reader is blocked until the successor has resolved it.
FinalizeLocalRebind(r, s) ==
    /\ rebinds[r].status = "consumed"
    /\ MayLookUpByRef(rebinds[r], s, "finalize")
    /\ VerifyLocalRebindAggregate(rebinds[r])
    /\ AppendLocalRebindEvent(r, "finalized", s)
    /\ markers' = IF subject = "intent"
                    THEN markers \cup {Marker("handoff", s, HeadRev)} ELSE markers
    /\ UNCHANGED <<publishers, projection, reused>>

\* revoke_local_rebind; the revoked event names no successor.
RevokeLocalRebind(r, s) ==
    /\ rebinds[r].status \in {"issued", "consumed"}
    /\ MayLookUp(rebinds[r], s, "revoke")
    /\ AppendLocalRebindEvent(r, "ended", NoSession)
    /\ UNCHANGED projectionVars

(***************************************************************************)
(* The intent.                                                             *)
(***************************************************************************)

\* _legacy_rebind_intent_session moves the owner at once, and blocks the
\* reader until the new owner resolves.
LegacyRebindIntentSession(s) ==
    /\ owner \notin {NoSession, s}
    /\ Blocking = {}
    /\ history[HeadRev] = owner
    /\ owner' = s
    /\ markers' = markers \cup {Marker("handoff", s, HeadRev)}
    /\ UNCHANGED <<subject, history, rebinds, legacyRebinds, publishers, projection, reused>>

\* _verify_intent_local_rebind: the finalized recovery authorizes exactly
\* the head it was issued for.
FinalizedForSession(t, s) ==
    /\ t.status = "finalized"
    /\ EffectiveNewOwner(t) = s
    /\ t.prev = owner

VerifyIntentLocalRebind(t, s) ==
    /\ t.status = "finalized"
    /\ EffectiveNewOwner(t) = s
    /\ VerifyLocalRebindAggregate(t)

\* resolve_intent commits the next receipt, and moves the intent to its
\* caller.  The publication follows.
ResolveIntent(s) ==
    /\ BelowBound /\ Cardinality(publishers) < MaxPublishers
    /\ \/ owner \in {NoSession, s}
       \/ \E r \in DOMAIN rebinds : VerifyIntentLocalRebind(rebinds[r], s)
    /\ history' = Append(history, s)
    /\ owner' = s
    /\ markers' = markers \cup {Marker("resolve", s, HeadRev + 1)}
    /\ publishers' = publishers \cup {[receipt |-> HeadRev + 1, step |-> "write"]}
    /\ UNCHANGED <<subject, rebinds, legacyRebinds, projection, reused>>

\* The same command again: its stored receipt is published once more.
ReplayResolve(i) ==
    /\ Cardinality(publishers) < MaxPublishers
    /\ markers' = markers \cup {Marker("resolve", history[i], i)}
    /\ publishers' = publishers \cup {[receipt |-> i, step |-> "write"]}
    /\ UNCHANGED <<subject, owner, history, rebinds, legacyRebinds, projection, reused>>

\* Another payload under the id of a command that was carried out is refused,
\* when the marker of that id is written already; and a refused resolution
\* removes the marker it wrote, which was the other one's.  (Bound: once.)
RefuseReusedCommand(m) ==
    /\ BelowBound /\ ~reused
    /\ markers' = markers \ {m}
    /\ reused' = TRUE
    /\ UNCHANGED <<subject, owner, history, rebinds, legacyRebinds, publishers, projection>>

\* _publish_intent_context_projection writes the projection of its receipt
\* and reads it back (to find another one there is to end here),
PublishProjection(p) ==
    /\ p.step = "write"
    /\ projection' = [receipt |-> p.receipt, head |-> HeadRev]
    /\ publishers' = (publishers \ {p}) \cup {[p EXCEPT !.step = "clear"]}
    /\ UNCHANGED <<subject, owner, history, rebinds, legacyRebinds, markers, reused>>

\* The markers receipt i proves safe: of an older resolution, or of a
\* hand-off before it to the session that holds receipt i.
MarkersBefore(i) == {m \in markers : m.at <= i}

SafeMarkers(i) ==
    {m \in markers : m.at < i /\ (m.type = "handoff" => m.session = history[i])}

\* and under the database lock removes its own marker and the safe ones.
FinalizeProjection(p) ==
    /\ p.step = "clear"
    /\ markers' = markers \ ({Marker("resolve", history[p.receipt], p.receipt)}
                                \cup SafeMarkers(p.receipt))
    /\ publishers' = publishers \ {p}
    /\ UNCHANGED <<subject, owner, history, rebinds, legacyRebinds, projection, reused>>

\* The publishing process dies, or finds another projection than its own.
PublicationEnds(p) ==
    /\ publishers' = publishers \ {p}
    /\ UNCHANGED <<subject, owner, history, rebinds, legacyRebinds, markers, projection, reused>>

\* read_intent_context_projection accepts receipt i.
ReadIntentContextProjection(i) == markers = {} /\ projection.receipt = i

(***************************************************************************)
(* The task.                                                               *)
(***************************************************************************)

\* import_task creates the aggregate for its first owner.
ImportTask(s) ==
    /\ history = <<>>
    /\ history' = <<s>>
    /\ owner' = s
    /\ UNCHANGED <<subject, rebinds, legacyRebinds, projectionVars>>

\* _legacy_issue_task_session_rebind authorizes the next task mutation.  It
\* refuses an issued or consumed recovery, not a finalized one.
LegacyIssueTaskSessionRebind(s) ==
    /\ owner \notin {NoSession, s}
    /\ \A r \in DOMAIN rebinds : rebinds[r].status \notin {"issued", "consumed"}
    /\ legacyRebinds' = legacyRebinds \cup
          {[kind |-> "task", prev |-> owner, new |-> s, head |-> HeadRev]}
    /\ UNCHANGED <<subject, owner, history, rebinds, projectionVars>>

\* The intent of the same task was rebound the older way: the row it left.
IntentRebindOfSameTask(p, s) ==
    /\ p # s /\ legacyRebinds = {}
    /\ legacyRebinds' = {[kind |-> "intent", prev |-> p, new |-> s, head |-> 0]}
    /\ UNCHANGED <<subject, owner, history, rebinds, projectionVars>>

\* _verify_task_session_rebind: a finalized recovery, or an older rebind; of
\* these only the task's own is compared with the head.
VerifyTaskSessionRebind(s) ==
    \/ owner = s
    \/ \E r \in DOMAIN rebinds : /\ rebinds[r].status = "finalized"
                                 /\ EffectiveNewOwner(rebinds[r]) = s
                                 /\ rebinds[r].prev = owner
    \/ \E e \in legacyRebinds : /\ e.prev = owner /\ e.new = s
                                /\ e.kind = "task" => e.head = HeadRev

\* apply_task: the next state revision, owned by its caller.
ApplyTask(s) ==
    /\ history # <<>> /\ BelowBound
    /\ VerifyTaskSessionRebind(s)
    /\ history' = Append(history, s)
    /\ owner' = s
    /\ UNCHANGED <<subject, rebinds, legacyRebinds, projectionVars>>

(***************************************************************************)
(* The specification.                                                      *)
(***************************************************************************)

RebindInit ==
    /\ subject \in Kinds
    /\ owner = NoSession /\ history = <<>> /\ rebinds = <<>>
    /\ legacyRebinds = {} /\ markers = {} /\ publishers = {}
    /\ projection = [receipt |-> 0, head |-> 0] /\ reused = FALSE

RecoveryStep ==
    \/ \E s \in Session, new \in Owner : IssueLocalRebind(s, new)
    \/ \E r \in DOMAIN rebinds, s \in Session :
          \/ \E action \in {"consume", "finalize", "query", "revoke"} :
                ExpireIfNeeded(r, s, action)
          \/ ConsumeLocalRebind(r, s)
          \/ FinalizeLocalRebind(r, s)
          \/ RevokeLocalRebind(r, s)

IntentStep ==
    /\ subject = "intent"
    /\ \/ \E s \in Session : LegacyRebindIntentSession(s) \/ ResolveIntent(s)
       \/ \E i \in 1 .. HeadRev : ReplayResolve(i)
       \/ \E m \in markers : RefuseReusedCommand(m)
       \/ \E p \in publishers :
             PublishProjection(p) \/ FinalizeProjection(p) \/ PublicationEnds(p)

TaskStep ==
    /\ subject = "task"
    /\ \E s \in Session :
          \/ ImportTask(s) \/ LegacyIssueTaskSessionRebind(s) \/ ApplyTask(s)
          \/ \E p \in Session : IntentRebindOfSameTask(p, s)

RebindNext == RecoveryStep \/ IntentStep \/ TaskStep

RebindSpec == RebindInit /\ [][RebindNext]_rebindVars

(***************************************************************************)
(* Properties.                                                             *)
(***************************************************************************)

RebindTypeOK ==
    /\ subject \in Kinds
    /\ owner \in Owner
    /\ history \in Seq(Session)
    /\ rebinds \in Seq([prev : Session, new : Owner, head : Nat,
                        claimed : Owner, status : Statuses])
    /\ legacyRebinds \subseteq
          [kind : Kinds, prev : Session, new : Session, head : Nat]
    /\ markers \subseteq [type : {"resolve", "handoff"}, session : Session, at : Nat]
    /\ publishers \subseteq [receipt : 1 .. HeadRev, step : {"write", "clear"}]
    /\ projection \in [receipt : Nat, head : Nat]
    /\ reused \in BOOLEAN

\* The hand-off of t was carried out: after the head it was issued for, the
\* successor wrote a receipt or a state revision.
Applied(t) == \E i \in t.head + 1 .. HeadRev : history[i] = EffectiveNewOwner(t)

UnderWay(t) == \/ t.status \in {"issued", "consumed"}
               \/ t.status = "finalized" /\ ~Applied(t)

\* At any time at most one hand-off of an aggregate is under way: issued,
\* consumed, or finalized and not carried out
\* (existing_active, brain_control.py:4965).
OneHandOffAtATime ==
    \A r, q \in DOMAIN rebinds :
        UnderWay(rebinds[r]) /\ UnderWay(rebinds[q]) => r = q

\* An intent changes hands only by a recovery that was finalized and that
\* nobody had used before, or by the older rebind while no recovery is under
\* way: an authorization moves an intent once, whatever happened in between.
IntentMovesOnFreshAuthority ==
    [][ (subject = "intent" /\ owner # NoSession /\ owner' # owner) =>
          \/ \E r \in DOMAIN rebinds : /\ rebinds[r].status = "finalized"
                                       /\ ~Applied(rebinds[r])
                                       /\ rebinds[r].prev = owner
                                       /\ EffectiveNewOwner(rebinds[r]) = owner'
          \/ /\ history' = history
             /\ \A r \in DOMAIN rebinds : ~UnderWay(rebinds[r]) ]_rebindVars

\* While a finalized hand-off of the intent is not carried out, and while an
\* owner set by the older rebind has no receipt, the context reader is blocked.
HandOffBlocksReader ==
    /\ subject = "intent" /\ history # <<>>
    /\ \/ \E r \in DOMAIN rebinds :
             rebinds[r].status = "finalized" /\ ~Applied(rebinds[r])
       \/ history[HeadRev] # owner
    => markers # {}

\* It accepts a receipt that is not the head only after a late publication: of
\* a receipt that was behind the head already when its projection was written.
StaleProjectionIsLate ==
    \A i \in 1 .. HeadRev :
        ReadIntentContextProjection(i) /\ i # HeadRev => i < projection.head

\* The context reader, which never opens the database, is not misled by the
\* files (read_intent_context_projection, brain_context.py): it accepts no
\* receipt of an owner who left, and no receipt of before the head unless a slow
\* publisher or a replayed command wrote it afterwards.  A committed head that
\* was never published keeps it blocked.  All this as long as no command was
\* refused for having the id of another one and took that one's marker away.
ReaderIsNotMisled == ~reused => HandOffBlocksReader /\ StaleProjectionIsLate
=============================================================================
