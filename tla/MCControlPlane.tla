--------------------------- MODULE MCControlPlane ---------------------------
(***************************************************************************)
(* Small instances of the components around the broker and the task store, *)
(* in one run.  They share no state here, so a behaviour of all of them is *)
(* an interleaving of behaviours of each, and a property of one is decided *)
(* by its own: a behaviour of this module follows the component in focus   *)
(* and leaves the others as they start.                                    *)
(***************************************************************************)
EXTENDS SessionRebind, TurnClose, FailureLoop, MemoryCards, BrokerLifetime,
        Migration, TaskRetention, TurnEvidence, Decisions, WorkDag, McpServer,
        TurnLifecycle, SchemaUpgrade, Instructions, MigrationSource, AuthorityWorker

CONSTANTS p1, p2, p3   \* the items of the plan that the work DAG orders

VARIABLE focus   \* the component that runs

Components == {"rebind", "turn", "failure", "card", "life", "migration",
               "retention", "evidence", "decision", "dag", "mcp",
               "lifecycle", "schema", "instruction", "source", "worker"}

\* What a card may have been through: nothing, or a creation,
\* a forgetting and a command that made something else of the tombstone.
Was(life, text) == [life |-> life, text |-> text, from |-> life]
MCHistories == {<<>>,
                <<Was("active", Earlier), Was("forgotten", Tombstone),
                  Was("superseded", Tombstone)>>}

\* The former defaults of the retention periods, scaled to the bounds.
MCOldSettings == [completed |-> 2, trash |-> 3]

\* Dependencies as callers declare them: one item that joins the others, a cycle
\* of two, a cycle of three.
Depends(a, b, c) == [i \in PlanItem |-> IF i = p1 THEN a ELSE IF i = p2 THEN b ELSE c]
MCGraph == {Depends({}, {}, {p1, p2}), Depends({}, {p3}, {p2}),
            Depends({p3}, {p1}, {p2})}

\* Progress a caller may bring: nothing new, a forward step that also answers
\* the pending instruction, a formal stage without a new proof, the last step,
\* and a user's own statement.
Brings(by, phase, proof, instructs) ==
    [source |-> by, phase |-> phase, proof |-> proof, instructs |-> instructs]
MCPackets == {Brings("assistant", "plain", FALSE, FALSE),
              Brings("assistant", "stage2", TRUE, TRUE),
              Brings("assistant", "stage1", FALSE, FALSE),
              Brings("assistant", "done", TRUE, FALSE),
              Brings("user", "plain", TRUE, FALSE)}

\* Files of a legacy source: a text of one chunk, lines of JSON of which one does not
\* parse, a text with a sensitive value, an empty list; and two histories with lines of
\* the user and of others, questions, a sensitive one.
File(format, sensitive, items) ==
    [format |-> format, readable |-> TRUE, large |-> FALSE, utf8 |-> TRUE,
     sensitive |-> sensitive, items |-> items]
MCBytes == {File("text", FALSE, <<TRUE>>), File("jsonl", FALSE, <<TRUE, FALSE>>),
            File("text", TRUE, <<TRUE>>), File("json", FALSE, <<>>)}

Line(user, sensitive, signal) ==
    [user |-> user, sensitive |-> sensitive, signal |-> signal]
MCHistory ==
    {<<Line(TRUE, FALSE, "memory"), Line(TRUE, TRUE, "memory")>>,
     <<Line(TRUE, FALSE, "question"), Line(FALSE, FALSE, "memory"), Line(TRUE, FALSE, "ui")>>}

\* The manifest's stamp is read as the contract's is and tells nothing more here.
MCStamped == <<"contract", "worker">>

\* Two calls and one move of others, the second call after one that left a closeout or
\* a return; or one open that means to act and two moves.  The second workline is there
\* to be paired with, and its contract does not move.
FirstLine == CHOOSE l \in TaskLine : TRUE
LifecycleBounded ==
    /\ turn.calls + outside <= 3 /\ (outside = 2 => Acts /\ turn.op = "open")
    /\ turn.calls = 2 => closeouts # {} \/ contracts[FirstLine].returned
    /\ \A l \in TaskLine \ {FirstLine} : contracts[l].rev = 1

allVars == <<focus, rebindVars, turnVars, failureVars, cardVars, lifeVars,
             migrationVars, retentionVars, evidenceVars, decisionVars,
             dagVars, mcpVars, lifecycleVars, schemaVars, instructionVars,
             sourceVars, workerVars>>

\* A component that is not in focus starts in one of its initial states.
OneStart(component, start) == focus # component => start

Init ==
    /\ focus \in Components
    /\ RebindInit /\ OneStart("rebind", subject = "intent")
    /\ CardInit /\ OneStart("card", revisions = <<>>)
    /\ DagInit /\ plan.items = <<p1, p2, p3>>
    /\ RetentionInit /\ OneStart("retention", settings = With(Default, 1))
    /\ MigInit
    /\ OneStart("migration", source.mode = "legacy" /\ ~source.same /\ ~source.alike)
    /\ SchemaInit /\ OneStart("schema", recorded = {})
    /\ SourceInit
    /\ OneStart("source", kind = "sandglass"
                          /\ sandglass.text = CHOOSE h \in History : TRUE)
    /\ LifecycleInit
    /\ paired.line = FirstLine   \* the lines start alike
    /\ OneStart("lifecycle", /\ \A l \in TaskLine : contracts[l].phase = "plain"
                             /\ project = 1)
    /\ TurnInit /\ FailureInit /\ LifeInit /\ EvidenceInit /\ DecisionInit
    /\ McpInit /\ InstructionInit /\ WorkerInit

\* The component in focus takes a step and the others do not.
Runs(component) ==
    /\ focus = component
    /\ focus' = focus
    /\ component # "rebind"    => UNCHANGED rebindVars
    /\ component # "turn"      => UNCHANGED turnVars
    /\ component # "failure"   => UNCHANGED failureVars
    /\ component # "card"      => UNCHANGED cardVars
    /\ component # "life"      => UNCHANGED lifeVars
    /\ component # "migration" => UNCHANGED migrationVars
    /\ component # "retention" => UNCHANGED retentionVars
    /\ component # "evidence"  => UNCHANGED evidenceVars
    /\ component # "decision"  => UNCHANGED decisionVars
    /\ component # "dag"       => UNCHANGED dagVars
    /\ component # "mcp"       => UNCHANGED mcpVars
    /\ component # "lifecycle" => UNCHANGED lifecycleVars
    /\ component # "schema"    => UNCHANGED schemaVars
    /\ component # "instruction" => UNCHANGED instructionVars
    /\ component # "source"    => UNCHANGED sourceVars
    /\ component # "worker"    => UNCHANGED workerVars

\* After a refused reuse of a command id ReaderIsNotMisled has nothing left to say.
Next ==
    \/ Runs("rebind") /\ ~reused /\ RebindNext
    \/ Runs("turn") /\ TurnNext
    \/ Runs("failure") /\ FailureNext
    \/ Runs("card") /\ CardNext
    \/ Runs("life") /\ LifeNext
    \/ Runs("migration") /\ MigNext
    \/ Runs("retention") /\ RetentionNext
    \/ Runs("evidence") /\ EvidenceNext
    \/ Runs("decision") /\ DecisionNext
    \/ Runs("dag") /\ DagNext
    \/ Runs("mcp") /\ McpNext
    \/ Runs("lifecycle") /\ LifecycleNext /\ LifecycleBounded'
    \/ Runs("schema") /\ SchemaNext
    \/ Runs("instruction") /\ InstructionNext
    \/ Runs("source") /\ SourceNext
    \/ Runs("worker") /\ WorkerNext

Spec == Init /\ [][Next]_allVars

\* The type of every component's variables.
TypeOK ==
    /\ focus \in Components
    /\ focus = "rebind"    => RebindTypeOK
    /\ focus = "turn"      => TurnTypeOK
    /\ focus = "failure"   => FailureTypeOK
    /\ focus = "card"      => CardTypeOK
    /\ focus = "life"      => LifeTypeOK
    /\ focus = "migration" => MigTypeOK
    /\ focus = "retention" => RetentionTypeOK
    /\ focus = "evidence"  => EvidenceTypeOK
    /\ focus = "decision"  => DecisionTypeOK
    /\ focus = "dag"       => DagTypeOK
    /\ focus = "mcp"       => McpTypeOK
    /\ focus = "lifecycle" => LifecycleTypeOK
    /\ focus = "schema"    => SchemaTypeOK
    /\ focus = "instruction" => InstructionTypeOK
    /\ focus = "source"    => SourceTypeOK
    /\ focus = "worker"    => WorkerTypeOK
=============================================================================
