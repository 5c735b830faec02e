------------------------------- MODULE WorkDag -------------------------------
(***************************************************************************)
(* The work DAG of a task (work_dag.py, called by work-dag.ps1): a file    *)
(* that declares what each item of the canonical plan depends on, bound to *)
(* one revision of the execution contract.  The status of an item is the   *)
(* contract's; the file only adds which pending item is ready.             *)
(*                                                                         *)
(* A call reads the contract first and then works on the file under its    *)
(* lock, so the contract may have moved on, and so may the file: Refresh   *)
(* names the DAG revision its caller was told last.                        *)
(***************************************************************************)
EXTENDS Naturals, Sequences, SequencesExt

CONSTANTS PlanItem,       \* items a plan may have
          Graph,          \* what callers declare: dependencies of every item
          Planner,        \* callers
          MaxPlanRevision, MaxDagRevision  \* bounds

ASSUME WorkDagAssumption == /\ Graph \subseteq [PlanItem -> SUBSET PlanItem]
                            /\ {MaxPlanRevision, MaxDagRevision} \subseteq Nat \ {0}

VARIABLES plan,     \* the contract: revision, items in order, status of each
          dag,      \* the state file
          planners  \* each caller: the DAG revision it knows, the contract it read

dagVars == <<plan, dag, planners>>

\* The statuses the canonical plan gives; a cancelled item stays in the plan.
ItemStatus == {"pending", "in_progress", "completed", "cancelled"}
NoDag == [revision |-> 0]
NoPlan == [revision |-> 0]

Plans == {s \in SeqOf(PlanItem, 3) : IsInjective(s)}
Fits(graph, items) == [i \in ToSet(items) |-> graph[i] \cap ToSet(items)]

(***************************************************************************)
(* Definitions.                                                            *)
(***************************************************************************)

\* _contract_view: a plan without items serves no DAG.
ContractView(c) == c.items # <<>>

\* _default_definition: one item after the other.
DefaultDefinition(c) ==
    [i \in ToSet(c.items) |->
        {c.items[k] : k \in {j \in 1 .. Len(c.items) - 1 : c.items[j + 1] = i}}]

\* _detect_cycle follows the dependencies; the visited set saves it work.  The
\* items from which walk comes back to one that is being visited.
Walk(nodes) ==
    LET walk[visiting \in SUBSET DOMAIN nodes] ==
            {i \in DOMAIN nodes :
                i \in visiting \/ \E j \in nodes[i] : j \in walk[visiting \cup {i}]}
    IN  walk
MutualDependency(nodes) == \E i \in DOMAIN nodes, j \in DOMAIN nodes :
                               i \in nodes[j] /\ j \in nodes[i]
DetectCycle(nodes) == Walk(nodes)[{}] # {}

\* normalize_definition: every item of the plan and no other, no item its own
\* dependency, no cycle.
Normalizes(definition, c) ==
    /\ ContractView(c)
    /\ DOMAIN definition = ToSet(c.items)
    /\ \A i \in DOMAIN definition : definition[i] \subseteq DOMAIN definition \ {i}
    /\ ~DetectCycle(definition)

(***************************************************************************)
(* The state and its projection.                                           *)
(***************************************************************************)

\* _state_body: the binding names the contract revision and the plan.
StateWith(c, definition, revision) ==
    [revision |-> revision, bound |-> c.revision, items |-> c.items, nodes |-> definition]

StateIsValid(state) ==
    /\ state # NoDag
    /\ \A i \in DOMAIN state.nodes : state.nodes[i] \subseteq DOMAIN state.nodes \ {i}
    /\ ~DetectCycle(state.nodes)

\* project_state: nothing but the revision unless the binding is the contract's.
Current(state, c) ==
    /\ ContractView(c)
    /\ StateIsValid(state)
    /\ state.bound = c.revision
    /\ state.items = c.items

Ready(state, c) ==
    {i \in DOMAIN state.nodes :
        c.status[i] = "pending" /\ \A j \in state.nodes[i] : c.status[j] = "completed"}
InProgress(state, c) == {i \in DOMAIN state.nodes : c.status[i] = "in_progress"}

\* blockedByDependencies: work on such an item waits until the plan changes.
HeldUp(state, c) ==
    {i \in DOMAIN state.nodes : \E j \in state.nodes[i] : c.status[j] = "cancelled"}

(***************************************************************************)
(* The calls.                                                              *)
(***************************************************************************)

\* Every change of a contract is a new revision of it.
ContractMoves ==
    /\ plan.revision < MaxPlanRevision
    /\ \/ \E i \in ToSet(plan.items), s \in ItemStatus :
            plan' = [plan EXCEPT !.revision = @ + 1, !.status[i] = s]
       \/ \E items \in Plans \ {plan.items} :
            plan' = [plan EXCEPT !.revision = @ + 1, !.items = items]
    /\ UNCHANGED <<dag, planners>>

\* work-dag.ps1 reads the contract and hands it over.
ReadContract(p) ==
    /\ planners[p].read = NoPlan
    /\ planners' = [planners EXCEPT ![p].read = plan]
    /\ UNCHANGED <<plan, dag>>

\* A call ends; its answer tells the revision of the DAG or none.
Answered(p, told) == planners' = [planners EXCEPT ![p] = [told |-> told, read |-> NoPlan]]

\* get reads the file without the lock.
GetProjection(p) ==
    /\ planners[p].read # NoPlan
    /\ Answered(p, IF ContractView(planners[p].read) THEN dag.revision ELSE 0)
    /\ UNCHANGED <<plan, dag>>

\* seed: without a file only; with one it is answered and nothing is written.
Seed(p) ==
    /\ planners[p].read # NoPlan
    /\ LET c == planners[p].read
       IN  \E definition \in {DefaultDefinition(c)} \cup {Fits(g, c.items) : g \in Graph} :
             /\ dag' = IF Normalizes(definition, c) /\ dag = NoDag
                       THEN StateWith(c, definition, 1)
                       ELSE dag
             /\ Answered(p, IF Normalizes(definition, c) THEN dag'.revision ELSE 0)
    /\ UNCHANGED plan

\* The compare-and-swap of refresh.
ToldOf(p) == planners[p].told = dag.revision
AnyRevision(p) == TRUE
AsTold(p) == ToldOf(p)

\* refresh without a definition keeps the declared graph.
Refresh(p) ==
    /\ planners[p].read # NoPlan
    /\ LET c == planners[p].read
       IN  \E definition \in (IF dag = NoDag THEN {} ELSE {dag.nodes})
                               \cup {Fits(g, c.items) : g \in Graph} :
             /\ dag' = IF /\ StateIsValid(dag) /\ AsTold(p)
                          /\ Normalizes(definition, c)
                          /\ dag.revision < MaxDagRevision
                       THEN StateWith(c, definition, dag.revision + 1)
                       ELSE dag
             /\ Answered(p, IF ~AsTold(p) \/ Normalizes(definition, c)
                            THEN dag'.revision ELSE 0)
    /\ UNCHANGED plan

DagInit ==
    /\ \E items \in Plans :
         /\ Len(items) = 3
         /\ plan = [revision |-> 1, items |-> items,
                    status |-> [i \in PlanItem |-> "pending"]]
    /\ dag = NoDag
    /\ planners = [p \in Planner |-> [told |-> 0, read |-> NoPlan]]

DagNext ==
    \/ ContractMoves
    \/ \E p \in Planner :
         ReadContract(p) \/ GetProjection(p) \/ Seed(p) \/ Refresh(p)

DagSpec == DagInit /\ [][DagNext]_dagVars

(***************************************************************************)
(* Properties.                                                             *)
(***************************************************************************)

DagTypeOK ==
    /\ plan.items \in Plans /\ plan.revision \in 1 .. MaxPlanRevision
    /\ plan.status \in [PlanItem -> ItemStatus]
    /\ dag = NoDag \/ dag.revision \in 1 .. MaxDagRevision
    /\ \A p \in Planner : planners[p].told \in 0 .. MaxDagRevision

\* The pending items of a DAG that is shown as current never wait for nothing
\* but one another: one of them is ready, waits for an item in progress, or is
\* shown as held up by a cancelled one.
CurrentDagOffersWork ==
    LET Pending == {i \in ToSet(plan.items) : plan.status[i] = "pending"}
    IN  Current(dag, plan) /\ Pending # {} =>
            \E i \in Pending : \/ i \in Ready(dag, plan)
                               \/ dag.nodes[i] \cap InProgress(dag, plan) # {}
                               \/ i \in HeldUp(dag, plan)

\* A call that read an older contract than the DAG is bound to does not bind it
\* back: the DAG revision it was told precedes its reading of the contract, so
\* the file has moved on from that revision.
BindingNeverGoesBack ==
    [][dag # NoDag => dag' # NoDag /\ dag'.bound >= dag.bound]_dagVars
=============================================================================
