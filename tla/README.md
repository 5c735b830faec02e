# Verification of super-memory-brain

TLA+ modules, TLC configurations and TLAPS proofs for the concurrent and
crash-prone parts of super-memory-brain. Paths are relative to the repository
root; `R/` abbreviates `src/CORE/runtime/`, `S/` `src/CORE/scripts/`.

## 1. The system

super-memory-brain is a local "second brain" for coding agents. Agents reach it
through an MCP front end; behind that, a resident *scope broker* decides which
workspace, session and task a connection may speak for, and a set of scripts
keeps the state of the current task in files and an SQLite authority.

| Component | State it keeps | Operations | Talks to |
|---|---|---|---|
| Scope broker `R/scope_broker.py` | `registry.json` (durable worklines); in memory: channels, bindings, write leases, pairing refs, grants | register_workline, open/close/detach, pair_request, issue/attach/pair, status/authorize, renew, refresh | called by the server, or by threads of one process |
| Scope broker server `R/scope_broker_ipc.py` | broker instance, project-root sidecar (file and cache), bootstrap operations, last-seen times, shutdown flag | one handler thread per request; maintenance in the accept loop; start, stop | broker (calls, under `_lifecycle_lock` and `_binding_guard`), clients (socket) |
| Broker client and process lifetime `R/scope_broker_ipc.py` | endpoint and secret files, startup lock, lifetime lock | auto-start, endpoint takeover, retry, cancel after a lost answer | the server process, other clients (files) |
| Task state store `S/task-state-store.ps1` | staged transactions, event log, projections, snapshots, task authority (SQLite), outbox | commit entity / contract / bundle / completion, reconcile, compact | brain control (SQLite), every script |
| Execution contract `S/execution-contract.ps1` | the contract of a task: revision, phase, progress, return cards, ledger of transition receipts | Set, Get, Resolve, Guard, ResumeParent, ReturnToParent, CloseTurn, under a file lock and a compare-and-swap of the revision | task state store, instruction anchors |
| Turn runtime and close `R/turn_runtime.py`, `R/turn_close_dispatcher.py`, `R/continuation_policy.py`, `R/turn_intent.py` | open and close receipts, telemetry, closeout files, failure journal; one warm authority process per package stamp | open_turn, checkpoint_turn, close_turn; replay, reconcile, fall back from the warm to a cold process | execution contract (subprocess), broker (through the MCP process) |
| Activation receipts `R/activation_receipt.py` | one receipt file per scope | ensure_current, read_valid, activate | turn runtime |
| Failure-loop guard `R/failure_loop_guard.py` | none; the journal of a scope is kept by turn_runtime.py | evaluate, validate a receipt | turn runtime |
| Work DAG `R/work_dag.py` | one state file per task, bound to a contract revision | seed, refresh, project, under a file lock and a compare-and-swap | contract (read only) |
| Brain control `R/brain_control.py` | SQLite: task authority and outbox, cards and revisions, privacy requests, decisions, hand-off records, retention, instruction anchors and continuation receipts, migration records, schema versions; JSON files: native snapshot, intent projection | one BEGIN IMMEDIATE transaction per command, files published after it; the schema is upgraded at every opening | task state store, contract, UI, prompt hook |
| Instruction anchors (`R/brain_control.py`; `R/instruction_anchor_store.py` writes the same rows) | append-only SQLite rows per task and owner | observe, bind, receipt, restore | execution contract |
| Migration control `R/migration_control.py` | epochs, records, an archive of the sources, an adapter file | plan, stage, import, verify, cutover, rollback, for legacy files and Sandglass histories | brain control, the user's files |
| MCP front end `R/brain_mcp.py`, `R/brain_core.py`, `R/mcp_transport_health.py`, `R/scope_provider.py`, `R/local_scope_bootstrap.py` | a channel handle, a lease, the last context | start, serve one request after the other, reopen a lost channel, end | broker, turn runtime |
| Retrieval, CLI, UI, evaluation, install and rewrite transactions, wake core, Sandglass engine | various | various | see `PROJECT.json` |

What is hard in it, and the properties that make each part correct:

* **Scope broker.** Two tables (`_bindings`, `_write_leases`) kept in step by
  seven methods and by expiry; operations that release a lock in the middle and
  go on with what they saw (attach, issue, refresh, close, register). Correct:
  one writer per workline and no lease entry without its writer; a one-shot
  grant is spent once; the durable revision never goes back.
* **Broker server.** A bootstrap writes two files and four tables and must be
  undone after a failure at any point, an undo that can fail too; answers get
  lost; the process dies between two files; maintenance and shutdown race with
  handlers. Correct: what `authorize` answers is what is durable; what was
  acknowledged survives; the undo neither revives nor drops what others did;
  a stopping broker admits nobody; an unclaimed channel is taken back.
* **Process lifetime.** Several processes fight over one endpoint file, one
  secret and one lock. Correct: one broker at a time, whose endpoint
  names it; a client takes from a serving broker no pair but one published
  while it looked.
* **Task state store.** A staged transaction over many files and a database,
  recovered by replay. Correct: atomic to its readers, recovered after a crash
  at any point, idempotent, terminal completion is final.
* **Turns.** A turn reads contract, proof and pairing a dozen times without a
  lock; a mutation is retried on another process after a timeout, and the first
  one may still write. Correct: applied once and reported truly; what a turn
  does rests on one revision of the contract; the warm process is watched, and
  is never older than the package its caller saw.
* **Hand-offs.** A task and its intent change sessions by issue, consume,
  finalize and a later write of the successor, or by an older one-call rebind.
  Correct: an authorization moves them once, and readers of the projected
  files are not misled.
* **Cards, retention, migration.** Transactions surrounded by reads and file
  writes that are not part of them; the user acts meanwhile. Correct: a
  forgotten text is not offered again, a purge is of the forgetting that was
  previewed, a restored card is protected, a rollback spares the user's cards,
  an import is of the bytes that were reviewed.
* **Instructions.** The guard of work reads contract and anchors without the
  lock under which they are written in several steps. Correct: work does not
  pass over what the user said before.
* **Schema.** Statements commit one by one while other processes open the
  database. Correct: no stored row is lost.

## 2. Plan

1. `ScopeContract`, `ScopeBroker`, `ScopeBroker_proofs` - done.
2. `ScopeBrokerServer`, `ScopeBrokerQuiet`, `BrokerLifetime` - done: the server's
   locks, files and compensation over the broker's effects; the server once its
   clients have left; the processes and their endpoint.
3. `TaskStateStore` and its abstraction `TaskLog` - done for the four
   transactions, Reconcile, the outbox and Rebuild, with the refinement.
4. `TurnClose`, `TurnLifecycle`, `AuthorityWorker`, `TurnEvidence`,
   `FailureLoop`, `WorkDag`, `Instructions` - done.
5. `SessionRebind`, `MemoryCards`, `Decisions`, `TaskRetention`,
   `SchemaUpgrade` - done: what brain control keeps.
6. `Migration`, `MigrationSource`, `McpServer` - done.
7. Open: card drafts and the search outbox, quarantine and compaction of the
   task store, route checkpoints and the other transitions of the contract,
   install and rewrite transactions.

What is proved is in section 6, what is left to TLC in section 7.

## 3. Modules and code

### ScopeContract

Worklines, contract versions (revision and hash) and `Accepts`, the rule of
`_refresh_existing_workline`. A workline stands for the identity tuple
(workspaceKey, ownerSessionKey, taskId, taskInstanceId).

### ScopeBroker (`R/scope_broker.py`)

A step is one critical section: everything between taking and releasing
`_memory_lock` or the registry lock. An operation of several sections parks its
thread in `op[t]` with the local variables it carries on: `attach_channel` is
`AttachBegin` (first section), `AttachLookup` (durable lookup without a lock),
`AttachBind` (recheck and binding); `close_channel` is `CloseBegin`,
`CloseForget`; `refresh_bound_contract` is `RefreshBegin`, `RefreshCommit`,
`RefreshProject`, `RefreshRestore`; and so on. A call reads the clock once,
before it waits for its first lock, so a section may work with an old reading,
as in the code; the single-section `PairRequest` and `BindNewChannel` get that
reading as the parameter `at`. `_expire_bindings`, `_expire_pairing_requests` and `_prune_grants`
are the operators `LiveBindings`/`LiveLeases`, `LiveRefs` and `PrunedGrants`,
applied where the code calls them.

Abstracted: identifiers (a channel is never reused, a grant is its number in
order of minting, a lease a counter), the token's hash, record validation,
capacity of sessions (one per owner), timestamps in the registry.
`opened`, `minted`, `leases` and `spent` are history.

### ScopeBrokerServer (`R/scope_broker_ipc.py`)

The request that holds `_lifecycle_lock` is the record `cur`, and it holds
`_binding_guard` exactly at the steps in `Guarded`. Requests that take the guard
only (`Request`, `DetachChannel`, `CloseChannel`, the reaper) are single actions
enabled while it is free. Every file write may fail; between any two steps the
process may die (`Crash`), which leaves `registry` and `sidecar` and nothing
else. `BootstrapRegister`, `BootstrapRoots`, `BootstrapBind` are the three
effects of `bootstrap_bound_channel`; `UndoRegistry` and `UndoSidecar` its
compensation, each restore of which may fail. `client`, `inbox` and `owned` are
the client's side: a lost answer (`delivered = FALSE`), a timeout (`GiveUp`),
the cancel that follows.

Time is abstracted to choices: the leases found lapsed by a section are any
subset of the bound ones, and a bootstrap record may be overdue when the reaper
looks; `stale` remembers which channels have exhausted their grace. Whether a
project directory is there is a choice at each look.

The registry and the sidecar are functions (`Entries`): what `_registry_valid`
and the sidecar's loader accept has one record of a workline at most.

Not modelled: request authentication and its replay cache, socket framing,
the query methods that change nothing.

`ScopeBrokerQuiet` extends the module by the moment from which nobody calls any
more (`Leave`). After it a bootstrap that had been received is still served, a
client may stop waiting, the process may die, stop and start, and the accept
loop does its maintenance. It is the only specification that states fairness.

### TaskStateStore (`S/task-state-store.ps1`, task authority of `R/brain_control.py`)

One task. `journal`, `projection` and `files` are its event file, its projection
file and the files a transaction replaces (`Slots`: context, checkpoint, task
card, and what a completion leaves); `sql` and `outbox` are the head revision
and the outbox rows in SQLite; `lock` is the mutation gate. Each process is in
`op[p]`: the transaction it runs, the commands still to come, the backups
taken, and whether it is the original writer (`direct`), the replay of a
prepared event (`replay`) or of an outbox row (`outbox`). The content of a file
is the revision whose transaction brought it.

The order of the steps is the code's, and differs by kind:

| kind | steps |
|---|---|
| entity, bundle, completion | authority, prepared event, files, (check), committed event, projection, delivery, publication, clean-up |
| contract continuity | prepared event, files, check, authority (`Bind`), committed event, projection, ... |
| replay of a prepared event | as above from the files on |
| replay of an outbox row | files, check, committed event unless there is one, projection, delivery, publication, clean-up |

An exception (`Fail`) does what the handler of that function does (`Unwind`
before the committed event, `FailLate` after it), a death (`Crash`) nothing.
`ReconcileRead`, `OutboxRead` and `RebuildRead` read without the lock, as the
code does; what they read is used under it later.

Abstracted: hashes (equality of contents), identifiers (`NewId`), staged
payloads (always there), the owner and evidence checks of a commit, commands
beyond one per slot. The final read of files and projections by other scripts
is not an action: the invariants say what they would see.

### TaskLog, and how the store implements it

`TaskLog` is what the store promises of a task: an image per revision, each
accepted by the authority, then committed, then published, until completion.
`ImplementsLog` in `TaskStateStore` maps what the journal replays to to `image`,
the authority's head to `accepted`, the newest outbox row whose delivery is
final to `published`. `broken` is mapped to "the journal no longer replays":
`JournalReplays` is refuted (section 5), so the store implements the log up to
that point only. As long as it is not broken the refinement says that no update
is lost, that nothing is published before it is committed, and that the
authority leads the journal.

### BrokerLifetime (`R/scope_broker_ipc.py`)

Clients (`_ensure_endpoint`, `close`) and broker processes (`_start_locked`,
idle shutdown, `stop`) over the two lock files and the two endpoint files, a
step per file operation. A process is its number: pid, instance and secret.
Any process may die at any step. Liveness of a stop is not checked here.

### The turn: TurnLifecycle, TurnClose, AuthorityWorker, TurnEvidence, FailureLoop

* `TurnLifecycle`: `open_turn`, `checkpoint_turn`, `close_turn` as their reads
  and writes of contract, proof and pairing, one step each; a context alone is
  four of them (`ReadTurnContext`, `ReadTurnContract`, `CompareScope`,
  `ReadProgress`), a binding two (`Bind`, `Rescope`). One look at the project
  reads all its files at once. `Interferes` is what other sessions, the user's
  editor and the broker do in between; files may be put back as they were, the
  channel may be lost. `stood` and `stages` are history.
* `TurnClose`: the calls that mutate the contract, with the warm and the cold
  process of `_invoke_contract`, their timeouts, and late authorities
  (`attempts`) that commit afterwards or never; the ledger of transition
  receipts with its limit; replay and reconcile.
* `AuthorityWorker`: the warm process itself. `workers` are the
  `_AuthorityWorker` objects, `routed` the channel table and its key,
  `reapers` the threads of `_reap_idle` with their stop events. `ReadStamp`,
  `TakeChannel`, `ShutDown` are `_invoke_warm_authority`; `SendRequest`,
  `RequestRefused`, `TakeResult`, `GiveUp` are `invoke`. A process reads the
  worker's script some time after it was started. That a terminated process
  is dead is assumed here; TurnClose has the opposite.
* `TurnEvidence`: activation receipt, open or close receipt and telemetry entry,
  each under a lock of its own, and the learning candidate staged from them. The
  journal's hash covers `updatedAt`, the time of its write in seconds; the model
  counts writes. That differs only for a journal whose window slides through
  other events and back to the same ones within one second.
* `FailureLoop`: the journal of failures and reservations and the guard that
  reads it; a lapsed reservation is dropped while its attempt may still run.

### WorkDag and Instructions

`WorkDag` (`R/work_dag.py`): seed, refresh and projection of the DAG file
against a contract that moves; `DetectCycle` is the code's search over the
declared dependencies, with `walk` as a recursive function of the items that
are being visited. An item of the plan may be cancelled, and `HeldUp` are the
items the projection then shows as blocked by a dependency (`blocked` is accepted
by the DAG but never given by the plan). `Instructions` (`R/brain_control.py`,
`S/execution-contract.ps1`): anchors as append-only rows, a Set in its steps
(observe, append, publish the contract, record the receipt), the guard of work
and the restore of a session as their separate reads.

### Brain control: SessionRebind, MemoryCards, Decisions, TaskRetention, SchemaUpgrade

A BEGIN IMMEDIATE transaction is one action; what the code reads or writes
before and after it are actions of their own, and a process may die between
them.

* `SessionRebind`: the recovery reference (issue, consume, finalize, query,
  revoke, expiry), the two older one-call rebinds, the intent resolution and
  task mutation that use an authorization, and the projection file of the
  intent's head. `subject` says whether the intent or the task is followed;
  `reused` that a resolution was refused for another's command id, which takes
  the marker of that other command away.
* `MemoryCards`: one card's commands, its revisions, tombstone and purge
  requests, and the native snapshot with its dirty marker.
* `Decisions`: resolve, record, and the two-step validation of a completion. A
  card that is not `sound` (content hash, payload, an unconfirmed gate) is an
  error: it binds nothing and the resolution is withheld.
* `TaskRetention`: look, sweep and restore by the day.
* `SchemaUpgrade`: `_migrate` statement by statement, versions 1 to 18, with
  the two retention tables that version 17 replaces followed row by row. An
  opener's place is a version and a statement of it; what every opening does
  before a version's script (a column looked for and added) comes first.
  `kept.cut` is history: an opening broke off while it replaced those tables.

### Migration and MigrationSource (`R/migration_control.py`)

`Migration` follows epochs, records, cards and adapters through stage, import,
verify, cutover and rollback, a step per read, file or transaction;
`MigrationSource` what the same operations read of the user's files and of the
archive, file by file. Both let the process die at any step, and the user act.

### McpServer (`R/brain_mcp.py`, `R/scope_provider.py`)

One process: identify, open the channel, serve a request (renew, ask, probe,
reopen, ask again), refresh, close. The instance the handle is told may be none,
when the broker does not answer the health check. The broker restarts, revokes,
rebinds and lets leases lapse between any two calls.

### MCControlPlane

One TLC run for the sixteen modules from `BrokerLifetime` on. They share no
state in the model (what the code shares is modelled in each from its own
side), so each property depends on its own module's variables; `focus` picks
the component that runs and the others stay as they start. The run's states are
the sum of the modules' states instead of their product, which would show no
more about any one of them.

### Fairness

The accept loop does maintenance only when `accept` times out (0.25 s), so a
broker that is called without pause need never reap: handlers may take every
turn of the loop. Nothing is promised of it, and nothing claimed; `PROJECT.json`
lists that as a hazard. `LiveSpec` of `ScopeBrokerQuiet` therefore assumes weak
fairness only, and of the broker's own maintenance only once nobody calls any more
(`left`): then each `accept` times out, so maintenance (`MaintenanceAlone`) and
the passing of a channel's grace (`GracePasses`) go on. A request that holds the
lifecycle lock is finished at any time: every wait in it is bounded. No fairness
of clients, restarts or crashes is assumed. Every other property is safety.

## 4. Runs

| Run | Module, cfg | Checks | Bounds | Size |
|---|---|---|---|---|
| `scope_broker` | `MCScopeBroker`, `.cfg` | `TypeOK`, `WriteLeaseIsTheWriter`, `GrantPaysOnce`, `DurableRevisionAdvances` | 2 threads, 2 channels, 2 worklines, revisions 0..1, 1 grant, 2 leases, time 0..1 | 588K states |
| `scope_broker_close` | `MCScopeBrokerClose.cfg` | `ForgottenChannelIsUnbound`, violated | as above | stops early |
| `broker_server` | `MCScopeBrokerQuiet`, `.cfg` | `TypeOK`, `AuthorizedScopeIsDurable`, `AcknowledgedContractSurvives`, `ChannelTableIsKept` (no channel is revived, the undo drops nobody's, a stopping broker admits nobody), `OrphanIsReaped` | 1 workline, 2 channels, revisions 0..1, 1 operation with a token and any without, 1 crash; the clients leave at any moment | 1.1M states |
| `broker_server_settled` | `MCScopeBrokerServer`, `...Settled.cfg` | `SettledLeavesNothing`, violated | as above | stops early |
| `broker_server_expiry` | `MCScopeBrokerServer`, `...Expiry.cfg` | `ExpiryGrantsGrace`, violated | as above | stops early |
| `task_store` | `MCTaskStateStore`, `.cfg` | `TypeOK`, `OneTransactionAtATime`, `ProjectionIsAReplay`, `FilesFollowJournal`, `PreparedCanBeReplayed` | 2 processes, 2 revisions, 2 faults | 672K states |
| `task_store_outbox` | `MCTaskStateStoreOutbox.cfg` | `DeliveredInOrder`, `CompletionIsFinal`, `ImplementsLog` | 2 processes, 3 revisions, 1 fault, card commits only | 306K states |
| `task_store_rollback`, `_journal`, `_delivered` | `MCTaskStateStoreRollback.cfg`, `...Journal.cfg`, `...Delivered.cfg` | `RollbackBeforeCommit`, `JournalReplays`, `DeliveredIsCommitted`, each violated | 2 processes, 2 revisions, 1 fault | stop early |
| `control_plane` | `MCControlPlane`, `.cfg` | see below | see below | 1.6M states, 2.5 minutes with 2 workers |
| `cards_forgotten` | `MCMemoryCards.cfg` | `ForgottenNeverRolledBack`, violated | 1 writer, 4 commands | stops early |

`control_plane`, by component:

| focus | Checks | Bounds | States |
|---|---|---|---|
| rebind | `OneHandOffAtATime`, `ReaderIsNotMisled`, `IntentMovesOnFreshAuthority` | 2 sessions, 4 steps, 1 publisher; a refused reuse of a command id ends it | 151K |
| turn | `TransitionsAreTrue` | 2 callers, 1 checkpoint, 1 turn id, ledger of 1, 2 writes | 127K |
| lifecycle | `TurnRestsOnOneRevision` | 2 task lines, 3 revisions, 2 versions of the project; two calls and one move of others, the second call after a closeout or a return; or one open to act on and two moves | 185K |
| worker | `ResidentIsWatchedAndCurrent` | 2 threads, 2 channels, 2 reapers, 1 file replaced, 1 request per process | 252K |
| evidence | `EvidenceIsTraceable` | 2 turns, 1 learner, 3 turns begun, 4 receipts, telemetry of 2 | 81K |
| failure | `BudgetIsSpentOnce` | 3 attempts, 1 failure, 2 contexts | 26K |
| dag | `CurrentDagOffersWork`, `BindingNeverGoesBack` | 2 planners, 3 items, three dependency graphs, 2 plan revisions, an item may be cancelled | 18K |
| instruction | `UserIsHeard` | 2 sessions, 2 anchors, 3 Sets | 67K |
| card | `LoneWritersFailClosed`, `PurgeIsOfThisForgetting` | 2 writers, 2 commands, two histories | 188K |
| decision | `CompletionIsEarned` | 2 decisions, sound or not, 2 revisions, 2 receipts | 67K |
| retention | `RestoredCardIsProtected` | 1 viewer, 5 days, 2 revisions, 2 settings | 4K |
| schema | `UpgradeLosesNothing` | 2 openers, 3 starting versions, 1 row, 2 openings | 51K |
| migration | `OnlyItsOwnCards`, `RollbackSparesTheUsersCards` | 2 migrators, 2 epochs, 1 item, 3 operations | 60K |
| source | `ImportedAsReviewed` | 2 files, 4 contents, 2 histories, 2 edits | 62K |
| life | `EndpointNamesTheHolder`, `OnlyAFreshPairIsLost` | 2 clients, 2 brokers | 73K |
| mcp | `ScopeIsItsOwn` | 2 worklines, 2 instances, 2 channels, 1 binding | 170K |

Why the bounds suffice:

* *Broker.* The races are between two critical sections, so two threads show
  each of them; two channels compete for one workline, two worklines for one
  channel; revisions 0 and 1 give an advance, a conflict and a replay of the
  same revision; one grant and the capacity of one give spent, live and full.
* *Server.* One request at a time holds the lifecycle lock by construction, the
  rest compete for the guard; two channels let one be reaped while the other
  binds; one crash splits any two writes.
* *Task store.* Two processes: the one that dies or waits and the one that
  recovers. With two revisions there is a first transaction to build on and a
  second that is interrupted; two faults let the recovery itself be
  interrupted. Three revisions are needed for two outbox rows to wait at once
  and for anything to come after a completion; they are checked with one fault.

The properties of the task store's files and projection are about steps and
about what a recovery can rely on, for more would be false of the code:

* `FilesFollowJournal` is an action property. A settled file need not be what
  the journal ends with: a rebuild that computed its projection from an older
  journal puts that projection back, and a caller that listed the outbox before
  then delivers the old row over a file written (or removed) since. It takes
  three processes. What does hold is that every change of a file is between what
  a recorded transaction saw and what it leaves there.
* A continuity is left out of `CommittedStays`: its writer may put files back
  after its committed event, which is what `RollbackBeforeCommit` refutes.
* `ProjectionIsAReplay` supposes that what was committed at a revision is what
  the authority accepted for it (`CommittedAsAccepted`). A continuity that is
  replayed while another transaction holds its revision adopts that revision; if
  it commits and stops before the delivery, the other's outbox row is delivered
  over it. It takes three faults; the flaw behind it is the one
  `DeliveredIsCommitted` refutes.
* `PreparedCanBeReplayed` claims of the files only what holds while the writer
  is alive to the instant it dies. Later, a late delivery may overwrite a file
  the prepared event speaks of (three revisions, two faults: a continuity that
  was rolled back after its committed event, and another transaction prepared
  on the file it left).

These instances, and the simulation of three processes, five revisions and five
faults, were run once by hand; the runs above use the smaller ones.
Some properties of `control_plane` say less than one would like, because the code
does less; their comments give the exact words:

* `BudgetIsSpentOnce` bounds the failures and reservations on record. An attempt
  whose reservation lapsed may still run beside the one that took its slot.
* `CurrentDagOffersWork`: a pending item behind a cancelled one is never ready; the
  projection shows it as blocked by its dependency and that is the way on.
* `TurnRestsOnOneRevision` asks for one instant only of a plan, which binds the
  contract twice. For a light continuation file, projection and proof may have
  been right at different instants of the call.
* `UpgradeLosesNothing`: no row is destroyed. That the retention tables are in
  place holds as long as no opening broke off inside version 17.
* `CompletionIsEarned` counts every gate that was active at the check, also one
  that was not fit to bind; a withheld receipt passes the check and answers not ok.
* `ReaderIsNotMisled` ends with the first refused reuse of a command id.
* `OnlyAFreshPairIsLost` excepts the pair published while a client looks.
* `EvidenceIsTraceable`: the first clause holds for turns that do not write between
  each other's two files.

`CompletionIsFinal`, `ProjectionIsAReplay` and the second half of
`PreparedCanBeReplayed` suppose that the journal replays (`JournalReplays` is
refuted); `ImplementsLog` does so through `broken`.

* *The components of `control_plane`.* Two actors of each kind where a race
  needs two, one more revision, file, day or command than a single clean course
  takes, so that something can come after it. Larger instances were run once
  and hold: two checkpoints in `TurnClose` (572K states), three anchors with
  three Sets in `Instructions` (373K), three stamped files or three reapers in
  `AuthorityWorker` (466K with both scripts and the manifest; 2.0M with three
  reapers), three openings in an earlier form of `SchemaUpgrade` that had fewer
  statements (286K). In `TurnLifecycle` the bounds are one move of others
  between the looks of two calls, and a move and its undoing between the looks of
  one; the second workline is there to be paired with, and its contract does not
  move. Any two calls with one move, and any acting call with two, were run once
  (696K states), as was `SessionRebind` going on after a refused reuse (385K).

The runs of the broker and of the store check for deadlock: at every bound some
process can still read or give up. `control_plane` and `cards_forgotten` do
not: there, a behaviour ends when the commands, days, openings or attempts its
bounds allow are used up.

## 5. Disagreements found

Each is a run of its own, with the quotation in `PROJECT.json`.

* `close_channel` forgets a channel in a second critical section and does not
  look at the bindings again; a `pair_request` in between leaves a forgotten
  channel bound and holding the write lease (in process only; the server's
  guard closes the gap).
* A cancel that overtakes its bootstrap is answered `ALREADY_SETTLED`; the
  bootstrap then binds a channel that only the reaper's grace removes.
* A lease that another client's request expires gives its channel no fresh
  grace period: the next maintenance pass closes it.
* `Commit-ContractContinuity` never sets `$durableCommit`: a failure after its
  committed event puts the old files back behind journal and authority.
* `Reconcile` commits a transaction a second time when its owner appended the
  committed event after the journal was read and never reached the projection;
  from then on the journal has a revision gap for every reader.
* The replay of a contract continuity takes an authority at its target revision
  for its own and acknowledges the outbox row of another transaction.

* `rollback_card` promises that a forgotten card is not restored; a forgotten
  card that is superseded first is.

### Seen while modelling

Noted from the code and from counterexamples while the modules were written;
no run is kept for them.

Task, turn and contract

* The comment in `_invoke_warm_authority` says the resident process dot-sources
  the package scripts once; `execution-contract-worker.ps1` runs the contract's
  script anew for each request, so only the worker's own script can be stale.
* A checkpoint reported as failed and safe to retry may have been written, by a
  late authority (`turn_close_dispatcher.py` 1642-1711).
* A Set that lost the race leaves its canonical-status file (1068-1076); a
  reconciled Set skips the refresh of the broker (1638-1652); a checkpoint
  reconciled without a bundle adopts a newer revision than the one it judged.
* After `ReturnToParent` committed, a lost channel or a moved contract withholds
  the whole close (`turn_runtime.py` 4084-4150; comment at 4102). A nested
  checkpoint that was partly committed does the same near 3833.
* A checkpoint with intent "direct" commits its Set and then takes a path that
  has no context to refresh (`turn_runtime.py` 3605); so do a checkpoint and a
  close of a session-less turn (3477, 3843).
* A pairing that moves inside a checkpoint or close mixes two worklines.
* Telemetry and receipt of a turn that died between the two writes keep its
  scope from being read as current (`turn_runtime.py` 1793-1832).
* The failure guard refuses every receipt that both resets the budget and saw
  the failure in another context.
* A reservation is to outlive its attempt (`_reservation_ttl_for_timeout`). If the
  attempt takes longer, the reservation is dropped, another attempt reserves the
  same failure, and two of them are under way.
* `context` compares the broker's hash with the contract's only if there is one
  (`brain_core.py` 2180-2184): a channel lost just before skips the comparison.
* A light continuation reads contract, projection and project one after the other
  and once only: with files put back meanwhile it is answered on a revision that
  never fitted the files while it was on file.
* A pending item behind a cancelled one stays pending: the DAG is shown as current,
  offers nothing and names the item as blocked (`work_dag.py` 360-361).

Sessions and instructions

* An applied task hand-off keeps blocking the next one (`brain_control.py`
  4471-4518).
* A resolve that reuses another command's id is refused, and removes the marker
  of that other command (`brain_control.py` 6019-6023): until the next publication
  a reader may take the older projection for current.
* A continuation receipt recorded under a pending instruction is reported as
  current (2957-2963); receipts follow A-B-A of a contract (3005-3063).
* An explicit Set with another text binds a new anchor over an unread one
  (`execution-contract.ps1` 4132-4178). After a hand-over there and back, an
  answered anchor of the returning session counts as pending.

Cards, retention, schema

* Two writers of the native snapshot can leave an old text without a marker,
  against the comment near `brain_control.py` 7273; the purge preview's expiry
  update is rolled back with its own error (12085).
* A sweep of task cards with an older reading leaves a card in needs_review; a
  restore restarts the day count, so a card can outlive the fixed evidence
  cutoff (10057, 10502).
* Version 17 promises to migrate both retention tables atomically and to preserve
  every receipt (2285-2289). Its statements commit one by one: a death between
  them leaves rows under the `_v1` names and every later opening fails; and a
  second opener that read the list of versions before the first recorded 17 may
  rename the new tables once the first has finished, and die. Then 17 is recorded
  and nobody repairs it. A death inside versions 1 to 3 makes every later opening
  fail, as their tables must not exist.

Migration

* The archive is described as what import reads (`migration_control.py` 91-98);
  import reads the user's files again. The index whose hash a manifest records
  need not be the one whose parity it states.
* A death between manifest and row, or a second stager's backup, leaves the
  epoch unusable (1183-1231); verify has no guard on the status and can
  overwrite cutover or rolled_back (1440-1482); cutover checks first and acts
  later (1484-1532) and accepts a Sandglass epoch. A rollback that died between
  batch and record is stuck (1120-1144).

Broker and MCP process

* The client removes a pair it takes for stale under the startup lock only.
* A broker that restarts between opening a channel and reading its instance
  leaves the MCP process without a channel until it restarts.
* `brain_mcp.handle_tool` reads the runtime identity twice (1183-1200, 1229).

## 6. Proofs

TLAPS proves what follows for every value of the constants that satisfies the
modules' assumptions. Most of the properties are not inductive: they speak of an
answer, a file or a verdict, and rest on what somebody did some steps earlier.
Each component therefore has an inductive invariant, checked by TLC on a small
instance before it was proved; the proof has one lemma per action (actions that
only move a process on share one), a step per conjunct, and a theorem that
combines them with PTL. Everything below also says that the types are invariant.

**`ScopeBroker_proofs`** (`ScopeBroker`): `OneWriter`, `GrantSpentOnce`,
`RevisionAdvances` (an action property). `IInv` adds to the first two
`BoundIsOpened`, a binding is of a channel that was opened, so a fresh channel
gets its first binding without another lease naming it; and `SpentGrantIsUsed`,
a grant that paid is marked used or gone, which is what the second section of
`attach_channel` looks at.

**`ScopeBrokerServer_proofs`** (`ScopeBrokerServer`): `AuthorizedIsDurable`,
`AcknowledgedSurvives`, `ChannelTableKept`. They speak of the moments at which
somebody may look. `ServerIInv` says what holds while the guard is held: a
registration in progress works for the contract that is in the registry, memory
and file differ only in a compensation whose registry write failed, and what a
bootstrap noted for its undo is still good to go back to. (TLC: 545K and 557K
states.)

**`BrokerLifetime_proofs`**

* `BrokerLifetime`: `PairNamesHolder`, `ServedPairIsKept`. `LifeIInv`: who has
  either lock, how far a broker is that is named in one of the two files, and
  that the client that is about to remove them saw no owner or works on a pair
  that appeared under its own startup lock. (73K)
* `McpServer`: `ScopeOwn`. `McpIInv`: whatever is bound while a request runs was
  seen in that request, and so was what the request was told; and the instance
  the handle knows is no older than the broker of any channel it held, except
  while it asks for it. The second half is what makes a channel replaced only
  after a restart; an instance that is not known replaces nothing.

**`TaskStateStore_proofs`** (`TaskStateStore`): `OneAtATime`,
`DeliveryIsInOrder`, `CompletionStaysFinal`, `StoreImplementsLog`,
`ProjectionReplays`, `FilesFollow` (an action property), `PreparedIsReplayable`.
The invariant has four parts. `StoreIInv` holds whatever happens: every revision between the
journal's end and the authority's head has an outbox row, an id stands for one
transaction wherever it was written down, at most one prepared transaction has
no committed event, and the process inside the lock, or waiting with something
it read before, is based on what is still there. `LogIInv` holds as long as the
journal replays: the head is at the journal's end or one past it, a completion
is the last thing in it. Facts about all of the journal are proved by taking the
first event that would contradict them. `StoreImplementsLog` is the refinement of
`TaskLog`: every step of the store is a step of the log or leaves it alone, and a
commit that leaves a gap sets `broken`. `ImageIInv` follows the projection while
the journal replays: the authority has one image to a revision, the image of
each committed event and the projection are what some part of the journal
replays to, a prepared transaction was made on top of such an image, the holder
of the lock works on top of the projection, and a waiting rebuild holds an image
the journal was replayed to. `FilesIInv` follows the files slot by slot for the
holder of the lock: its backups are what its transaction saw, commands left are
about slots the transaction touches, what is no longer to come is written, and a
direct writer, which has no committed event yet, finds in its slots what it saw,
what it wants or something foreign. Images are a recursive function of the length
of the journal; that there is one (`ImagesExist`) is proved by the least length
without. (672K and 306K; 3 revisions with 2 faults, 2 revisions with 3)

**`BrainControl_proofs`**

* `Decisions`: `CompletionEarned`. `DecisionIInv`: one verdict per receipt and
  item, and a validation between its two steps asks for results of every gate that
  was active at its check, unless its receipt was withheld, in which case it answers
  nothing.
* `SessionRebind`: `OneHandOff`, `ReaderNotMisled`, `IntentMovesOnce` (an action
  property). `RebindIInv`: what was handed off and is not carried out, or not
  projected, is marked so, unless a refused reuse of a command id took the mark
  away (`Laid`); what a publisher holds is not newer than the head.
* `MemoryCards`: `SnapshotFailsClosed`, `PurgeIsOfTheHead`. `CardIInv`: what the
  marker of a lone writer covers, and which revision a tombstone and a purge
  request are of. (188K; 1.2M with 3 commands)
* `TaskRetention`: `CardsAreProtected` (an action property). `RetentionIInv`:
  from which day a card counts and which cards have evidence. (277K with 2
  viewers)
* `SchemaUpgrade`: `UpgradeKeeps`. The property speaks of what is recorded; an
  opener goes by what it read when it began. `SchemaIInv`: what is recorded is a
  prefix of the versions, every version behind an opener is recorded and what the
  statements behind it make stands, in place or set aside; whoever has renamed a
  table finds it under its old name, nobody else has renamed it too, and once its
  rows are copied the new table has them all, so the drop loses nothing; and as
  long as no opening broke off, a table that is set aside is in the hands of an
  opener. The scripts are sequences
  that are written out, so the first lemmas say what kind of statement each place
  of each version holds (`StatementIs`), and the steps use nothing else of them.
  (51K)

**`TurnRuntime_proofs`**

* `TurnLifecycle`: `TurnOnOneRevision`. The property looks at an answer and at
  the stages left, and asks when the pieces were so: `stood` notes the revisions on
  file, the projected one, the versions of the files and the revisions that fitted
  them, at each instant of the call. `LifecycleIInv` follows the view a call works
  from. Whatever a call has in view was on file, and what it saw an assistant show
  was proved by the files, each at some instant (`RestsOn`). A contract never comes
  back to a revision (`Remembers`), so if the second reading of a plan finds the
  revision of the first, it was on file in between, when the project was looked at,
  and one instant had both; until then the view is `Unsure`. A call continues only
  from a view that is `Sound` and was projected, through every open, bundle and
  repair (`Carries`). And as the contract in view is the one on file or older, a
  closeout is of the formal stage that was seen.
* `AuthorityWorker`: `ResidentCurrent`. `WorkerIInv`: where a thread can be with
  which channel, stamps are never ahead of the package, and what a process that
  loaded its script owes to everyone who was given its channel.
* `FailureLoop`: `BudgetSpentOnce`. The property adds the sizes of two sets, and
  the finish of an attempt moves its receipt from one to the other; `OwnersHold`
  ties a reservation to its attempt, `FailuresHold` a recorded failure to its own,
  and `ReceiptsAreSpent` says that no receipt is on record twice.
* `TurnClose`: `TransitionsTrue`. `TurnIInv` follows what a call shows from the
  process that wrote it, warm or cold, in time or late, through the ledger, which
  forgets but never holds what was not written, to the call and its answer. (1.4M
  with 2 checkpoints)
* `TurnEvidence`: `EvidenceTraceable`. `EvidenceIInv`: a new receipt has a stamp
  no event has; without a crossing one turn at most is between its two files and
  its receipt is in its file; and what the last check of a capture finds was so at
  its first, because revisions and writes of the journal only count up. (1.0M with
  4 turns, 3.1M with 2 intents and 6 receipts)
* `WorkDag`: `DagOffersWork`, `BindingOnward` (an action property). The first is
  about the search: among pending items of which none is ready, waits for one in
  progress or is held up by a cancelled one, each has a dependency among them, and `CycleIsFound` shows that `walk` then comes back to
  a visited item, by taking a least set of items that are still to be visited;
  that `walk` exists at all is `WalkExists`. `DagIInv`: the file orders the items
  it is bound to, its binding is of a contract that was there, and a planner that
  was told the file's revision has read no contract older than the binding.

**`Instructions_proofs`** (`Instructions`): `UserHeard`. The guard reads contract
and anchors at two moments. `InstructionIInv`: a contract, also the one a Set is
about to write, has answered what came before its anchor, and anchors are only
appended, so nothing of that owner came after it between the two reads. (373K
with 3 anchors)

**`Migration_proofs`**

* `MigrationSource`: `ImportIsOfTheReview`. `SourceIInv`: what the review shows is
  one scan, archive and cards come of the plan, a staged epoch has copied every
  file with a hash, and an operation between two reads has only records of the
  plan left to do. (62K)
* `Migration`: `OwnCards`, `RollbackSpares` (an action property). `MigIInv`: the
  card of a record or of an adapter's list exists and that epoch made it, also in
  the list a cutover carries; a card found at the revision imported was not moved
  since. (60K)

Assumptions. Each is a named ASSUME of the module that declares the constants,
and TLC evaluates it: bounds are numbers (positive where the code has at least
one of the thing), the null value is none of the values it stands beside
(`NoneAssumption`, `NoneIsNoRecord`, `NoneIsNoGrant`, `NoneIsNoBinding`,
`NoneIsNoReceipt`), a set that something is chosen from is not empty, and
`HistoriesAssumption` says what a card has been through before the model starts.
`LifecycleAssumption` gives the progress checkpoints a caller may bring their form.
Sets of processes, sessions, clients, channels and texts are any sets; where a
proof counts members of one that grows, it is shown to be finite. What the
assumptions do not cover is what the modules leave out (section 3 and below).

## 7. What is only model-checked, and what is not modelled

Only model-checked:

* `OrphanIsReaped`, about a broker that nobody calls any more: liveness under
  fairness, and with it ENABLED, is out of the prover's reach;
* `MCControlPlane`'s `TypeOK` puts together the types of its sixteen modules;
  each of them is a theorem about its module's own specification;
* the violations of section 5, each by a counterexample.

Not modelled, and why:

* request authentication, the nonce cache and socket framing of the broker:
  one request in, one answer or none out is what the models take from it;
* in the task state store: `Record` and `Import`, maintenance completions,
  `task_quarantine`, `projection_path_rebind`, the reconcile of ambiguous states,
  compaction, restoring a lost journal from a snapshot, the index file, entity owners and
  the transfer of a task to another session, several tasks (one task's outbox
  can hold up another's publication);
* whether recovery makes progress: the hazards list two ways it cannot;
* in brain control: card drafts, batches other than a migration's, the decision
  index, the search row and outbox of a card, actor receipts, queries;
* in the contract: route checkpoints, pointers and the transitions other than
  Set, ReturnToParent, ResumeParent and CloseTurn; ResumeParent is a plain Set
  in `Instructions`, where the RequiresReconciliation flag and the guard's
  expected revision, which only refuse, are left out too, and so is the
  takeover of an old lock file;
* in a turn: a checkpoint or close without a task, run observability;
* in the schema upgrade: indexes, triggers and the fill of the search index;
* in a migration: path and link checks, and several roots one by one; and five
  steps of `Migration` that are coarser or narrower than the code, listed in its
  header (the hash a stager computed earlier, duplicates of moved cards, cutover's
  two statements, the idempotent second rollback), none of which its properties
  can see;
* `instruction_anchor_store.py` has checks of its own for the same rows;
* retrieval, ranking, UI, evaluation, command-line and MCP projections: data and
  presentation with little control;
* install and rewrite transactions, the wake core and the vendored Sandglass
  engine: later candidates.

The modules stand for about three tenths of the Python implementation; most of
the rest is projection, validation of records, search and presentation.
