------------------------- MODULE ScopeBrokerServer -------------------------
(***************************************************************************)
(* The resident broker process of scope_broker_ipc.py: handler threads     *)
(* that serve authenticated requests, the maintenance the accept loop does *)
(* between them, and the two files the process leaves behind when it dies: *)
(* the scope registry and the project-root sidecar.                        *)
(*                                                                         *)
(* Two locks order everything here.  _lifecycle_lock serialises the        *)
(* requests that may create channels or write files; _binding_guard is     *)
(* held around every use of the channel state.  Only one request can hold  *)
(* the lifecycle lock, so the one that holds it is the single record cur;  *)
(* the guard is held exactly when cur is at one of its guarded steps.  A   *)
(* request that needs the guard alone is one action, enabled while the     *)
(* guard is free.  Between two steps of cur the process may die.           *)
(*                                                                         *)
(* Time is abstracted.  A lease may have lapsed, and a bootstrap record or *)
(* the whole process may have been idle for its grace, whenever a section  *)
(* looks: the section picks which.  Only how long a channel has not been   *)
(* seen is remembered, as the mark stale.  A project directory may be      *)
(* there or not whenever the code looks.  The pairing methods are retired  *)
(* at this boundary and are not served.                                    *)
(***************************************************************************)
EXTENDS ScopeContract, FiniteSets

CONSTANTS
    Channel,      \* channel identities, never reused
    Operation,    \* bootstrap operation tokens, one per client attempt
    MaxOperations,\* _MAX_BOOTSTRAP_OPERATIONS
    MaxCrash      \* bound on deaths of the process

ASSUME ServerAssumption ==
    /\ MaxOperations \in Nat
    /\ MaxCrash \in Nat
    /\ None \notin Channel \cup Operation

Binding == [wl: Workline, ctx: Contract, mode: AccessMode]

ASSUME NoneIsNoBinding == None \notin Binding

VARIABLES
    \* files and directories
    registry,   \* contract of each durable workline
    sidecar,    \* contract each project-root entry on disk was written for
    \* the process
    up,         \* it runs and serves
    shutdown,   \* _shutdown_requested
    cur,        \* the request holding _lifecycle_lock, and how far it is
    snap,       \* what a bootstrap noted for its compensation
    \* its memory
    channels,   \* broker._channels
    bindings,   \* broker._bindings
    writeLease, \* broker._write_leases
    roots,      \* _project_roots
    poisoned,   \* _project_root_registry_invalid
    ops,        \* _bootstrap_operations: operation to channel
    stale,      \* channels not in use for their grace: _channel_last_seen
    \* the clients
    client,     \* where each bootstrap attempt stands at its client
    inbox,      \* bootstrap requests received and not yet begun
    issued,     \* every channel identity created
    owned,      \* channels whose identity has reached a client
    acked,      \* history: the contract last answered as registered
    crashes     \* deaths so far

files  == <<registry, sidecar>>
memory == <<channels, bindings, writeLease, roots, poisoned, ops, stale>>
people == <<client, inbox, issued, owned, acked, crashes>>
vars   == <<registry, sidecar, up, shutdown, cur, snap,
            channels, bindings, writeLease, roots, poisoned, ops, stale,
            client, inbox, issued, owned, acked, crashes>>

Free == [kind |-> "none", step |-> "none"]

\* Steps at which cur also holds _binding_guard.
Guarded == {"roots", "bind", "undo", "undo_sidecar"}

LifecycleFree == cur = Free

\* A map in memory or on disk, as it is accepted: one contract of a workline at most.
Entries == [Workline -> Contract \cup {None}]

Snapshot == [registry: Entries, sidecar: Entries, roots: Entries,
             poisoned: BOOLEAN, channels: SUBSET Channel,
             bindings: [Channel -> Binding \cup {None}],
             writeLease: [Workline -> Channel \cup {None}],
             stale: SUBSET Channel]

Current ==
    {Free}
    \cup [kind: {"register", "refresh"}, step: {"roots"},
          wl: Workline, ctx: Contract]
    \cup [kind: {"repair"}, step: {"guard"},
          wl: Workline, ctx: Contract]
    \cup [kind: {"bootstrap"},
          step: {"guard", "roots", "bind", "undo"},
          op: Operation \cup {None}, wl: Workline, ctx: Contract, mode: AccessMode]
    \cup [kind: {"bootstrap"}, step: {"undo_sidecar"}, restored: BOOLEAN,
          op: Operation \cup {None}, wl: Workline, ctx: Contract, mode: AccessMode]

TypeOK ==
    /\ registry \in Entries
    /\ sidecar \in Entries
    /\ up \in BOOLEAN
    /\ shutdown \in BOOLEAN
    /\ cur \in Current
    /\ snap \in Snapshot \cup {None}
    /\ channels \subseteq Channel
    /\ bindings \in [Channel -> Binding \cup {None}]
    /\ writeLease \in [Workline -> Channel \cup {None}]
    /\ roots \in Entries
    /\ poisoned \in BOOLEAN
    /\ ops \in [Operation -> Channel \cup {None}]
    /\ stale \subseteq Channel
    /\ client \in [Operation ->
                     {"new", "waiting", "bound", "unsure", "settled"}]
    /\ inbox \subseteq Operation
    /\ acked \in Entries
    /\ issued \subseteq Channel
    /\ owned \subseteq Channel
    /\ crashes \in 0 .. MaxCrash

NoEntries == [w \in Workline |-> None]

Init ==
    /\ registry = NoEntries
    /\ sidecar = NoEntries
    /\ up = TRUE
    /\ shutdown = FALSE
    /\ cur = Free
    /\ snap = None
    /\ channels = {}
    /\ bindings = [c \in Channel |-> None]
    /\ writeLease = [w \in Workline |-> None]
    /\ roots = NoEntries
    /\ poisoned = FALSE
    /\ ops = [o \in Operation |-> None]
    /\ stale = {}
    /\ client = [o \in Operation |-> "new"]
    /\ inbox = {}
    /\ issued = {}
    /\ owned = {}
    /\ acked = NoEntries
    /\ crashes = 0

----------------------------------------------------------------------------
(* The sidecar: which entries count, and the proof they give. *)

\* The entries that count, given the worklines whose project directory is there
\* when the code looks.  _project_root_entry_matches: an entry is for the
\* durable contract.
Matching(entries, here) ==
    [w \in Workline |-> IF w \in here /\ entries[w] = registry[w]
                        THEN entries[w] ELSE None]

\* _load_project_roots: one bad entry poisons the whole map.
LoadRoots(here) ==
    /\ roots' = Matching(sidecar, here)
    /\ poisoned' = (Matching(sidecar, here) # sidecar)

\* _persist_project_roots when it succeeds, for the map with w's entry set.
PersistRoots(w, k, here) ==
    LET entries == Matching([roots EXCEPT ![w] = k], here)
    IN  /\ sidecar' = entries
        /\ roots' = entries
        /\ poisoned' = FALSE

\* _project_root_for_context: context k of workline w is proved, if its
\* directory is there.
Proved(w, k) == ~poisoned /\ roots[w] = k

----------------------------------------------------------------------------
(* The broker's memory. *)

Bound == {c \in Channel : bindings[c] # None}

\* _bindings without the channels in gone: the expired ones, or a closed one.
BindingsWithout(gone) ==
    [c \in Channel |-> IF c \in gone THEN None ELSE bindings[c]]

WriterIn(table, w, c) ==
    table[c] # None /\ table[c].wl = w /\ table[c].mode = "write"

\* _write_leases once the channels in gone have lost their bindings.
LeasesWithout(gone) ==
    [w \in Workline |->
        IF \E c \in gone : writeLease[w] = c /\ WriterIn(bindings, w, c)
        THEN None ELSE writeLease[w]]

\* _expire_bindings, for the leases found lapsed.
Expire(gone) ==
    /\ bindings' = BindingsWithout(gone)
    /\ writeLease' = LeasesWithout(gone)

Reprojected(table, w, k) ==
    [c \in Channel |->
        IF table[c] # None /\ table[c].wl = w
        THEN [table[c] EXCEPT !.ctx = k] ELSE table[c]]

\* _settle_bootstrap_operation_for_channel.
SettledFor(c) ==
    [o \in Operation |-> IF ops[o] = c THEN None ELSE ops[o]]

\* _touch with a channel: only one the broker owns leaves a mark.
Touch(c) ==
    IF c \in channels
    THEN stale' = stale \ {c} /\ ops' = SettledFor(c)
    ELSE UNCHANGED <<stale, ops>>

\* close_channel on every channel of a set, and the last-seen entries with it.
Close(gone) ==
    /\ channels' = channels \ gone
    /\ Expire(gone)
    /\ stale' = stale \ gone

----------------------------------------------------------------------------
(* Requests that take the guard alone.  A client calls with a channel it    *)
(* owns; a stopping broker still serves it until the process has gone.  The *)
(* touch of _dispatch and the method are one action: a touch whose method   *)
(* comes later is a Request that finds nothing lapsed.                      *)

\* The binding guard is free.
GuardFree == cur.step \notin Guarded

\* status, authorize, renew_lease, list_channel_statuses.
Request(c, gone) ==
    /\ up
    /\ GuardFree
    /\ c \in owned
    /\ Touch(c)
    /\ Expire(gone)
    /\ UNCHANGED <<files, up, shutdown, cur, snap, channels, roots, poisoned,
                   people>>

\* Mutant: the context is withdrawn and the binding stays.
DetachChannelHalf(c) ==
    /\ up
    /\ GuardFree
    /\ c \in owned \cap channels \cap Bound
    /\ Touch(c)
    /\ bindings' = [bindings EXCEPT ![c].ctx = None]
    /\ writeLease' = LeasesWithout({c})
    /\ UNCHANGED <<files, up, shutdown, cur, snap, channels, roots, poisoned,
                   people>>

\* detach_channel.
DetachChannel(c) ==
    /\ up
    /\ GuardFree
    /\ c \in owned \cap channels
    /\ Touch(c)
    /\ Expire({c})
    /\ UNCHANGED <<files, up, shutdown, cur, snap, channels, roots, poisoned,
                   people>>

\* close_channel: the touch and the method each settle the operation.
CloseChannel(c) ==
    /\ up
    /\ GuardFree
    /\ c \in owned \cap channels
    /\ Close({c})
    /\ ops' = SettledFor(c)
    /\ UNCHANGED <<files, up, shutdown, cur, snap, roots, poisoned, people>>

----------------------------------------------------------------------------
(* Requests that take the lifecycle lock first and are refused once         *)
(* shutdown has been requested.                                             *)

Admitted == up /\ ~shutdown /\ LifecycleFree

\* Mutant: open_channel does not wait for the lifecycle lock.
OpenChannelUnordered(c, delivered) ==
    /\ up
    /\ ~shutdown
    /\ c \notin issued
    /\ channels' = channels \cup {c}
    /\ issued' = issued \cup {c}
    /\ owned' = IF delivered THEN owned \cup {c} ELSE owned
    /\ UNCHANGED <<files, up, shutdown, cur, snap, bindings, writeLease, roots,
                   poisoned, ops, stale, client, inbox, acked, crashes>>

\* open_channel and its touch.  Until the answer nobody can name the channel,
\* and maintenance counts one that is not touched yet as fresh.  The answer
\* reaches the client or is lost.
OpenChannel(c, delivered) ==
    /\ Admitted
    /\ c \notin issued
    /\ channels' = channels \cup {c}
    /\ issued' = issued \cup {c}
    /\ owned' = IF delivered THEN owned \cup {c} ELSE owned
    /\ UNCHANGED <<files, up, shutdown, cur, snap, bindings, writeLease, roots,
                   poisoned, ops, stale, client, inbox, acked, crashes>>

\* register_workline, up to the registry write and the new contexts.
RegisterWorkline(w, k) ==
    /\ Admitted
    /\ Accepts(registry[w], k)
    /\ registry' = [registry EXCEPT ![w] = k]
    /\ bindings' = Reprojected(bindings, w, k)
    /\ cur' = [kind |-> "register", step |-> "roots", wl |-> w, ctx |-> k]
    /\ UNCHANGED <<sidecar, up, shutdown, snap, channels, writeLease,
                   roots, poisoned, ops, stale, people>>

\* refresh_bound_contract, up to the same point.  Authority is the channel's
\* write lease and a proved context.
RefreshContract(c, k, gone) ==
    LET b == BindingsWithout(gone)[c]
    IN  /\ Admitted
        /\ c \in owned \cap channels
        /\ b # None
        /\ b.mode = "write"
        /\ Proved(b.wl, b.ctx)
        /\ Accepts(b.ctx, k)
        /\ Accepts(registry[b.wl], k)
        /\ Touch(c)
        /\ registry' = [registry EXCEPT ![b.wl] = k]
        /\ bindings' = Reprojected(BindingsWithout(gone), b.wl, k)
        /\ writeLease' = LeasesWithout(gone)
        /\ cur' = [kind |-> "refresh", step |-> "roots", wl |-> b.wl, ctx |-> k]
        /\ UNCHANGED <<sidecar, up, shutdown, snap, channels, roots,
                       poisoned, people>>

\* The sidecar write of both: on failure the entry is taken out of memory
\* again, the registry keeps the new contract, and the answer is an error.
RegisterRoots(written, here) ==
    /\ cur.kind \in {"register", "refresh"}
    /\ IF written
       THEN /\ PersistRoots(cur.wl, cur.ctx, here)
            /\ acked' = [acked EXCEPT ![cur.wl] = cur.ctx]
       ELSE UNCHANGED <<sidecar, roots, poisoned, acked>>
    /\ cur' = Free
    /\ UNCHANGED <<registry, up, shutdown, snap, channels, bindings,
                   writeLease, ops, stale, client, inbox, issued, owned,
                   crashes>>

\* repair_local_scope re-reads the sidecar before it takes the guard ...
RepairBegin(w, k, here) ==
    /\ Admitted
    /\ LoadRoots(here)
    /\ cur' = [kind |-> "repair", step |-> "guard", wl |-> w, ctx |-> k]
    /\ UNCHANGED <<files, up, shutdown, snap, channels, bindings, writeLease,
                   ops, stale, people>>

\* resolve_exact_workline, which registers and refreshes nothing.
ExactWorkline(w, k) == registry[w] = k

\* ... goes on under the guard only for the contract the registry holds, and
\* rewrites the map.  When the write fails and the file cannot be put back
\* either, nothing in memory may count as proof any more.
RepairRoots(written, restored, here) ==
    /\ cur.kind = "repair"
    /\ GuardFree
    /\ IF ~ExactWorkline(cur.wl, cur.ctx) \/ (~written /\ restored)
       THEN UNCHANGED <<sidecar, roots, poisoned>>
       ELSE IF written THEN PersistRoots(cur.wl, cur.ctx, here)
       ELSE roots' = NoEntries /\ poisoned' = TRUE /\ UNCHANGED sidecar
    /\ cur' = Free
    /\ UNCHANGED <<registry, up, shutdown, snap, channels, bindings,
                   writeLease, ops, stale, people>>

----------------------------------------------------------------------------
(* bootstrap_bound_channel: registration, proof, channel and lease in one   *)
(* transaction, with a compensation for each way it can fail.               *)

\* The sidecar is re-read; a poisoned map refuses the request.  The token is
\* optional: o = None is a request without one, whose client is not followed.
BootstrapBegin(o, w, k, mode, here) ==
    /\ Admitted
    /\ o \in inbox \cup {None}
    /\ issued # Channel
    /\ inbox' = inbox \ {o}
    /\ IF o = None \/ Cardinality({p \in Operation : ops[p] # None}) < MaxOperations
       THEN /\ LoadRoots(here)
            /\ cur' = IF poisoned' THEN Free
                      ELSE [kind |-> "bootstrap", step |-> "guard", op |-> o,
                            wl |-> w, ctx |-> k, mode |-> mode]
       ELSE UNCHANGED <<roots, poisoned, cur>>
    /\ UNCHANGED <<files, up, shutdown, snap, channels, bindings, writeLease,
                   ops, stale, client, issued, owned,
                   acked, crashes>>

NowSnap == [registry |-> registry, sidecar |-> sidecar, roots |-> roots,
            poisoned |-> poisoned, channels |-> channels,
            bindings |-> bindings, writeLease |-> writeLease, stale |-> stale]

\* Under the guard: note everything, then register; the write may fail.
BootstrapRegister(written) ==
    /\ cur.kind = "bootstrap" /\ cur.step = "guard"
    /\ snap' = NowSnap
    /\ IF written /\ Accepts(registry[cur.wl], cur.ctx)
       THEN /\ registry' = [registry EXCEPT ![cur.wl] = cur.ctx]
            /\ bindings' = Reprojected(bindings, cur.wl, cur.ctx)
            /\ cur' = [cur EXCEPT !.step = "roots"]
       ELSE /\ cur' = [cur EXCEPT !.step = "undo"]
            /\ UNCHANGED <<registry, bindings>>
    /\ UNCHANGED <<sidecar, up, shutdown, channels, writeLease, roots,
                   poisoned, ops, stale, people>>

BootstrapRoots(written, here) ==
    /\ cur.kind = "bootstrap" /\ cur.step = "roots"
    /\ IF written
       THEN /\ PersistRoots(cur.wl, cur.ctx, here)
            /\ cur' = [cur EXCEPT !.step = "bind"]
       ELSE /\ roots' = [roots EXCEPT ![cur.wl] = cur.ctx]
            /\ cur' = [cur EXCEPT !.step = "undo"]
            /\ UNCHANGED <<sidecar, poisoned>>
    /\ UNCHANGED <<registry, up, shutdown, snap, channels, bindings,
                   writeLease, ops, stale, people>>

\* bind_new_channel, _touch, the operation record and the answer.
BootstrapBind(c, gone, delivered) ==
    LET b == [wl |-> cur.wl, ctx |-> cur.ctx, mode |-> cur.mode]
        answered == cur.op # None /\ delivered /\ client[cur.op] = "waiting"
    IN  /\ cur.kind = "bootstrap" /\ cur.step = "bind"
        /\ c \notin issued
        /\ cur.mode = "write" => LeasesWithout(gone)[cur.wl] = None
        /\ channels' = channels \cup {c}
        /\ issued' = issued \cup {c}
        /\ bindings' = [BindingsWithout(gone) EXCEPT ![c] = b]
        /\ writeLease' = IF cur.mode = "write"
                         THEN [LeasesWithout(gone) EXCEPT ![cur.wl] = c]
                         ELSE LeasesWithout(gone)
        /\ ops' = [o \in Operation |-> IF o = cur.op THEN c ELSE ops[o]]
        /\ client' = IF answered THEN [client EXCEPT ![cur.op] = "bound"]
                     ELSE client
        /\ owned' = IF answered \/ (cur.op = None /\ delivered)
                    THEN owned \cup {c} ELSE owned
        /\ acked' = [acked EXCEPT ![cur.wl] = cur.ctx]
        /\ cur' = Free
        /\ snap' = None
        /\ UNCHANGED <<files, up, shutdown, roots, poisoned, stale, inbox,
                       crashes>>

\* The lease is held, or the registry cannot be read.  What the failed call
\* expired is put back by the next step, before anybody can look.
BootstrapBindFails ==
    /\ cur.kind = "bootstrap" /\ cur.step = "bind"
    /\ cur' = [cur EXCEPT !.step = "undo"]
    /\ UNCHANGED <<files, up, shutdown, snap, memory, people>>

\* Mutant: the workline's record is removed, whatever was there before.
UndoRegistryByRemoval(restored) ==
    /\ cur.step = "undo"
    /\ registry' = IF restored THEN [registry EXCEPT ![cur.wl] = None]
                   ELSE registry
    /\ roots' = snap.roots
    /\ poisoned' = snap.poisoned
    /\ channels' = snap.channels
    /\ bindings' = snap.bindings
    /\ writeLease' = snap.writeLease
    /\ stale' = snap.stale
    /\ cur' = [kind |-> "bootstrap", step |-> "undo_sidecar",
               restored |-> restored, op |-> cur.op, wl |-> cur.wl,
               ctx |-> cur.ctx, mode |-> cur.mode]
    /\ UNCHANGED <<sidecar, up, shutdown, snap, ops, people>>

\* Compensation: the memory as it was noted, and the registry file, whose
\* restoration may fail ...
UndoRegistry(restored) ==
    /\ cur.step = "undo"
    /\ roots' = snap.roots
    /\ poisoned' = snap.poisoned
    /\ channels' = snap.channels
    /\ bindings' = snap.bindings
    /\ writeLease' = snap.writeLease
    /\ stale' = snap.stale
    /\ registry' = IF restored THEN snap.registry ELSE registry
    /\ cur' = [kind |-> "bootstrap", step |-> "undo_sidecar",
               restored |-> restored, op |-> cur.op, wl |-> cur.wl,
               ctx |-> cur.ctx, mode |-> cur.mode]
    /\ UNCHANGED <<sidecar, up, shutdown, snap, ops, people>>

\* Mutant: only the sidecar's own write decides whether the map can be trusted.
UndoSidecarTrusting(restored) ==
    /\ cur.step = "undo_sidecar"
    /\ sidecar' = IF restored THEN snap.sidecar ELSE sidecar
    /\ IF restored THEN UNCHANGED <<roots, poisoned>>
       ELSE roots' = NoEntries /\ poisoned' = TRUE
    /\ cur' = Free
    /\ snap' = None
    /\ UNCHANGED <<registry, up, shutdown, channels, bindings,
                   writeLease, ops, stale, people>>

\* ... then the sidecar, which may fail too.  Unless both went back, the
\* cached roots are dropped and the map is poisoned.
UndoSidecar(restored) ==
    /\ cur.step = "undo_sidecar"
    /\ sidecar' = IF restored THEN snap.sidecar ELSE sidecar
    /\ IF restored /\ cur.restored THEN UNCHANGED <<roots, poisoned>>
       ELSE roots' = NoEntries /\ poisoned' = TRUE
    /\ cur' = Free
    /\ snap' = None
    /\ UNCHANGED <<registry, up, shutdown, channels, bindings,
                   writeLease, ops, stale, people>>

----------------------------------------------------------------------------
(* The client of a bootstrap. *)

SendBootstrap(o) ==
    /\ client[o] = "new"
    /\ up
    /\ client' = [client EXCEPT ![o] = "waiting"]
    /\ inbox' = inbox \cup {o}
    /\ UNCHANGED <<files, up, shutdown, cur, snap, memory, issued, owned,
                   acked, crashes>>

\* An error answer, a timeout or a lost connection: all end in a cancel, which
\* may be lost in its turn.
GiveUp(o) ==
    /\ client[o] = "waiting"
    /\ client' = [client EXCEPT ![o] = "unsure"]
    /\ UNCHANGED <<files, up, shutdown, cur, snap, memory, inbox, issued,
                   owned, acked, crashes>>

\* cancel_bootstrap, answered: the recorded channel is closed, and an
\* operation that is not recorded is reported as already settled.
CancelBootstrap(o) ==
    /\ Admitted
    /\ client[o] = "unsure"
    /\ client' = [client EXCEPT ![o] = "settled"]
    /\ ops' = [ops EXCEPT ![o] = None]
    /\ IF ops[o] \in channels THEN Close({ops[o]})
       ELSE UNCHANGED <<channels, bindings, writeLease, stale>>
    /\ UNCHANGED <<files, up, shutdown, cur, snap, roots, poisoned, inbox, issued, owned, acked, crashes>>

\* finalize_bootstrap by the client that got its channel.
FinalizeBootstrap(o) ==
    /\ Admitted
    /\ client[o] = "bound"
    /\ ops' = [ops EXCEPT ![o] = None]
    /\ UNCHANGED <<files, up, shutdown, cur, snap, channels, bindings,
                   writeLease, roots, poisoned, stale,
                   people>>

----------------------------------------------------------------------------
(* Maintenance between two connections, and the end of the process. *)

\* Mutant: the channel is closed and the record is kept for a later retry.
ReapOperationsKept(late) ==
    /\ up
    /\ GuardFree
    /\ late # {} /\ \A o \in late : ops[o] # None
    /\ Close({ops[o] : o \in late})
    /\ UNCHANGED <<files, up, shutdown, cur, snap, roots, poisoned, ops, people>>

\* _reap_bootstrap_operations: channels nobody acknowledged in time.
ReapOperations(late) ==
    /\ up
    /\ GuardFree
    /\ late # {} /\ \A o \in late : ops[o] # None
    /\ Close({ops[o] : o \in late})
    /\ ops' = [o \in Operation |-> IF o \in late THEN None ELSE ops[o]]
    /\ UNCHANGED <<files, up, shutdown, cur, snap, roots, poisoned, people>>

\* _maybe_idle_shutdown, the snapshot: an expired channel gets a new grace.
ReapScan(gone) ==
    /\ up
    /\ GuardFree
    /\ Expire(gone)
    /\ stale' = stale \ gone
    /\ UNCHANGED <<files, up, shutdown, cur, snap, channels, roots, poisoned,
                   ops, people>>

\* _maybe_idle_shutdown, a channel's recheck under the guard, which asks again
\* all that made the snapshot select it.
ReapUnbound(c) ==
    /\ up
    /\ GuardFree
    /\ c \in channels \cap stale
    /\ bindings[c] = None
    /\ Close({c})
    /\ UNCHANGED <<files, up, shutdown, cur, snap, roots, poisoned, ops, people>>

\* shutdown_if_idle, from a client that named this instance, and the end of
\* _maybe_idle_shutdown: the shutdown is reserved under the lock.
ShutdownIfIdle ==
    /\ Admitted
    /\ channels = {} /\ Bound = {}
    /\ shutdown' = TRUE
    /\ UNCHANGED <<files, up, cur, snap, memory, people>>

\* What dies with the process.
LoseMemory ==
    /\ up' = FALSE
    /\ shutdown' = FALSE
    /\ cur' = Free
    /\ snap' = None
    /\ channels' = {}
    /\ bindings' = [c \in Channel |-> None]
    /\ writeLease' = [w \in Workline |-> None]
    /\ roots' = NoEntries
    /\ poisoned' = FALSE
    /\ ops' = [o \in Operation |-> None]
    /\ stale' = {}
    /\ inbox' = {}
    /\ owned' = {}
    /\ UNCHANGED <<files, client, issued, acked>>

\* stop, by the accept loop after either shutdown.  A stop from outside needs
\* no idleness; what it leaves behind is what a crash leaves.
Stop ==
    /\ up
    /\ LifecycleFree
    /\ shutdown
    /\ LoseMemory
    /\ UNCHANGED crashes

Crash ==
    /\ up
    /\ crashes < MaxCrash
    /\ LoseMemory
    /\ crashes' = crashes + 1

\* _start_locked: a fresh broker object and the sidecar as it is on disk.
Start(here) ==
    /\ ~up
    /\ up' = TRUE
    /\ LoadRoots(here)
    /\ UNCHANGED <<files, shutdown, cur, snap, channels, bindings, writeLease,
                   ops, stale, people>>

----------------------------------------------------------------------------
(* Time. *)

\* The channel has not been used for its grace; an opened channel is counted
\* from its touch.  The mark is read under the guard only, so a mark set while
\* a transaction holds it is the same as one set after.
ChannelStale(c) ==
    /\ GuardFree
    /\ c \in channels \ stale
    /\ stale' = stale \cup {c}
    /\ UNCHANGED <<files, up, shutdown, cur, snap, channels, bindings,
                   writeLease, roots, poisoned, ops, people>>

----------------------------------------------------------------------------
\* The request that holds the lifecycle lock takes its next step.
CurrentStep ==
    \/ BootstrapBindFails
    \/ \E ok \in BOOLEAN :
        \/ BootstrapRegister(ok)
        \/ UndoRegistry(ok)
        \/ UndoSidecar(ok)
        \/ \E here \in SUBSET Workline :
            \/ RegisterRoots(ok, here)
            \/ BootstrapRoots(ok, here)
            \/ \E back \in BOOLEAN : RepairRoots(ok, back, here)
        \/ \E c \in Channel, gone \in SUBSET Bound : BootstrapBind(c, gone, ok)

ChannelRequest(c) ==
    \/ DetachChannel(c)
    \/ CloseChannel(c)
    \/ \E ok \in BOOLEAN : OpenChannel(c, ok)
    \/ \E gone \in SUBSET Bound :
        \/ Request(c, gone)
        \/ \E k \in Contract : RefreshContract(c, k, gone)

ControlRequest ==
    \/ ShutdownIfIdle
    \/ \E w \in Workline, k \in Contract :
        \/ RegisterWorkline(w, k)
        \/ \E here \in SUBSET Workline :
            \/ RepairBegin(w, k, here)
            \/ \E o \in Operation \cup {None}, mode \in AccessMode :
                 BootstrapBegin(o, w, k, mode, here)

ClientStep(o) ==
    \/ SendBootstrap(o)
    \/ GiveUp(o)
    \/ CancelBootstrap(o)
    \/ FinalizeBootstrap(o)

Maintenance ==
    \/ \E late \in SUBSET Operation : ReapOperations(late)
    \/ \E gone \in SUBSET Bound : ReapScan(gone)
    \/ \E c \in Channel : ReapUnbound(c)

Environment ==
    \/ Crash
    \/ \E c \in Channel : ChannelStale(c)

Next ==
    \/ CurrentStep
    \/ ControlRequest
    \/ Maintenance
    \/ Environment
    \/ Stop
    \/ \E here \in SUBSET Workline : Start(here)
    \/ \E c \in Channel : ChannelRequest(c)
    \/ \E o \in Operation : ClientStep(o)

Spec == Init /\ [][Next]_vars

----------------------------------------------------------------------------
(* Properties *)

\* What authorize answers is the durable truth: a live channel whose context
\* is proved by the sidecar is bound to the contract the registry holds, after
\* failed writes, failed compensations, poisonings and repairs alike.
AuthorizedScopeIsDurable ==
    up /\ GuardFree =>
        \A c \in Channel :
            /\ bindings[c] # None
            /\ Proved(bindings[c].wl, bindings[c].ctx)
            => registry[bindings[c].wl] = bindings[c].ctx

\* A contract the broker has acknowledged stays registered, or a later one
\* does: no compensation of another request writes an older registry over it,
\* and no crash loses it.
AcknowledgedContractSurvives ==
    \A w \in Workline :
        acked[w] # None => /\ registry[w] # None
                           /\ registry[w].rev >= acked[w].rev

\* A channel that is gone stays gone: the compensation of a failed bootstrap
\* restores the channel table wholesale and must not revive what another
\* client closed meanwhile.
RevivesNothing == (channels' \ channels) \cap issued = {}

\* The other half: it must not drop a channel that another client opened
\* meanwhile.
UndoDropsNothing ==
    cur.step = "undo" /\ up' =>
        /\ channels \subseteq channels'
        /\ \A c \in Channel : bindings[c] # None => bindings'[c] # None

\* No client is handed a channel by a broker that has decided to stop.
StoppingAdmitsNobody == shutdown /\ up' => channels' \subseteq channels

\* What no step may do to the channel table, whoever else is at work on it.
ChannelTableIsKept ==
    [][RevivesNothing /\ UndoDropsNothing /\ StoppingAdmitsNobody]_vars

\* scope_broker_ipc.py, at the answer ALREADY_SETTLED: "there is then nothing
\* left to clean or authorize".
SettledLeavesNothing ==
    \A o \in Operation : client[o] = "settled" => ops[o] = None

\* scope_broker_ipc.py, in _maybe_idle_shutdown: "Lease expiry transitions a
\* channel back to unbound.  It receives a fresh pairing grace period rather
\* than being reaped immediately based on its old timestamp."
ExpiryGrantsGrace ==
    [][\A c \in channels' :
         bindings[c] # None /\ bindings'[c] = None => c \notin stale']_vars
============================================================================
