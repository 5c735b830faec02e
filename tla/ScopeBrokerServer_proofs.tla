---------------------- MODULE ScopeBrokerServer_proofs ----------------------
(***************************************************************************)
(* Proofs about ScopeBrokerServer, for every set of channels, worklines    *)
(* and operation tokens, every range of revisions and any number of        *)
(* crashes.                                                                *)
(*                                                                         *)
(* AuthorizedScopeIsDurable speaks of the moments at which somebody may    *)
(* look.  The inductive invariant ServerIInv has to say what holds while   *)
(* the guard is held: that a registration in progress works for the        *)
(* contract the registry holds, that only a compensation whose registry    *)
(* write failed leaves the memory out of step with the file, and that what *)
(* a bootstrap noted is still good to go back to when it is used.          *)
(***************************************************************************)
EXTENDS ScopeBrokerServer, TLAPS

\* What is proved in a memory is what the registry reg holds.
Durable(reg, table, proof, bad) ==
  \A c \in Channel :
    table[c] # None /\ ~bad /\ proof[table[c].wl] = table[c].ctx
      => reg[table[c].wl] = table[c].ctx

\* The registry reg keeps what was acknowledged.
KeepsAcked(reg) ==
  \A w \in Workline :
    acked[w] # None => reg[w] # None /\ reg[w].rev >= acked[w].rev

\* The compensation could not put the registry back; its last step poisons
\* the map.
HalfUndone == cur.step = "undo_sidecar" /\ ~cur.restored

MemoryIsDurable == ~HalfUndone => Durable(registry, bindings, roots, poisoned)

\* Once the file is written, the contract at hand is the registered one.
ContractIsRegistered ==
  cur.step \in {"roots", "bind"} => registry[cur.wl] = cur.ctx

\* A shutdown is reserved while no request is under way, and admits none.
StoppingIsQuiet == shutdown => cur = Free

\* A bootstrap between its first effect and its last.
InBootstrap == cur.kind = "bootstrap" /\ cur.step # "guard"

\* What it noted: durable, not behind what clients were told, and, until it is
\* put back, of the channels and bindings there are now.
SnapIsGood ==
  InBootstrap =>
    /\ snap \in Snapshot
    /\ Durable(snap.registry, snap.bindings, snap.roots, snap.poisoned)
    /\ KeepsAcked(snap.registry)
    /\ cur.step # "undo_sidecar" =>
         /\ snap.channels = channels
         /\ \A c \in Channel : bindings[c] # None => snap.bindings[c] # None

ServerIInv ==
  /\ TypeOK
  /\ MemoryIsDurable
  /\ ContractIsRegistered
  /\ StoppingIsQuiet
  /\ KeepsAcked(registry)
  /\ SnapIsGood

----------------------------------------------------------------------------
(* Lemmas about the operators: what they return ... *)

\* _bindings without some channels is a table of bindings still.
LEMMA BindingsWithoutType ==
  ASSUME bindings \in [Channel -> Binding \cup {None}], NEW gone
  PROVE  BindingsWithout(gone) \in [Channel -> Binding \cup {None}]
BY DEF BindingsWithout

\* So is the lease table.
LEMMA LeasesWithoutType ==
  ASSUME writeLease \in [Workline -> Channel \cup {None}], NEW gone
  PROVE  LeasesWithout(gone) \in [Workline -> Channel \cup {None}]
BY DEF LeasesWithout

\* A table in which one workline's contexts were replaced.
LEMMA ReprojectedType ==
  ASSUME NEW table \in [Channel -> Binding \cup {None}],
         NEW w \in Workline, NEW k \in Contract
  PROVE  Reprojected(table, w, k) \in [Channel -> Binding \cup {None}]
<1>1. ASSUME NEW c \in Channel, table[c] # None
      PROVE  [table[c] EXCEPT !.ctx = k] \in Binding
  <2>1. table[c] \in Binding
    BY <1>1
  <2> QED BY <2>1 DEF Binding
<1> QED BY <1>1 DEF Reprojected

\* The entries of a map that count are a map.
LEMMA MatchingType ==
  ASSUME NEW entries \in Entries, NEW here
  PROVE  Matching(entries, here) \in Entries
BY DEF Matching, Entries

\* The operations settled for a channel.
LEMMA SettledForType ==
  ASSUME ops \in [Operation -> Channel \cup {None}], NEW c
  PROVE  SettledFor(c) \in [Operation -> Channel \cup {None}]
BY DEF SettledFor

(* ... and how they keep what is proved durable. *)

\* Fewer bindings prove less.
LEMMA FewerAreDurable ==
  ASSUME NEW reg, NEW proof, NEW bad, NEW table, NEW fewer,
         Durable(reg, table, proof, bad),
         \A c \in Channel : fewer[c] # None => fewer[c] = table[c]
  PROVE  Durable(reg, fewer, proof, bad)
BY DEF Durable

\* Registering a contract and giving it to the workline's bindings go together.
LEMMA ReprojectedIsDurable ==
  ASSUME NEW reg \in Entries, NEW proof, NEW bad,
         NEW table \in [Channel -> Binding \cup {None}],
         NEW w \in Workline, NEW k \in Contract,
         Durable(reg, table, proof, bad)
  PROVE  Durable([reg EXCEPT ![w] = k], Reprojected(table, w, k), proof, bad)
<1> DEFINE new == Reprojected(table, w, k)
<1> SUFFICES ASSUME NEW c \in Channel, new[c] # None, ~bad,
                    proof[new[c].wl] = new[c].ctx
             PROVE  [reg EXCEPT ![w] = k][new[c].wl] = new[c].ctx
  BY DEF Durable
<1>1. new[c] = IF table[c] # None /\ table[c].wl = w
               THEN [table[c] EXCEPT !.ctx = k] ELSE table[c]
  BY DEF Reprojected
<1>2. table[c] \in Binding
  BY <1>1
<1>3. CASE table[c].wl = w
  <2>1. new[c].wl = w /\ new[c].ctx = k
    BY <1>1, <1>2, <1>3 DEF Binding
  <2> QED BY <2>1 DEF Entries
<1>4. CASE table[c].wl # w
  <2>1. new[c] = table[c] /\ table[c].wl \in Workline
    BY <1>1, <1>2, <1>4 DEF Binding
  <2>2. reg[table[c].wl] = table[c].ctx
    BY <2>1 DEF Durable
  <2> QED BY <1>4, <2>1, <2>2 DEF Entries
<1> QED BY <1>3, <1>4

\* Only the durable contract of a workline counts as proof.
LEMMA MatchingIsDurable ==
  ASSUME NEW table \in [Channel -> Binding \cup {None}], NEW bad,
         NEW entries, NEW here
  PROVE  Durable(registry, table, Matching(entries, here), bad)
<1> DEFINE proof == Matching(entries, here)
<1> SUFFICES ASSUME NEW c \in Channel, table[c] # None,
                    proof[table[c].wl] = table[c].ctx
             PROVE  registry[table[c].wl] = table[c].ctx
  BY DEF Durable
<1>1. table[c].wl \in Workline /\ table[c].ctx \in Contract
  BY DEF Binding
<1>2. table[c].ctx # None
  BY <1>1, NoneAssumption
<1> QED BY <1>1, <1>2 DEF Matching

\* Nothing is proved by an empty map.
LEMMA PoisonedIsDurable ==
  ASSUME NEW reg, NEW table, NEW proof
  PROVE  Durable(reg, table, proof, TRUE)
BY DEF Durable

\* An accepted contract is not behind the one it replaces.
LEMMA AcceptedKeepsAcked ==
  ASSUME TypeOK, KeepsAcked(registry), NEW w \in Workline, NEW k \in Contract,
         Accepts(registry[w], k)
  PROVE  KeepsAcked([registry EXCEPT ![w] = k])
<1> DEFINE new == [registry EXCEPT ![w] = k]
<1> SUFFICES ASSUME NEW v \in Workline, acked[v] # None
             PROVE  new[v] # None /\ new[v].rev >= acked[v].rev
  BY DEF KeepsAcked
<1>1. registry[v] # None /\ registry[v].rev >= acked[v].rev
  BY DEF KeepsAcked
<1>2. registry \in Entries /\ acked \in Entries
  BY DEF TypeOK
<1>3. registry[v] \in Contract /\ acked[v] \in Contract
  BY <1>1, <1>2 DEF Entries
<1>4. registry[v].rev \in Nat /\ acked[v].rev \in Nat /\ k.rev \in Nat
  BY <1>3, ScopeContractAssumption DEF Contract
<1>5. CASE v = w
  <2>1. new[v] = k
    BY <1>2, <1>5 DEF Entries
  <2>2. k.rev > registry[v].rev \/ k = registry[v]
    BY <1>1, <1>5 DEF Accepts
  <2> QED BY <2>1, <2>2, <1>1, <1>4, NoneAssumption
<1>6. CASE v # w
  BY <1>1, <1>2, <1>6 DEF Entries
<1> QED BY <1>5, <1>6

----------------------------------------------------------------------------
(* What the steps have in common. *)

\* Outside a transaction, taking bindings away disturbs nothing.
LEMMA GuardFreeKeeps ==
  ASSUME ServerIInv, TypeOK', GuardFree,
         UNCHANGED <<registry, shutdown, cur, snap, roots, poisoned, acked>>,
         \A c \in Channel : bindings'[c] # None => bindings'[c] = bindings[c]
  PROVE  ServerIInv'
<1>1. MemoryIsDurable'
  <2>1. Durable(registry, bindings, roots, poisoned)
    BY DEF ServerIInv, MemoryIsDurable, HalfUndone, GuardFree, Guarded
  <2>2. Durable(registry, bindings', roots, poisoned)
    BY <2>1, FewerAreDurable
  <2> QED BY <2>2 DEF MemoryIsDurable, Durable
<1>2. ~InBootstrap
  <2>1. cur \in Current
    BY DEF ServerIInv, TypeOK
  <2> QED BY <2>1 DEF InBootstrap, Current, GuardFree, Guarded, Free
<1>3. SnapIsGood'
  BY <1>2 DEF SnapIsGood, InBootstrap
<1>4. (ContractIsRegistered /\ StoppingIsQuiet)'
  BY DEF ServerIInv, ContractIsRegistered, StoppingIsQuiet
<1>5. KeepsAcked(registry)'
  BY DEF ServerIInv, KeepsAcked
<1> QED BY <1>1, <1>3, <1>4, <1>5 DEF ServerIInv

\* What a client notes for itself disturbs nothing, at any step of a transaction.
LEMMA ClientSideKeeps ==
  ASSUME ServerIInv, TypeOK',
         UNCHANGED <<files, up, shutdown, cur, snap, memory, acked>>
  PROVE  ServerIInv'
BY DEF ServerIInv, MemoryIsDurable, HalfUndone, Durable, ContractIsRegistered,
       StoppingIsQuiet, KeepsAcked, SnapIsGood, InBootstrap, files, memory

\* Closing channels takes bindings away and nothing else of what is typed.
LEMMA CloseType ==
  ASSUME TypeOK, NEW gone, Close(gone)
  PROVE  /\ channels' \subseteq Channel
         /\ bindings' \in [Channel -> Binding \cup {None}]
         /\ writeLease' \in [Workline -> Channel \cup {None}]
         /\ stale' \subseteq Channel
         /\ \A c \in Channel : bindings'[c] # None => bindings'[c] = bindings[c]
BY BindingsWithoutType, LeasesWithoutType
DEF TypeOK, Close, Expire, BindingsWithout

\* Expiry likewise.
LEMMA ExpireType ==
  ASSUME TypeOK, NEW gone, Expire(gone)
  PROVE  /\ bindings' \in [Channel -> Binding \cup {None}]
         /\ writeLease' \in [Workline -> Channel \cup {None}]
         /\ \A c \in Channel : bindings'[c] # None => bindings'[c] = bindings[c]
BY BindingsWithoutType, LeasesWithoutType DEF TypeOK, Expire, BindingsWithout

\* The touch of a request.
LEMMA TouchType ==
  ASSUME TypeOK, NEW c, Touch(c)
  PROVE  /\ stale' \subseteq Channel
         /\ ops' \in [Operation -> Channel \cup {None}]
BY SettledForType DEF TypeOK, Touch

\* A request that holds the lifecycle lock has not begun.
LEMMA FreeIsGuardFree ==
  ASSUME cur = Free
  PROVE  GuardFree /\ ~InBootstrap /\ ~HalfUndone
BY DEF Free, GuardFree, Guarded, InBootstrap, HalfUndone

----------------------------------------------------------------------------
(* Requests under the guard alone, and maintenance. *)

\* The requests of a channel that need no lifecycle lock, and its opening.
LEMMA ChannelKeeps ==
  ASSUME ServerIInv, NEW c \in Channel,
         \/ DetachChannel(c) \/ CloseChannel(c)
         \/ \E ok \in BOOLEAN : OpenChannel(c, ok)
         \/ \E gone \in SUBSET Bound : Request(c, gone)
  PROVE  ServerIInv'
<1>0. TypeOK
  BY DEF ServerIInv
<1>1. CASE DetachChannel(c)
  <2>1. TypeOK'
    BY <1>0, <1>1, ExpireType, TouchType
    DEF TypeOK, DetachChannel, files, people
  <2> QED BY <1>0, <1>1, <2>1, ExpireType, GuardFreeKeeps
          DEF DetachChannel, files, people
<1>2. CASE CloseChannel(c)
  <2>1. TypeOK'
    BY <1>0, <1>2, CloseType, SettledForType
    DEF TypeOK, CloseChannel, files, people
  <2> QED BY <1>0, <1>2, <2>1, CloseType, GuardFreeKeeps
          DEF CloseChannel, files, people
<1>3. ASSUME NEW ok \in BOOLEAN, OpenChannel(c, ok) PROVE ServerIInv'
  <2>1. TypeOK'
    BY <1>0, <1>3 DEF TypeOK, OpenChannel, files
  <2>2. GuardFree
    BY <1>3, FreeIsGuardFree DEF OpenChannel, Admitted, LifecycleFree
  <2> QED BY <1>3, <2>1, <2>2, GuardFreeKeeps DEF OpenChannel, files
<1>4. ASSUME NEW gone \in SUBSET Bound, Request(c, gone) PROVE ServerIInv'
  <2>1. TypeOK'
    BY <1>0, <1>4, ExpireType, TouchType DEF TypeOK, Request, files, people
  <2> QED BY <1>0, <1>4, <2>1, ExpireType, GuardFreeKeeps
          DEF Request, files, people
<1> QED BY <1>1, <1>2, <1>3, <1>4

\* The reaper, and the passing of a channel's grace.
LEMMA MaintenanceKeeps ==
  ASSUME ServerIInv, Maintenance \/ \E c \in Channel : ChannelStale(c)
  PROVE  ServerIInv'
<1>0. TypeOK
  BY DEF ServerIInv
<1>1. ASSUME NEW late \in SUBSET Operation, ReapOperations(late)
      PROVE  ServerIInv'
  <2>1. TypeOK'
    BY <1>0, <1>1, CloseType DEF TypeOK, ReapOperations, files, people
  <2> QED BY <1>0, <1>1, <2>1, CloseType, GuardFreeKeeps
          DEF ReapOperations, files, people
<1>2. ASSUME NEW gone \in SUBSET Bound, ReapScan(gone) PROVE ServerIInv'
  <2>1. TypeOK'
    BY <1>0, <1>2, ExpireType DEF TypeOK, ReapScan, files, people
  <2> QED BY <1>0, <1>2, <2>1, ExpireType, GuardFreeKeeps
          DEF ReapScan, files, people
<1>3. ASSUME NEW c \in Channel, ReapUnbound(c) PROVE ServerIInv'
  <2>1. TypeOK'
    BY <1>0, <1>3, CloseType DEF TypeOK, ReapUnbound, files, people
  <2> QED BY <1>0, <1>3, <2>1, CloseType, GuardFreeKeeps
          DEF ReapUnbound, files, people
<1>4. ASSUME NEW c \in Channel, ChannelStale(c) PROVE ServerIInv'
  <2>1. TypeOK'
    BY <1>0, <1>4 DEF TypeOK, ChannelStale, files, people
  <2> QED BY <1>4, <2>1, GuardFreeKeeps DEF ChannelStale, files, people
<1> QED BY <1>1, <1>2, <1>3, <1>4 DEF Maintenance

\* The client's side of a bootstrap.
LEMMA ClientKeeps ==
  ASSUME ServerIInv, NEW o \in Operation, ClientStep(o)
  PROVE  ServerIInv'
<1>0. TypeOK
  BY DEF ServerIInv
<1>1. CASE SendBootstrap(o)
  <2>1. TypeOK'
    BY <1>0, <1>1 DEF TypeOK, SendBootstrap, files, memory
  <2> QED BY <1>1, <2>1, ClientSideKeeps DEF SendBootstrap
<1>2. CASE GiveUp(o)
  <2>1. TypeOK'
    BY <1>0, <1>2 DEF TypeOK, GiveUp, files, memory
  <2> QED BY <1>2, <2>1, ClientSideKeeps DEF GiveUp
<1>3. CASE CancelBootstrap(o)
  <2>1. GuardFree
    BY <1>3, FreeIsGuardFree DEF CancelBootstrap, Admitted, LifecycleFree
  <2>2. /\ channels' \subseteq Channel /\ stale' \subseteq Channel
        /\ bindings' \in [Channel -> Binding \cup {None}]
        /\ writeLease' \in [Workline -> Channel \cup {None}]
        /\ \A c \in Channel : bindings'[c] # None => bindings'[c] = bindings[c]
    BY <1>0, <1>3, CloseType DEF TypeOK, CancelBootstrap
  <2>3. TypeOK'
    BY <1>0, <1>3, <2>2 DEF TypeOK, CancelBootstrap, files
  <2> QED BY <1>3, <2>1, <2>2, <2>3, GuardFreeKeeps
          DEF CancelBootstrap, files
<1>4. CASE FinalizeBootstrap(o)
  <2>1. GuardFree
    BY <1>4, FreeIsGuardFree DEF FinalizeBootstrap, Admitted, LifecycleFree
  <2>2. TypeOK'
    BY <1>0, <1>4 DEF TypeOK, FinalizeBootstrap, files, people
  <2> QED BY <1>4, <2>1, <2>2, GuardFreeKeeps
          DEF FinalizeBootstrap, files, people
<1> QED BY <1>1, <1>2, <1>3, <1>4 DEF ClientStep

----------------------------------------------------------------------------
(* Requests that take the lifecycle lock. *)

\* A registry write together with the new contexts, up to the sidecar.
LEMMA RegistryMoves ==
  ASSUME ServerIInv, TypeOK', cur = Free, ~shutdown,
         NEW w \in Workline, NEW k \in Contract, Accepts(registry[w], k),
         NEW table \in [Channel -> Binding \cup {None}],
         \A c \in Channel : table[c] # None => table[c] = bindings[c],
         registry' = [registry EXCEPT ![w] = k],
         bindings' = Reprojected(table, w, k),
         NEW kind \in {"register", "refresh"},
         cur' = [kind |-> kind, step |-> "roots", wl |-> w, ctx |-> k],
         UNCHANGED <<shutdown, roots, poisoned, acked>>
  PROVE  ServerIInv'
<1>0. TypeOK /\ registry \in Entries
  BY DEF ServerIInv, TypeOK
<1>1. MemoryIsDurable'
  <2>1. Durable(registry, bindings, roots, poisoned)
    BY FreeIsGuardFree DEF ServerIInv, MemoryIsDurable
  <2>2. Durable(registry, table, roots, poisoned)
    BY <2>1, FewerAreDurable
  <2>3. Durable(registry', bindings', roots, poisoned)
    BY <1>0, <2>2, ReprojectedIsDurable
  <2> QED BY <2>3 DEF MemoryIsDurable, Durable
<1>2. ContractIsRegistered'
  BY <1>0 DEF ContractIsRegistered, Entries
<1>3. KeepsAcked(registry)'
  <2>1. KeepsAcked(registry')
    BY <1>0, AcceptedKeepsAcked DEF ServerIInv
  <2> QED BY <2>1 DEF KeepsAcked
<1>4. (StoppingIsQuiet /\ SnapIsGood)'
  BY DEF StoppingIsQuiet, SnapIsGood, InBootstrap
<1> QED BY <1>1, <1>2, <1>3, <1>4 DEF ServerIInv

\* The sidecar re-read: what counts of it is durable.
LEMMA RootsReload ==
  ASSUME ServerIInv, TypeOK', NEW here, LoadRoots(here), ~InBootstrap',
         cur'.step \notin {"roots", "bind"}, shutdown' => cur' = Free,
         UNCHANGED <<registry, bindings, acked>>
  PROVE  ServerIInv'
<1>1. bindings \in [Channel -> Binding \cup {None}]
  BY DEF ServerIInv, TypeOK
<1>2. Durable(registry, bindings, roots', poisoned')
  BY <1>1, MatchingIsDurable DEF LoadRoots
<1>3. MemoryIsDurable'
  BY <1>2 DEF MemoryIsDurable, Durable
<1>4. (ContractIsRegistered /\ StoppingIsQuiet /\ SnapIsGood)'
  BY DEF ContractIsRegistered, StoppingIsQuiet, SnapIsGood, InBootstrap
<1>5. KeepsAcked(registry)'
  BY DEF ServerIInv, KeepsAcked
<1> QED BY <1>3, <1>4, <1>5 DEF ServerIInv

\* Registration, repair, bootstrap and shutdown begin.
LEMMA ControlKeeps ==
  ASSUME ServerIInv, ControlRequest
  PROVE  ServerIInv'
<1>0. TypeOK
  BY DEF ServerIInv
<1>1. CASE ShutdownIfIdle
  <2>1. TypeOK'
    BY <1>0, <1>1 DEF TypeOK, ShutdownIfIdle, files, people, memory
  <2>2. StoppingIsQuiet'
    BY <1>1 DEF StoppingIsQuiet, ShutdownIfIdle, Admitted, LifecycleFree
  <2> QED BY <1>1, <2>1, <2>2
      DEF ShutdownIfIdle, ServerIInv, MemoryIsDurable, HalfUndone, Durable,
          ContractIsRegistered, KeepsAcked, SnapIsGood, InBootstrap, files,
          people, memory
<1>2. ASSUME NEW w \in Workline, NEW k \in Contract, RegisterWorkline(w, k)
      PROVE  ServerIInv'
  <2>1. bindings \in [Channel -> Binding \cup {None}]
    BY <1>0 DEF TypeOK
  <2>2. bindings' \in [Channel -> Binding \cup {None}]
    BY <1>2, <2>1, ReprojectedType DEF RegisterWorkline
  <2>3. cur' \in Current
    BY <1>2 DEF RegisterWorkline, Current
  <2>4. registry' \in Entries
    BY <1>0, <1>2 DEF TypeOK, RegisterWorkline, Entries
  <2>5. TypeOK'
    BY <1>0, <1>2, <2>2, <2>3, <2>4 DEF TypeOK, RegisterWorkline, people
  <2> QED BY <1>2, <2>1, <2>5, RegistryMoves
          DEF RegisterWorkline, Admitted, LifecycleFree, people
<1>3. ASSUME NEW w \in Workline, NEW k \in Contract,
             NEW here \in SUBSET Workline, RepairBegin(w, k, here)
      PROVE  ServerIInv'
  <2>1. cur' \in Current
    BY <1>3 DEF RepairBegin, Current
  <2>2. roots' \in Entries /\ poisoned' \in BOOLEAN
    BY <1>0, <1>3, MatchingType DEF TypeOK, RepairBegin, LoadRoots
  <2>3. TypeOK'
    BY <1>0, <1>3, <2>1, <2>2 DEF TypeOK, RepairBegin, files, people
  <2>4. ~InBootstrap' /\ cur'.step \notin {"roots", "bind"}
    BY <1>3 DEF RepairBegin, InBootstrap
  <2> QED BY <1>3, <2>3, <2>4, RootsReload
          DEF RepairBegin, files, people, Admitted
<1>4. ASSUME NEW w \in Workline, NEW k \in Contract,
             NEW here \in SUBSET Workline, NEW o \in Operation \cup {None},
             NEW mode \in AccessMode, BootstrapBegin(o, w, k, mode, here)
      PROVE  ServerIInv'
  <2>0. /\ cur = Free /\ ~shutdown /\ inbox' \subseteq Operation
        /\ UNCHANGED <<registry, sidecar, up, shutdown, snap, channels,
                       bindings, writeLease, ops, stale, client, issued,
                       owned, acked, crashes>>
    BY <1>0, <1>4 DEF TypeOK, BootstrapBegin, Admitted, LifecycleFree, files
  <2>1. CASE LoadRoots(here) /\ cur' = IF poisoned' THEN Free
                 ELSE [kind |-> "bootstrap", step |-> "guard", op |-> o,
                       wl |-> w, ctx |-> k, mode |-> mode]
    <3>1. cur' \in Current
      BY <2>1 DEF Current
    <3>2. roots' \in Entries /\ poisoned' \in BOOLEAN
      BY <1>0, <2>1, MatchingType DEF TypeOK, LoadRoots
    <3>3. TypeOK'
      BY <1>0, <2>0, <3>1, <3>2 DEF TypeOK
    <3>4. ~InBootstrap' /\ cur'.step \notin {"roots", "bind"}
      BY <2>1 DEF InBootstrap, Free
    <3> QED BY <2>0, <2>1, <3>3, <3>4, RootsReload
  <2>2. CASE UNCHANGED <<roots, poisoned, cur>>
    <3>1. TypeOK'
      BY <1>0, <2>0, <2>2 DEF TypeOK
    <3> QED BY <2>0, <2>2, <3>1, FreeIsGuardFree, GuardFreeKeeps
  <2> QED BY <1>4, <2>1, <2>2 DEF BootstrapBegin
<1> QED BY <1>1, <1>2, <1>3, <1>4 DEF ControlRequest

\* refresh_bound_contract begins.
LEMMA RefreshKeeps ==
  ASSUME ServerIInv, NEW c \in Channel, NEW k \in Contract,
         NEW gone \in SUBSET Bound, RefreshContract(c, k, gone)
  PROVE  ServerIInv'
<1>0. TypeOK
  BY DEF ServerIInv
<1> DEFINE table == BindingsWithout(gone)
<1>1. table \in [Channel -> Binding \cup {None}]
  BY <1>0, BindingsWithoutType DEF TypeOK
<1>2. PICK b \in Binding : b = table[c]
  BY <1>1 DEF RefreshContract
<1>3. b.wl \in Workline
  BY DEF Binding
<1>4. /\ registry' = [registry EXCEPT ![b.wl] = k]
      /\ bindings' = Reprojected(table, b.wl, k)
      /\ cur' = [kind |-> "refresh", step |-> "roots", wl |-> b.wl, ctx |-> k]
      /\ Accepts(registry[b.wl], k)
      /\ cur = Free /\ ~shutdown
  BY <1>2 DEF RefreshContract, Admitted, LifecycleFree
<1>5. TypeOK'
  <2>1. bindings' \in [Channel -> Binding \cup {None}]
    BY <1>1, <1>3, <1>4, ReprojectedType
  <2>2. cur' \in Current
    BY <1>3, <1>4 DEF Current
  <2>3. registry' \in Entries
    BY <1>0, <1>3, <1>4 DEF TypeOK, Entries
  <2>4. writeLease' \in [Workline -> Channel \cup {None}]
    BY <1>0, LeasesWithoutType DEF TypeOK, RefreshContract
  <2>5. stale' \subseteq Channel /\ ops' \in [Operation -> Channel \cup {None}]
    BY <1>0, TouchType DEF RefreshContract
  <2> QED BY <1>0, <2>1, <2>2, <2>3, <2>4, <2>5 DEF TypeOK, RefreshContract, people
<1>6. \A d \in Channel : table[d] # None => table[d] = bindings[d]
  BY DEF BindingsWithout
<1>7. UNCHANGED <<shutdown, roots, poisoned, acked>>
  BY DEF RefreshContract, people
<1> HIDE DEF table
<1> QED BY <1>1, <1>3, <1>4, <1>5, <1>6, <1>7, RegistryMoves

----------------------------------------------------------------------------
(* The steps of the request that holds the lock. *)

\* Which requests are at a step, and what is at hand there.
LEMMA CurrentIs ==
  ASSUME TypeOK
  PROVE  /\ cur.kind \in {"register", "refresh"} =>
              /\ cur.step = "roots" /\ cur.wl \in Workline /\ cur.ctx \in Contract
         /\ cur.kind = "repair" =>
              /\ cur.step = "guard" /\ cur.wl \in Workline /\ cur.ctx \in Contract
         /\ cur.kind = "bootstrap" =>
              /\ cur.wl \in Workline /\ cur.ctx \in Contract
              /\ cur.op \in Operation \cup {None} /\ cur.mode \in AccessMode
              /\ cur.step \in {"guard", "roots", "bind", "undo", "undo_sidecar"}
         /\ cur.step \in {"bind", "undo", "undo_sidecar"} => cur.kind = "bootstrap"
         /\ cur.step = "undo_sidecar" => cur.restored \in BOOLEAN
         /\ cur = Free \/ cur.kind \in {"register", "refresh", "repair", "bootstrap"}
BY DEF TypeOK, Current, Free

\* A bootstrap that goes on keeps what it is about.
LEMMA BootstrapGoesOn ==
  ASSUME TypeOK, cur.kind = "bootstrap", cur.step # "undo_sidecar",
         NEW s \in {"roots", "bind", "undo"}
  PROVE  LET next == [cur EXCEPT !.step = s]
         IN  /\ next \in Current /\ next.kind = "bootstrap" /\ next.step = s
             /\ next.wl = cur.wl /\ next.ctx = cur.ctx
<1> DEFINE Going == [kind: {"bootstrap"},
                     step: {"guard", "roots", "bind", "undo"},
                     op: Operation \cup {None}, wl: Workline, ctx: Contract,
                     mode: AccessMode]
<1>1. cur \in Going
  BY DEF TypeOK, Current, Free
<1>2. [cur EXCEPT !.step = s] \in Going
  BY <1>1
<1>3. Going \subseteq Current
  BY DEF Current
<1> QED BY <1>1, <1>2, <1>3

\* The answer to a registration or a refresh.
LEMMA RegisterRootsKeeps ==
  ASSUME ServerIInv, NEW ok \in BOOLEAN, NEW here \in SUBSET Workline,
         RegisterRoots(ok, here)
  PROVE  ServerIInv'
<1>0. TypeOK /\ cur' = Free /\ cur.wl \in Workline /\ cur.ctx \in Contract
      /\ cur.step = "roots" /\ registry[cur.wl] = cur.ctx
  BY CurrentIs DEF ServerIInv, RegisterRoots, ContractIsRegistered
<1>1. bindings \in [Channel -> Binding \cup {None}] /\ acked \in Entries
      /\ roots \in Entries
  BY <1>0 DEF TypeOK
<1>2. /\ sidecar' \in Entries /\ roots' \in Entries /\ poisoned' \in BOOLEAN
      /\ acked' \in Entries
      /\ Durable(registry, bindings, roots', poisoned')
      /\ KeepsAcked(registry)'
  <2>1. CASE ok
    <3> DEFINE entries == [roots EXCEPT ![cur.wl] = cur.ctx]
               proof == Matching(entries, here)
    <3>1. entries \in Entries
      BY <1>0, <1>1 DEF Entries
    <3>2. proof \in Entries /\ Durable(registry, bindings, proof, FALSE)
      BY <1>1, <3>1, MatchingType, MatchingIsDurable
    <3>3. sidecar' = proof /\ roots' = proof /\ poisoned' = FALSE
      BY <2>1 DEF RegisterRoots, PersistRoots
    <3>4. acked' = [acked EXCEPT ![cur.wl] = cur.ctx]
      BY <2>1 DEF RegisterRoots
    <3>5. KeepsAcked(registry)'
      <4>1. cur.ctx # None /\ cur.ctx.rev \in Nat
        BY <1>0, NoneAssumption, ScopeContractAssumption DEF Contract
      <4>2. cur.ctx.rev >= cur.ctx.rev
        BY <4>1
      <4> QED BY <1>0, <1>1, <3>4, <4>1, <4>2
          DEF ServerIInv, KeepsAcked, RegisterRoots, Entries
    <3> HIDE DEF proof
    <3>6. acked' \in Entries
      BY <1>0, <1>1, <3>4 DEF Entries
    <3> QED BY <3>2, <3>3, <3>5, <3>6
  <2>2. CASE ~ok
    <3>1. UNCHANGED <<sidecar, roots, poisoned, acked, registry>>
      BY <2>2 DEF RegisterRoots
    <3>2. Durable(registry, bindings, roots, poisoned)
      BY <1>0 DEF ServerIInv, MemoryIsDurable, HalfUndone
    <3> QED BY <1>0, <1>1, <3>1, <3>2 DEF TypeOK, ServerIInv, KeepsAcked
  <2> QED BY <2>1, <2>2
<1>3. TypeOK'
  BY <1>0, <1>2 DEF TypeOK, RegisterRoots, Current
<1>4. MemoryIsDurable'
  BY <1>2 DEF MemoryIsDurable, Durable, RegisterRoots
<1> QED BY <1>0, <1>2, <1>3, <1>4
    DEF ServerIInv, ContractIsRegistered, StoppingIsQuiet, SnapIsGood,
        InBootstrap, Free

\* The end of repair_local_scope.
LEMMA RepairKeeps ==
  ASSUME ServerIInv, NEW ok \in BOOLEAN, NEW back \in BOOLEAN,
         NEW here \in SUBSET Workline, RepairRoots(ok, back, here)
  PROVE  ServerIInv'
<1>0. TypeOK /\ cur' = Free /\ cur.wl \in Workline /\ cur.ctx \in Contract
      /\ cur.step = "guard"
  BY CurrentIs DEF ServerIInv, RepairRoots
<1>1. bindings \in [Channel -> Binding \cup {None}] /\ roots \in Entries
  BY <1>0 DEF TypeOK
<1>2. /\ sidecar' \in Entries /\ roots' \in Entries /\ poisoned' \in BOOLEAN
      /\ Durable(registry, bindings, roots', poisoned')
  <2>1. CASE UNCHANGED <<sidecar, roots, poisoned>>
    <3>1. Durable(registry, bindings, roots, poisoned)
      BY <1>0 DEF ServerIInv, MemoryIsDurable, HalfUndone
    <3> QED BY <1>0, <2>1, <3>1 DEF TypeOK
  <2>2. CASE PersistRoots(cur.wl, cur.ctx, here)
    <3> DEFINE entries == [roots EXCEPT ![cur.wl] = cur.ctx]
               proof == Matching(entries, here)
    <3>1. entries \in Entries
      BY <1>0, <1>1 DEF Entries
    <3>2. proof \in Entries /\ Durable(registry, bindings, proof, FALSE)
      BY <1>1, <3>1, MatchingType, MatchingIsDurable
    <3>3. sidecar' = proof /\ roots' = proof /\ poisoned' = FALSE
      BY <2>2 DEF PersistRoots
    <3> HIDE DEF proof
    <3> QED BY <3>2, <3>3
  <2>3. CASE roots' = NoEntries /\ poisoned' = TRUE /\ UNCHANGED sidecar
    BY <1>0, <2>3, PoisonedIsDurable DEF TypeOK, NoEntries, Entries
  <2> QED BY <2>1, <2>2, <2>3 DEF RepairRoots
<1>3. TypeOK'
  BY <1>0, <1>2 DEF TypeOK, RepairRoots, Current, people
<1>4. MemoryIsDurable'
  BY <1>2 DEF MemoryIsDurable, Durable, RepairRoots
<1>5. KeepsAcked(registry)'
  BY DEF ServerIInv, KeepsAcked, RepairRoots, people
<1> QED BY <1>0, <1>3, <1>4, <1>5
    DEF ServerIInv, ContractIsRegistered, StoppingIsQuiet, SnapIsGood,
        InBootstrap, Free

\* The note a bootstrap takes, and the registration under the guard.
LEMMA BootstrapRegisterKeeps ==
  ASSUME ServerIInv, NEW ok \in BOOLEAN, BootstrapRegister(ok)
  PROVE  ServerIInv'
<1>0. /\ TypeOK /\ cur.wl \in Workline /\ cur.ctx \in Contract
      /\ cur.kind = "bootstrap" /\ cur.step = "guard" /\ cur # Free
  BY CurrentIs DEF ServerIInv, BootstrapRegister, Free
<1>1. Durable(registry, bindings, roots, poisoned) /\ KeepsAcked(registry)
  BY <1>0 DEF ServerIInv, MemoryIsDurable, HalfUndone
<1>2. snap' \in Snapshot
  BY <1>0 DEF TypeOK, BootstrapRegister, NowSnap, Snapshot
<1>3. /\ snap'.registry = registry /\ snap'.bindings = bindings
      /\ snap'.roots = roots /\ snap'.poisoned = poisoned
      /\ snap'.channels = channels
  BY DEF BootstrapRegister, NowSnap
<1>4. UNCHANGED <<sidecar, up, shutdown, channels, writeLease, roots, poisoned,
                  ops, stale, client, inbox, issued, owned, acked, crashes>>
  BY DEF BootstrapRegister, people
<1>5. registry \in Entries /\ bindings \in [Channel -> Binding \cup {None}]
  BY <1>0 DEF TypeOK
<1>6. /\ Durable(registry', bindings', roots, poisoned)
      /\ KeepsAcked(registry')
      /\ registry' \in Entries
      /\ bindings' \in [Channel -> Binding \cup {None}]
      /\ \A c \in Channel : bindings'[c] # None => bindings[c] # None
      /\ cur' \in Current /\ cur'.kind = "bootstrap"
      /\ cur'.step \in {"roots", "undo"}
      /\ cur'.step = "roots" => registry'[cur'.wl] = cur'.ctx
  <2>1. CASE ok /\ Accepts(registry[cur.wl], cur.ctx)
    <3>1. /\ registry' = [registry EXCEPT ![cur.wl] = cur.ctx]
          /\ bindings' = Reprojected(bindings, cur.wl, cur.ctx)
          /\ cur' = [cur EXCEPT !.step = "roots"]
      BY <2>1 DEF BootstrapRegister
    <3>2. Durable(registry', bindings', roots, poisoned)
      BY <1>0, <1>1, <1>5, <3>1, ReprojectedIsDurable
    <3>3. KeepsAcked(registry')
      BY <1>0, <1>1, <2>1, <3>1, AcceptedKeepsAcked
    <3>4. bindings' \in [Channel -> Binding \cup {None}]
      BY <1>0, <1>5, <3>1, ReprojectedType
    <3>5. registry' \in Entries /\ registry'[cur.wl] = cur.ctx
      BY <1>0, <1>5, <3>1 DEF Entries
    <3>6. \A c \in Channel : bindings'[c] # None => bindings[c] # None
      BY <3>1 DEF Reprojected
    <3>7. /\ cur' \in Current /\ cur'.kind = "bootstrap" /\ cur'.step = "roots"
          /\ cur'.wl = cur.wl /\ cur'.ctx = cur.ctx
      BY <1>0, <3>1, BootstrapGoesOn
    <3> QED BY <3>2, <3>3, <3>4, <3>5, <3>6, <3>7
  <2>2. CASE ~(ok /\ Accepts(registry[cur.wl], cur.ctx))
    <3>1. registry' = registry /\ bindings' = bindings
          /\ cur' = [cur EXCEPT !.step = "undo"]
      BY <2>2 DEF BootstrapRegister
    <3>2. cur' \in Current /\ cur'.kind = "bootstrap" /\ cur'.step = "undo"
      BY <1>0, <3>1, BootstrapGoesOn
    <3> QED BY <1>1, <1>5, <3>1, <3>2
  <2> QED BY <2>1, <2>2
<1>7. TypeOK'
  BY <1>0, <1>2, <1>4, <1>6 DEF TypeOK
<1>8. MemoryIsDurable'
  BY <1>4, <1>6 DEF MemoryIsDurable, Durable
<1>9. ContractIsRegistered' /\ StoppingIsQuiet'
  BY <1>0, <1>4, <1>6 DEF ServerIInv, ContractIsRegistered, StoppingIsQuiet
<1>10. KeepsAcked(registry)'
  BY <1>4, <1>6 DEF KeepsAcked
<1>11. Durable(snap'.registry, snap'.bindings, snap'.roots, snap'.poisoned)
  BY <1>1, <1>3
<1>12. KeepsAcked(snap.registry)'
  BY <1>1, <1>3, <1>4 DEF KeepsAcked
<1>13. SnapIsGood'
  BY <1>2, <1>3, <1>4, <1>6, <1>11, <1>12 DEF SnapIsGood, Durable
<1> QED BY <1>7, <1>8, <1>9, <1>10, <1>13 DEF ServerIInv

\* The sidecar write of a bootstrap.
LEMMA BootstrapRootsKeeps ==
  ASSUME ServerIInv, NEW ok \in BOOLEAN, NEW here \in SUBSET Workline,
         BootstrapRoots(ok, here)
  PROVE  ServerIInv'
<1>0. /\ TypeOK /\ cur.wl \in Workline /\ cur.ctx \in Contract
      /\ cur.kind = "bootstrap" /\ cur.step = "roots" /\ cur # Free
      /\ registry[cur.wl] = cur.ctx /\ InBootstrap
  BY CurrentIs
  DEF ServerIInv, BootstrapRoots, ContractIsRegistered, Free, InBootstrap
<1>1. Durable(registry, bindings, roots, poisoned)
  BY <1>0 DEF ServerIInv, MemoryIsDurable, HalfUndone
<1>2. /\ bindings \in [Channel -> Binding \cup {None}] /\ roots \in Entries
      /\ sidecar \in Entries /\ poisoned \in BOOLEAN
  BY <1>0 DEF TypeOK
<1>3. UNCHANGED <<registry, up, shutdown, snap, channels, bindings, writeLease,
                  ops, stale, client, inbox, issued, owned, acked, crashes>>
  BY DEF BootstrapRoots, people
<1>4. /\ Durable(registry, bindings, roots', poisoned')
      /\ sidecar' \in Entries /\ roots' \in Entries /\ poisoned' \in BOOLEAN
      /\ cur' \in Current /\ cur'.kind = "bootstrap"
      /\ cur'.step \in {"bind", "undo"}
      /\ cur'.wl = cur.wl /\ cur'.ctx = cur.ctx
  <2>1. CASE ok
    <3> DEFINE entries == [roots EXCEPT ![cur.wl] = cur.ctx]
               proof == Matching(entries, here)
    <3>1. entries \in Entries
      BY <1>0, <1>2 DEF Entries
    <3>2. proof \in Entries /\ Durable(registry, bindings, proof, FALSE)
      BY <1>2, <3>1, MatchingType, MatchingIsDurable
    <3>3. sidecar' = proof /\ roots' = proof /\ poisoned' = FALSE
          /\ cur' = [cur EXCEPT !.step = "bind"]
      BY <2>1 DEF BootstrapRoots, PersistRoots
    <3> HIDE DEF proof
    <3>4. /\ cur' \in Current /\ cur'.kind = "bootstrap" /\ cur'.step = "bind"
          /\ cur'.wl = cur.wl /\ cur'.ctx = cur.ctx
      BY <1>0, <3>3, BootstrapGoesOn
    <3> QED BY <3>2, <3>3, <3>4
  <2>2. CASE ~ok
    <3>1. roots' = [roots EXCEPT ![cur.wl] = cur.ctx]
          /\ cur' = [cur EXCEPT !.step = "undo"]
          /\ UNCHANGED <<sidecar, poisoned>>
      BY <2>2 DEF BootstrapRoots
    <3>2. roots' \in Entries
      BY <1>0, <1>2, <3>1 DEF Entries
    <3>3. /\ cur' \in Current /\ cur'.kind = "bootstrap" /\ cur'.step = "undo"
          /\ cur'.wl = cur.wl /\ cur'.ctx = cur.ctx
      BY <1>0, <3>1, BootstrapGoesOn
    <3>4. Durable(registry, bindings, roots', poisoned')
      BY <1>0, <1>1, <1>2, <3>1 DEF Durable, Entries, Binding
    <3> QED BY <1>2, <3>1, <3>2, <3>3, <3>4
  <2> QED BY <2>1, <2>2
<1>5. TypeOK'
  BY <1>0, <1>3, <1>4 DEF TypeOK
<1>6. MemoryIsDurable'
  BY <1>3, <1>4 DEF MemoryIsDurable, Durable
<1>7. ContractIsRegistered' /\ StoppingIsQuiet' /\ KeepsAcked(registry)'
  BY <1>0, <1>3, <1>4
  DEF ServerIInv, ContractIsRegistered, StoppingIsQuiet, KeepsAcked
<1>8. SnapIsGood'
  BY <1>0, <1>3, <1>4 DEF ServerIInv, SnapIsGood, Durable, KeepsAcked, InBootstrap
<1> QED BY <1>5, <1>6, <1>7, <1>8 DEF ServerIInv

\* The channel, its lease and the answer.
LEMMA BootstrapBindKeeps ==
  ASSUME ServerIInv, NEW c \in Channel, NEW gone \in SUBSET Bound,
         NEW ok \in BOOLEAN, BootstrapBind(c, gone, ok)
  PROVE  ServerIInv'
<1>0. /\ TypeOK /\ cur.wl \in Workline /\ cur.ctx \in Contract
      /\ cur.op \in Operation \cup {None} /\ cur.mode \in AccessMode
      /\ cur.kind = "bootstrap" /\ cur.step = "bind"
      /\ registry[cur.wl] = cur.ctx
      /\ cur' = Free /\ snap' = None
  BY CurrentIs DEF ServerIInv, BootstrapBind, ContractIsRegistered
<1>1. Durable(registry, bindings, roots, poisoned)
  BY <1>0 DEF ServerIInv, MemoryIsDurable, HalfUndone
<1> DEFINE rest == BindingsWithout(gone)
           b == [wl |-> cur.wl, ctx |-> cur.ctx, mode |-> cur.mode]
<1>2. bindings' = [rest EXCEPT ![c] = b] /\ b \in Binding
  BY <1>0 DEF BootstrapBind, Binding
<1>3. rest \in [Channel -> Binding \cup {None}]
  BY <1>0, BindingsWithoutType DEF TypeOK
<1>4. Durable(registry, rest, roots, poisoned)
  <2>1. \A d \in Channel : rest[d] # None => rest[d] = bindings[d]
    BY DEF BindingsWithout
  <2> QED BY <1>1, <2>1, FewerAreDurable
<1>5. b.wl = cur.wl /\ b.ctx = cur.ctx
  OBVIOUS
<1>6. Durable(registry, bindings', roots, poisoned)
  <2> HIDE DEF rest, b
  <2> QED BY <1>0, <1>2, <1>3, <1>4, <1>5 DEF Durable
<1>7. TypeOK'
  <2>1. bindings' \in [Channel -> Binding \cup {None}]
    <3> HIDE DEF rest, b
    <3> QED BY <1>2, <1>3
  <2>2. LeasesWithout(gone) \in [Workline -> Channel \cup {None}]
    BY <1>0, LeasesWithoutType DEF TypeOK
  <2>3. writeLease' \in [Workline -> Channel \cup {None}]
    BY <1>0, <2>2 DEF BootstrapBind
  <2>4. ops' \in [Operation -> Channel \cup {None}]
    BY <1>0 DEF TypeOK, BootstrapBind
  <2>5. client' \in [Operation ->
                       {"new", "waiting", "bound", "unsure", "settled"}]
    BY <1>0 DEF TypeOK, BootstrapBind
  <2>6. acked' \in Entries
    BY <1>0 DEF TypeOK, BootstrapBind, Entries
  <2>7. channels' \subseteq Channel /\ issued' \subseteq Channel
        /\ owned' \subseteq Channel
    BY <1>0 DEF TypeOK, BootstrapBind
  <2>8. cur' \in Current
    BY <1>0 DEF Current
  <2>9. UNCHANGED <<registry, sidecar, up, shutdown, roots, poisoned, stale,
                    inbox, crashes>>
    BY DEF BootstrapBind, files
  <2> QED BY <1>0, <2>1, <2>3, <2>4, <2>5, <2>6, <2>7, <2>8, <2>9 DEF TypeOK
<1>8. MemoryIsDurable'
  BY <1>6 DEF MemoryIsDurable, Durable, BootstrapBind, files
<1>9. KeepsAcked(registry)'
  <2>1. cur.ctx # None /\ cur.ctx.rev \in Nat
    BY <1>0, NoneAssumption, ScopeContractAssumption DEF Contract
  <2>2. cur.ctx.rev >= cur.ctx.rev
    BY <2>1
  <2>3. acked' = [acked EXCEPT ![cur.wl] = cur.ctx] /\ registry' = registry
        /\ acked \in Entries
    BY <1>0 DEF BootstrapBind, TypeOK, files
  <2> QED BY <1>0, <2>1, <2>2, <2>3 DEF ServerIInv, KeepsAcked, Entries
<1> QED BY <1>0, <1>7, <1>8, <1>9
    DEF ServerIInv, ContractIsRegistered, StoppingIsQuiet, SnapIsGood,
        InBootstrap, Free

\* The lease is held by another channel.
LEMMA BindFailsKeeps ==
  ASSUME ServerIInv, BootstrapBindFails
  PROVE  ServerIInv'
<1>0. /\ TypeOK /\ cur.kind = "bootstrap" /\ cur.step = "bind" /\ cur # Free
      /\ InBootstrap
      /\ cur' = [cur EXCEPT !.step = "undo"]
  BY DEF ServerIInv, BootstrapBindFails, Free, InBootstrap
<1>1. cur' \in Current /\ cur'.kind = "bootstrap" /\ cur'.step = "undo"
  BY <1>0, BootstrapGoesOn
<1>2. UNCHANGED <<registry, sidecar, up, shutdown, snap, channels, bindings,
                  writeLease, roots, poisoned, ops, stale, client, inbox,
                  issued, owned, acked, crashes>>
  BY DEF BootstrapBindFails, files, memory, people
<1>3. TypeOK'
  BY <1>0, <1>1, <1>2 DEF TypeOK
<1>4. Durable(registry, bindings, roots, poisoned)
  BY <1>0 DEF ServerIInv, MemoryIsDurable, HalfUndone
<1>5. MemoryIsDurable'
  BY <1>2, <1>4 DEF MemoryIsDurable, Durable
<1>6. (ContractIsRegistered /\ StoppingIsQuiet /\ KeepsAcked(registry))'
  BY <1>0, <1>1, <1>2
  DEF ServerIInv, ContractIsRegistered, StoppingIsQuiet, KeepsAcked
<1>7. SnapIsGood'
  BY <1>0, <1>1, <1>2
  DEF ServerIInv, SnapIsGood, InBootstrap, Durable, KeepsAcked
<1> QED BY <1>3, <1>5, <1>6, <1>7 DEF ServerIInv

\* The compensation: the memory as it was noted, and the registry if the file
\* can be written ...
LEMMA UndoRegistryKeeps ==
  ASSUME ServerIInv, NEW ok \in BOOLEAN, UndoRegistry(ok)
  PROVE  ServerIInv'
<1>0. /\ TypeOK /\ cur.wl \in Workline /\ cur.ctx \in Contract
      /\ cur.op \in Operation \cup {None} /\ cur.mode \in AccessMode
      /\ cur.kind = "bootstrap" /\ cur.step = "undo" /\ cur # Free
      /\ InBootstrap
  BY CurrentIs DEF ServerIInv, UndoRegistry, Free, InBootstrap
<1>1. /\ snap \in Snapshot
      /\ Durable(snap.registry, snap.bindings, snap.roots, snap.poisoned)
      /\ KeepsAcked(snap.registry)
  BY <1>0 DEF ServerIInv, SnapIsGood
<1>2. /\ snap.registry \in Entries /\ snap.roots \in Entries
      /\ snap.poisoned \in BOOLEAN /\ snap.channels \subseteq Channel
      /\ snap.bindings \in [Channel -> Binding \cup {None}]
      /\ snap.writeLease \in [Workline -> Channel \cup {None}]
      /\ snap.stale \subseteq Channel
  BY <1>1 DEF Snapshot
<1>3. /\ roots' = snap.roots /\ poisoned' = snap.poisoned
      /\ bindings' = snap.bindings
      /\ registry' = IF ok THEN snap.registry ELSE registry
      /\ UNCHANGED <<sidecar, up, shutdown, snap, ops, client, inbox, issued,
                     owned, acked, crashes>>
  BY DEF UndoRegistry, people
<1>4. cur' \in Current /\ cur'.step = "undo_sidecar" /\ cur'.restored = ok
  BY <1>0 DEF UndoRegistry, Current
<1>5. TypeOK'
  <2>1. registry' \in Entries
    BY <1>0, <1>2, <1>3 DEF TypeOK
  <2> QED BY <1>0, <1>1, <1>2, <1>4, <2>1 DEF TypeOK, UndoRegistry, people
<1>6. MemoryIsDurable'
  <2>1. CASE ok
    <3>1. Durable(registry', bindings', roots', poisoned')
      BY <1>1, <1>3, <2>1
    <3> QED BY <3>1 DEF MemoryIsDurable, Durable
  <2>2. CASE ~ok
    BY <1>4, <2>2 DEF MemoryIsDurable, HalfUndone
  <2> QED BY <2>1, <2>2
<1>7. KeepsAcked(registry)'
  <2>1. KeepsAcked(registry')
    BY <1>1, <1>3 DEF ServerIInv
  <2> QED BY <1>3, <2>1 DEF KeepsAcked
<1>8. (ContractIsRegistered /\ StoppingIsQuiet)'
  BY <1>0, <1>3, <1>4 DEF ServerIInv, ContractIsRegistered, StoppingIsQuiet
<1>9. SnapIsGood'
  BY <1>1, <1>3, <1>4 DEF SnapIsGood, InBootstrap, Durable, KeepsAcked
<1> QED BY <1>5, <1>6, <1>7, <1>8, <1>9 DEF ServerIInv

\* ... and the sidecar, or a poisoned map.
LEMMA UndoSidecarKeeps ==
  ASSUME ServerIInv, NEW ok \in BOOLEAN, UndoSidecar(ok)
  PROVE  ServerIInv'
<1>0. /\ TypeOK /\ cur.kind = "bootstrap" /\ cur.step = "undo_sidecar"
      /\ cur.restored \in BOOLEAN /\ InBootstrap
      /\ cur' = Free /\ snap' = None
  BY CurrentIs DEF ServerIInv, UndoSidecar, InBootstrap
<1>1. snap \in Snapshot
  BY <1>0 DEF ServerIInv, SnapIsGood
<1>2. snap.sidecar \in Entries
  BY <1>1 DEF Snapshot
<1>3. /\ UNCHANGED <<registry, up, shutdown, channels, bindings, writeLease,
                     ops, stale, client, inbox, issued, owned, acked, crashes>>
      /\ sidecar' = IF ok THEN snap.sidecar ELSE sidecar
  BY DEF UndoSidecar, people
<1>4. /\ roots' \in Entries /\ poisoned' \in BOOLEAN
      /\ Durable(registry, bindings, roots', poisoned')
  <2>1. CASE ok /\ cur.restored
    <3>1. UNCHANGED <<roots, poisoned>>
      BY <2>1 DEF UndoSidecar
    <3>2. Durable(registry, bindings, roots, poisoned)
      BY <2>1 DEF ServerIInv, MemoryIsDurable, HalfUndone
    <3> QED BY <1>0, <3>1, <3>2 DEF TypeOK
  <2>2. CASE ~(ok /\ cur.restored)
    <3>1. roots' = NoEntries /\ poisoned' = TRUE
      BY <2>2 DEF UndoSidecar
    <3> QED BY <3>1, PoisonedIsDurable DEF NoEntries, Entries
  <2> QED BY <2>1, <2>2
<1>5. TypeOK'
  <2>1. sidecar' \in Entries
    BY <1>0, <1>2, <1>3 DEF TypeOK
  <2> QED BY <1>0, <1>3, <1>4, <2>1 DEF TypeOK, Current
<1>6. MemoryIsDurable'
  BY <1>3, <1>4 DEF MemoryIsDurable, Durable
<1>7. KeepsAcked(registry)'
  BY <1>3 DEF ServerIInv, KeepsAcked
<1> QED BY <1>0, <1>5, <1>6, <1>7
    DEF ServerIInv, ContractIsRegistered, StoppingIsQuiet, SnapIsGood,
        InBootstrap, Free

\* Death and a new start of the process.
LEMMA ProcessKeeps ==
  ASSUME ServerIInv,
         Crash \/ Stop \/ \E here \in SUBSET Workline : Start(here)
  PROVE  ServerIInv'
<1>0. TypeOK
  BY DEF ServerIInv
<1>1. CASE Crash \/ Stop
  <2>1. LoseMemory /\ crashes' \in 0 .. MaxCrash
    BY <1>0, <1>1, ServerAssumption DEF TypeOK, Crash, Stop
  <2>2. TypeOK'
    BY <1>0, <2>1 DEF TypeOK, LoseMemory, files, Current, Entries, NoEntries
  <2>3. MemoryIsDurable'
    BY <2>1 DEF MemoryIsDurable, Durable, LoseMemory
  <2>4. KeepsAcked(registry)'
    BY <2>1 DEF ServerIInv, KeepsAcked, LoseMemory, files
  <2> QED BY <2>1, <2>2, <2>3, <2>4
      DEF ServerIInv, LoseMemory, ContractIsRegistered, StoppingIsQuiet,
          SnapIsGood, InBootstrap, Free
<1>2. ASSUME NEW here \in SUBSET Workline, Start(here) PROVE ServerIInv'
  <2>1. roots' \in Entries /\ poisoned' \in BOOLEAN
    BY <1>0, <1>2, MatchingType DEF TypeOK, Start, LoadRoots
  <2>2. TypeOK'
    BY <1>0, <1>2, <2>1 DEF TypeOK, Start, files, people
  <2>3. bindings \in [Channel -> Binding \cup {None}]
    BY <1>0 DEF TypeOK
  <2>4. Durable(registry, bindings, roots', poisoned')
    BY <1>2, <2>3, MatchingIsDurable DEF Start, LoadRoots
  <2>5. MemoryIsDurable'
    BY <1>2, <2>4 DEF MemoryIsDurable, Durable, Start, files
  <2> QED BY <1>2, <2>2, <2>5
      DEF ServerIInv, Start, files, people, ContractIsRegistered,
          StoppingIsQuiet, SnapIsGood, InBootstrap, KeepsAcked, Durable
<1> QED BY <1>1, <1>2

----------------------------------------------------------------------------
(* The invariant, and the properties the runs check. *)

\* Every behaviour keeps the inductive invariant.
THEOREM ServerInvariance == Spec => []ServerIInv
<1>1. Init => ServerIInv
  <2> SUFFICES ASSUME Init PROVE ServerIInv
    OBVIOUS
  <2>1. cur \in Current /\ crashes \in 0 .. MaxCrash
    BY ServerAssumption DEF Init, Current
  <2>2. NoEntries \in Entries
    BY DEF NoEntries, Entries
  <2>3. /\ bindings \in [Channel -> Binding \cup {None}]
        /\ writeLease \in [Workline -> Channel \cup {None}]
        /\ ops \in [Operation -> Channel \cup {None}]
        /\ client \in [Operation ->
                         {"new", "waiting", "bound", "unsure", "settled"}]
    BY DEF Init
  <2>4. TypeOK
    BY <2>1, <2>2, <2>3 DEF Init, TypeOK
  <2> QED BY <2>4
      DEF Init, ServerIInv, MemoryIsDurable, Durable, ContractIsRegistered,
          StoppingIsQuiet, KeepsAcked, NoEntries, SnapIsGood, InBootstrap, Free
<1>2. ServerIInv /\ [Next]_vars => ServerIInv'
  <2> SUFFICES ASSUME ServerIInv, [Next]_vars PROVE ServerIInv'
    OBVIOUS
  <2>1. CASE CurrentStep
    BY <2>1, BindFailsKeeps, BootstrapRegisterKeeps, UndoRegistryKeeps,
       UndoSidecarKeeps, RegisterRootsKeeps, BootstrapRootsKeeps, RepairKeeps,
       BootstrapBindKeeps DEF CurrentStep
  <2>2. CASE ControlRequest
    BY <2>2, ControlKeeps
  <2>3. CASE Maintenance \/ Environment
    BY <2>3, MaintenanceKeeps, ProcessKeeps DEF Environment
  <2>4. CASE Stop \/ \E here \in SUBSET Workline : Start(here)
    BY <2>4, ProcessKeeps
  <2>5. ASSUME NEW c \in Channel, ChannelRequest(c) PROVE ServerIInv'
    BY <2>5, ChannelKeeps, RefreshKeeps DEF ChannelRequest
  <2>6. ASSUME NEW o \in Operation, ClientStep(o) PROVE ServerIInv'
    BY <2>6, ClientKeeps
  <2>7. CASE UNCHANGED vars
    <3>1. TypeOK'
      BY <2>7 DEF ServerIInv, TypeOK, vars
    <3> QED BY <2>7, <3>1, ClientSideKeeps DEF vars, files, memory
  <2> QED BY <2>1, <2>2, <2>3, <2>4, <2>5, <2>6, <2>7 DEF Next
<1> QED BY <1>1, <1>2, PTL DEF Spec

\* The state of files, process and clients is of its type.
THEOREM ServerTypeCorrect == Spec => []TypeOK
<1>1. ServerIInv => TypeOK
  BY DEF ServerIInv
<1> QED BY <1>1, ServerInvariance, PTL

\* What authorize answers for a bound channel is what the registry file holds,
\* whatever writes and restorations failed before.
THEOREM AuthorizedIsDurable == Spec => []AuthorizedScopeIsDurable
<1>1. ServerIInv => AuthorizedScopeIsDurable
  BY DEF ServerIInv, MemoryIsDurable, HalfUndone, Durable,
         AuthorizedScopeIsDurable, Proved, GuardFree, Guarded
<1> QED BY <1>1, ServerInvariance, PTL

\* No compensation and no crash takes an acknowledged contract back.
THEOREM AcknowledgedSurvives == Spec => []AcknowledgedContractSurvives
<1>1. ServerIInv => AcknowledgedContractSurvives
  BY DEF ServerIInv, KeepsAcked, AcknowledgedContractSurvives
<1> QED BY <1>1, ServerInvariance, PTL

\* A step adds at most one channel, of a new identity, and none to a broker
\* that is stopping.
LEMMA ChannelsMove ==
  ASSUME ServerIInv, [Next]_vars
  PROVE  \/ channels' \subseteq channels
         \/ ~shutdown /\ \E c \in Channel : c \notin issued /\ channels' = channels \cup {c}
<1>0. TypeOK /\ StoppingIsQuiet
  BY DEF ServerIInv
<1>1. CASE CurrentStep
  <2>1. ASSUME NEW ok \in BOOLEAN, UndoRegistry(ok) PROVE channels' = channels
    <3>1. InBootstrap /\ cur.step # "undo_sidecar"
      BY <1>0, <2>1, CurrentIs DEF UndoRegistry, InBootstrap
    <3> QED BY <2>1, <3>1 DEF ServerIInv, SnapIsGood, UndoRegistry
  <2>2. ASSUME NEW ok \in BOOLEAN, NEW c \in Channel, NEW gone \in SUBSET Bound,
               BootstrapBind(c, gone, ok)
        PROVE  ~shutdown /\ c \notin issued /\ channels' = channels \cup {c}
    BY <1>0, <2>2 DEF BootstrapBind, StoppingIsQuiet, Free
  <2> QED BY <1>1, <2>1, <2>2
      DEF CurrentStep, BootstrapBindFails, BootstrapRegister, UndoSidecar,
          RegisterRoots, BootstrapRoots, RepairRoots, memory
<1>2. CASE ControlRequest
  BY <1>2 DEF ControlRequest, ShutdownIfIdle, RegisterWorkline, RepairBegin,
              BootstrapBegin, memory
<1>3. CASE Maintenance \/ Environment
  BY <1>3 DEF Maintenance, Environment, ReapOperations, ReapScan, ReapUnbound,
              Close, Crash, LoseMemory, ChannelStale
<1>4. CASE Stop \/ \E here \in SUBSET Workline : Start(here)
  BY <1>4 DEF Stop, Start, LoseMemory
<1>5. ASSUME NEW c \in Channel, ChannelRequest(c)
      PROVE  \/ channels' \subseteq channels
             \/ ~shutdown /\ c \notin issued /\ channels' = channels \cup {c}
  BY <1>5 DEF ChannelRequest, DetachChannel, CloseChannel, Close, OpenChannel,
              Admitted, Request, RefreshContract
<1>6. ASSUME NEW o \in Operation, ClientStep(o) PROVE channels' \subseteq channels
  BY <1>6 DEF ClientStep, SendBootstrap, GiveUp, CancelBootstrap,
              FinalizeBootstrap, Close, memory
<1>7. CASE UNCHANGED vars
  BY <1>7 DEF vars
<1> QED BY <1>1, <1>2, <1>3, <1>4, <1>5, <1>6, <1>7 DEF Next

\* While a compensation is due, the process dies, the memory stays as it is or
\* the compensation is done: it is the only one at work on the channel table.
LEMMA UndoIsAlone ==
  ASSUME ServerIInv, [Next]_vars, cur.step = "undo"
  PROVE  \/ ~up'
         \/ UNCHANGED <<channels, bindings>>
         \/ \E ok \in BOOLEAN : UndoRegistry(ok)
<1>0. TypeOK /\ cur # Free /\ ~GuardFree /\ cur.kind = "bootstrap"
  BY CurrentIs DEF ServerIInv, Free, GuardFree, Guarded
<1>1. CASE CurrentStep
  BY <1>0, <1>1
  DEF CurrentStep, BootstrapBindFails, BootstrapRegister, UndoSidecar,
      RegisterRoots, BootstrapRoots, RepairRoots, BootstrapBind
<1>2. ASSUME ControlRequest PROVE FALSE
  BY <1>0, <1>2 DEF ControlRequest, ShutdownIfIdle, RegisterWorkline,
     RepairBegin, BootstrapBegin, Admitted, LifecycleFree
<1>3. ASSUME Maintenance PROVE FALSE
  BY <1>0, <1>3 DEF Maintenance, ReapOperations, ReapScan, ReapUnbound
<1>4. CASE Environment
  BY <1>0, <1>4 DEF Environment, Crash, LoseMemory, ChannelStale
<1>5. CASE Stop \/ \E here \in SUBSET Workline : Start(here)
  BY <1>5 DEF Stop, LoseMemory, Start
<1>6. ASSUME NEW c \in Channel, ChannelRequest(c) PROVE FALSE
  BY <1>0, <1>6 DEF ChannelRequest, DetachChannel, CloseChannel, OpenChannel,
     Admitted, LifecycleFree, Request, RefreshContract
<1>7. ASSUME NEW o \in Operation, ClientStep(o)
      PROVE  UNCHANGED <<channels, bindings>>
  BY <1>0, <1>7 DEF ClientStep, SendBootstrap, GiveUp, CancelBootstrap,
     FinalizeBootstrap, Admitted, LifecycleFree, memory
<1>8. CASE UNCHANGED vars
  BY <1>8 DEF vars
<1> QED BY <1>1, <1>2, <1>3, <1>4, <1>5, <1>6, <1>7, <1>8 DEF Next

\* No step revives a channel that is gone, no compensation drops one that
\* another client opened or bound, and a stopping broker admits nobody.
THEOREM ChannelTableKept == Spec => ChannelTableIsKept
<1>1. ASSUME ServerIInv, [Next]_vars
      PROVE  RevivesNothing /\ UndoDropsNothing /\ StoppingAdmitsNobody
  <2>1. RevivesNothing /\ StoppingAdmitsNobody
    BY <1>1, ChannelsMove DEF RevivesNothing, StoppingAdmitsNobody
  <2>2. ASSUME cur.step = "undo", up' PROVE UndoDropsNothing
    <3>1. CASE UNCHANGED <<channels, bindings>>
      BY <3>1 DEF UndoDropsNothing
    <3>2. ASSUME NEW ok \in BOOLEAN, UndoRegistry(ok) PROVE UndoDropsNothing
      <4>1. InBootstrap /\ cur.step # "undo_sidecar"
        BY <1>1, <2>2, CurrentIs DEF ServerIInv, InBootstrap
      <4> QED BY <1>1, <3>2, <4>1
          DEF ServerIInv, SnapIsGood, UndoRegistry, UndoDropsNothing
    <3> QED BY <1>1, <2>2, <3>1, <3>2, UndoIsAlone
  <2>3. UndoDropsNothing
    BY <2>2 DEF UndoDropsNothing
  <2> QED BY <2>1, <2>3
<1> QED BY <1>1, ServerInvariance, PTL DEF Spec, ChannelTableIsKept
=============================================================================
