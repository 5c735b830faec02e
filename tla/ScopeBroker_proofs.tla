------------------------- MODULE ScopeBroker_proofs -------------------------
(***************************************************************************)
(* Proofs about ScopeBroker, for every value of its constants.             *)
(*                                                                         *)
(* The inductive invariant is IInv: types, the agreement of the two tables *)
(* that say who writes, the fact that a bound channel was opened (so that  *)
(* a new channel cannot already be bound), and the life of a grant.        *)
(***************************************************************************)
EXTENDS ScopeBroker, TLAPS

\* WriteLeaseIsTheWriter, said of any pair of tables.
Agree(table, lease) ==
    \A w \in Workline, c \in Channel :
        lease[w] = c <=> /\ table[c] # None
                         /\ table[c].wl = w
                         /\ table[c].mode = "write"

\* A bound channel and a known channel have been handed out.
BoundIsOpened ==
    /\ channels \subseteq opened
    /\ \A c \in Channel : bindings[c] # None => c \in opened

\* A grant that paid was minted, and cannot be found unused again.
SpentGrantIsUsed ==
    \A g \in Grant :
        /\ grants[g] # None => g <= minted
        /\ spent[g] > 0 => /\ spent[g] = 1
                           /\ g <= minted
                           /\ grants[g] # None => grants[g].used

IInv == TypeOK /\ WriteLeaseIsTheWriter /\ BoundIsOpened /\ SpentGrantIsUsed

BindingTable == [Channel -> Binding \cup {None}]
LeaseTable == [Workline -> Channel \cup {None}]

----------------------------------------------------------------------------
(* Expiry. *)

\* What expiry leaves is again a table of bindings, and one of leases.
LEMMA LiveTypes ==
    ASSUME TypeOK, NEW at \in Nat
    PROVE  LiveBindings(at) \in BindingTable /\ LiveLeases(at) \in LeaseTable
BY DEF TypeOK, LiveBindings, LiveLeases, BindingTable, LeaseTable

\* Expiry takes a writer's lease entry with its binding and nothing else.
LEMMA LiveAgree ==
    ASSUME TypeOK, WriteLeaseIsTheWriter, NEW at \in Nat
    PROVE  Agree(LiveBindings(at), LiveLeases(at))
<1> SUFFICES ASSUME NEW w \in Workline, NEW c \in Channel
             PROVE  LiveLeases(at)[w] = c <=>
                      /\ LiveBindings(at)[c] # None
                      /\ LiveBindings(at)[c].wl = w
                      /\ LiveBindings(at)[c].mode = "write"
    BY DEF Agree
<1>1. writeLease[w] = c <=> /\ bindings[c] # None
                            /\ bindings[c].wl = w
                            /\ bindings[c].mode = "write"
    BY DEF WriteLeaseIsTheWriter
<1>2. None \notin Channel
    BY ScopeBrokerAssumption
<1>3. CASE c \in Lapsed(at)
    BY <1>1, <1>2, <1>3 DEF LiveBindings, LiveLeases
<1>4. CASE c \notin Lapsed(at)
    <2>1. LiveBindings(at)[c] = bindings[c]
        BY <1>4 DEF LiveBindings
    <2>2. LiveLeases(at)[w] = c <=> writeLease[w] = c
        BY <1>2, <1>4 DEF LiveLeases
    <2> QED BY <1>1, <2>1, <2>2
<1> QED BY <1>3, <1>4

\* Pairing refs keep their type when they lapse or are made anew.
LEMMA RefTypes ==
    ASSUME TypeOK, NEW at \in Nat, NEW live
    PROVE  LiveRefs(at, live) \in [Channel -> Nat \cup {None}]
BY DEF TypeOK, LiveRefs

LEMMA EnsureRefType ==
    ASSUME NEW refs \in [Channel -> Nat \cup {None}], NEW c \in Channel,
           NEW replace \in BOOLEAN, NEW at \in Nat
    PROVE  EnsureRef(refs, c, replace, at) \in [Channel -> Nat \cup {None}]
BY ScopeBrokerAssumption DEF EnsureRef

\* Pruning only removes grants.
LEMMA PruneTypes ==
    ASSUME NEW table \in [Grant -> GrantRecord \cup {None}],
           NEW at \in Nat, NEW aggressive \in BOOLEAN
    PROVE  /\ PrunedGrants(table, at, aggressive)
                \in [Grant -> GrantRecord \cup {None}]
           /\ \A g \in Grant : PrunedGrants(table, at, aggressive)[g]
                                 \in {table[g], None}
BY DEF PrunedGrants

----------------------------------------------------------------------------
(* Writing and dropping bindings. *)

\* A deadline is a time.
LEMMA SumType == ASSUME NEW a \in Nat, NEW b \in Nat PROVE a + b \in Nat
OBVIOUS

\* Binding an unbound channel keeps the agreement when the lease was free.
LEMMA BindAgree ==
    ASSUME NEW table \in BindingTable, NEW lease \in LeaseTable,
           NEW c \in Channel, NEW b \in Binding,
           Agree(table, lease), table[c] = None,
           ~LeaseHeld(lease, b.wl, b.mode)
    PROVE  Agree([table EXCEPT ![c] = b], TakeLease(lease, c, b.wl, b.mode))
<1> SUFFICES ASSUME NEW w \in Workline, NEW d \in Channel
             PROVE  TakeLease(lease, c, b.wl, b.mode)[w] = d <=>
                      /\ [table EXCEPT ![c] = b][d] # None
                      /\ [table EXCEPT ![c] = b][d].wl = w
                      /\ [table EXCEPT ![c] = b][d].mode = "write"
    BY DEF Agree
<1>1. /\ None \notin Channel
      /\ b # None
      /\ b.wl \in Workline
    BY ScopeBrokerAssumption, NoneIsNoRecord DEF Binding
<1>2. \A v \in Workline, e \in Channel :
         lease[v] = e <=> /\ table[e] # None
                          /\ table[e].wl = v
                          /\ table[e].mode = "write"
    BY DEF Agree
<1>3. lease[w] # c
    BY <1>2
<1>4. CASE b.mode = "write" /\ w = b.wl
    <2>1. lease[w] = None
        BY <1>4 DEF LeaseHeld
    <2>2. TakeLease(lease, c, b.wl, b.mode)[w] = c
        BY <1>4 DEF TakeLease, LeaseTable
    <2> QED BY <1>1, <1>2, <1>4, <2>1, <2>2 DEF BindingTable
<1>5. CASE ~(b.mode = "write" /\ w = b.wl)
    <2>1. TakeLease(lease, c, b.wl, b.mode)[w] = lease[w]
        BY <1>5 DEF TakeLease, LeaseTable
    <2> QED BY <1>1, <1>2, <1>3, <1>5, <2>1 DEF BindingTable
<1> QED BY <1>4, <1>5

\* Giving the bindings of a workline a new context changes neither who writes
\* nor who is bound.
LEMMA ReprojectAgree ==
    ASSUME NEW table \in BindingTable, NEW lease, Agree(table, lease),
           NEW w \in Workline, NEW k \in Contract
    PROVE  /\ Reprojected(table, w, k) \in BindingTable
           /\ Agree(Reprojected(table, w, k), lease)
           /\ \A c \in Channel : Reprojected(table, w, k)[c] # None
                                   <=> table[c] # None
<1>1. ASSUME NEW c \in Channel, table[c] # None
      PROVE  /\ [table[c] EXCEPT !.ctx = k] \in Binding
             /\ [table[c] EXCEPT !.ctx = k].wl = table[c].wl
             /\ [table[c] EXCEPT !.ctx = k].mode = table[c].mode
    BY <1>1 DEF BindingTable, Binding
<1>2. None \notin Binding
    BY NoneIsNoRecord
<1>3. \A c \in Channel : Reprojected(table, w, k)[c] =
         IF table[c] # None /\ table[c].wl = w
         THEN [table[c] EXCEPT !.ctx = k] ELSE table[c]
    BY DEF Reprojected
<1>4. Reprojected(table, w, k) \in BindingTable
    BY <1>1 DEF Reprojected, BindingTable
<1>5. \A c \in Channel : Reprojected(table, w, k)[c] # None <=> table[c] # None
    BY <1>1, <1>2, <1>3
<1>6. ASSUME NEW v \in Workline, NEW c \in Channel
      PROVE  lease[v] = c <=> /\ Reprojected(table, w, k)[c] # None
                              /\ Reprojected(table, w, k)[c].wl = v
                              /\ Reprojected(table, w, k)[c].mode = "write"
    <2>1. lease[v] = c <=> /\ table[c] # None
                           /\ table[c].wl = v
                           /\ table[c].mode = "write"
        BY DEF Agree
    <2>2. CASE table[c] = None
        BY <1>5, <2>1, <2>2
    <2>3. CASE table[c] # None
        <3>1. /\ Reprojected(table, w, k)[c].wl = table[c].wl
              /\ Reprojected(table, w, k)[c].mode = table[c].mode
            BY <1>1, <1>3, <2>3
        <3> QED BY <1>5, <2>1, <2>3, <3>1
    <2> QED BY <2>2, <2>3
<1> QED BY <1>4, <1>5, <1>6 DEF Agree

----------------------------------------------------------------------------
(* What the ways to write the two tables do to the invariant. *)

TablesOK ==
    /\ bindings \in BindingTable
    /\ writeLease \in LeaseTable
    /\ WriteLeaseIsTheWriter

\* The prologue that expires lapsed leases.
LEMMA ExpireKeeps ==
    ASSUME TypeOK, WriteLeaseIsTheWriter, NEW at \in Nat, ExpireOnly(at)
    PROVE  /\ TablesOK'
           /\ \A c \in Channel : bindings'[c] # None => bindings[c] # None
<1>1. /\ LiveBindings(at) \in BindingTable
      /\ LiveLeases(at) \in LeaseTable
      /\ Agree(LiveBindings(at), LiveLeases(at))
    BY LiveTypes, LiveAgree
<1>2. TablesOK'
    BY <1>1 DEF ExpireOnly, TablesOK, Agree, WriteLeaseIsTheWriter
<1>3. \A c \in Channel : LiveBindings(at)[c] # None => bindings[c] # None
    BY DEF LiveBindings
<1> QED BY <1>2, <1>3 DEF ExpireOnly

\* The prologue, then a new binding of an unbound channel.
LEMMA BindKeeps ==
    ASSUME TypeOK, WriteLeaseIsTheWriter, NEW at \in Nat, NEW c \in Channel,
           NEW b \in Binding,
           LiveBindings(at)[c] = None,
           ~LeaseHeld(LiveLeases(at), b.wl, b.mode),
           bindings' = [LiveBindings(at) EXCEPT ![c] = b],
           writeLease' = TakeLease(LiveLeases(at), c, b.wl, b.mode)
    PROVE  /\ TablesOK'
           /\ \A d \in Channel : bindings'[d] # None => d = c \/ bindings[d] # None
<1>1. /\ LiveBindings(at) \in BindingTable
      /\ LiveLeases(at) \in LeaseTable
      /\ Agree(LiveBindings(at), LiveLeases(at))
    BY LiveTypes, LiveAgree
<1>2. Agree(bindings', writeLease')
    BY <1>1, BindAgree
<1>3. bindings' \in BindingTable
    BY <1>1 DEF BindingTable
<1>4. writeLease' \in LeaseTable
    BY <1>1 DEF LeaseTable, TakeLease
<1>5. TablesOK'
    BY <1>2, <1>3, <1>4 DEF TablesOK, Agree, WriteLeaseIsTheWriter
<1>6. \A d \in Channel : LiveBindings(at)[d] # None => bindings[d] # None
    BY DEF LiveBindings
<1> QED BY <1>1, <1>5, <1>6 DEF BindingTable

\* The body of detach_channel.
LEMMA ReleaseKeeps ==
    ASSUME TypeOK, WriteLeaseIsTheWriter, NEW c \in Channel, Release(c)
    PROVE  /\ TablesOK'
           /\ \A d \in Channel : bindings'[d] # None => bindings[d] # None
<1>1. /\ bindings' = [bindings EXCEPT ![c] = None]
      /\ bindings \in BindingTable
      /\ writeLease \in LeaseTable
      /\ None \notin Channel
    BY ScopeBrokerAssumption DEF Release, TypeOK, BindingTable, LeaseTable
<1>2. bindings' \in BindingTable
    BY <1>1 DEF BindingTable
<1>3. writeLease' \in LeaseTable
    BY <1>1 DEF Release, ReleaseLease, LeaseTable
<1>4. ASSUME NEW w \in Workline, NEW d \in Channel
      PROVE  writeLease'[w] = d <=> /\ bindings'[d] # None
                                    /\ bindings'[d].wl = w
                                    /\ bindings'[d].mode = "write"
    <2>1. \A e \in Channel : writeLease[w] = e <=> /\ bindings[e] # None
                                                   /\ bindings[e].wl = w
                                                   /\ bindings[e].mode = "write"
        BY DEF WriteLeaseIsTheWriter
    <2>2. writeLease'[w] = IF writeLease[w] = c THEN None ELSE writeLease[w]
        BY <2>1 DEF Release, ReleaseLease
    <2>3. CASE d = c
        BY <1>1, <2>2, <2>3 DEF BindingTable
    <2>4. CASE d # c
        BY <1>1, <2>1, <2>2, <2>4 DEF BindingTable
    <2> QED BY <2>3, <2>4
<1>5. \A d \in Channel : bindings'[d] # None => bindings[d] # None
    BY <1>1 DEF BindingTable
<1> QED BY <1>2, <1>3, <1>4, <1>5 DEF TablesOK, WriteLeaseIsTheWriter

\* The memory section of a registration.
LEMMA ReprojectKeeps ==
    ASSUME TypeOK, WriteLeaseIsTheWriter,
           NEW w \in Workline, NEW k \in Contract,
           bindings' = Reprojected(bindings, w, k), writeLease' = writeLease
    PROVE  /\ TablesOK'
           /\ \A d \in Channel : bindings'[d] # None => bindings[d] # None
<1>1. bindings \in BindingTable /\ Agree(bindings, writeLease)
    BY DEF TypeOK, BindingTable, Agree, WriteLeaseIsTheWriter
<1>2. /\ bindings' \in BindingTable
      /\ Agree(bindings', writeLease')
      /\ \A c \in Channel : bindings'[c] # None <=> bindings[c] # None
    BY <1>1, ReprojectAgree
<1>3. writeLease' \in LeaseTable
    BY DEF TypeOK, LeaseTable
<1> QED BY <1>2, <1>3 DEF TablesOK, Agree, WriteLeaseIsTheWriter

\* Changing the expiry, or the context and the expiry, of a channel's binding.
LEMMA TouchKeeps ==
    ASSUME NEW table \in BindingTable, NEW lease \in LeaseTable,
           Agree(table, lease), NEW c \in Channel, table[c] # None,
           NEW b \in Binding, b.wl = table[c].wl, b.mode = table[c].mode,
           bindings' = [table EXCEPT ![c] = b], writeLease' = lease
    PROVE  /\ TablesOK'
           /\ \A d \in Channel : bindings'[d] # None => table[d] # None
<1>1. bindings' \in BindingTable /\ b # None
    BY NoneIsNoRecord DEF BindingTable
<1>2. ASSUME NEW w \in Workline, NEW d \in Channel
      PROVE  lease[w] = d <=> /\ bindings'[d] # None
                              /\ bindings'[d].wl = w
                              /\ bindings'[d].mode = "write"
    <2>1. lease[w] = d <=> /\ table[d] # None
                           /\ table[d].wl = w
                           /\ table[d].mode = "write"
        BY DEF Agree
    <2> QED BY <1>1, <2>1 DEF BindingTable
<1> QED BY <1>1, <1>2 DEF BindingTable, TablesOK, WriteLeaseIsTheWriter

----------------------------------------------------------------------------
(* The steps. *)

\* TypeOK without the two tables.
RestOK ==
    /\ registry \in [Workline -> Contract \cup {None}]
    /\ channels \subseteq Channel
    /\ pairRef \in [Channel -> Nat \cup {None}]
    /\ grants \in [Grant -> GrantRecord \cup {None}]
    /\ now \in Nat
    /\ op \in [Thread -> Pending \cup {Idle}]
    /\ opened \subseteq Channel
    /\ minted \in 0 .. MaxGrant
    /\ leases \in Nat
    /\ spent \in [Grant -> Nat]

\* The invariant is the two tables and the rest.
LEMMA IInvSplit ==
    /\ IInv <=> RestOK /\ TablesOK /\ BoundIsOpened /\ SpentGrantIsUsed
    /\ IInv' <=> RestOK' /\ TablesOK' /\ BoundIsOpened' /\ SpentGrantIsUsed'
BY DEF IInv, RestOK, TablesOK, TypeOK, BindingTable, LeaseTable

\* A binding made by a call in this mode has the type of a binding.
LEMMA NewBindingType ==
    ASSUME TypeOK, NEW w \in Workline, NEW k \in Contract,
           NEW mode \in AccessMode, NEW expires \in Nat
    PROVE  /\ NewBinding(w, k, mode, expires) \in Binding
           /\ NewBinding(w, k, mode, expires).wl = w
           /\ NewBinding(w, k, mode, expires).mode = mode
BY DEF TypeOK, NewBinding, Binding

\* Calls of one section.
LEMMA ChannelCallKeeps ==
    ASSUME IInv, NEW c \in Channel, ChannelCall(c)
    PROVE  IInv'
<1> USE DEF counts, memory
<1>1. TypeOK /\ WriteLeaseIsTheWriter /\ BoundIsOpened /\ SpentGrantIsUsed /\ now \in Nat
    BY DEF IInv, TypeOK
<1>2. LeaseSeconds \subseteq Nat /\ RefSeconds \in Nat
    BY ScopeBrokerAssumption
<1>3. CASE OpenChannel(c)
    BY <1>1, <1>2, <1>3 DEF OpenChannel, IInv, TypeOK, WriteLeaseIsTheWriter,
                            BoundIsOpened, SpentGrantIsUsed
<1>4. CASE Status(c)
    <2>1. TablesOK' /\ \A d \in Channel : bindings'[d] # None => bindings[d] # None
        BY <1>1, <1>4, ExpireKeeps DEF Status
    <2>2. pairRef' \in [Channel -> Nat \cup {None}]
        BY <1>1, <1>4, RefTypes, EnsureRefType DEF Status
    <2>3. RestOK'
        BY <1>1, <1>4, <2>2 DEF Status, TypeOK, RestOK
    <2> QED BY <1>1, <1>4, <2>1, <2>3, IInvSplit
            DEF Status, BoundIsOpened, SpentGrantIsUsed
<1>5. CASE PairingRequestRef(c)
    <2>1. pairRef' \in [Channel -> Nat \cup {None}]
        BY <1>1, <1>5, RefTypes, EnsureRefType DEF PairingRequestRef
    <2>2. UNCHANGED <<registry, channels, bindings, writeLease, grants, now, op,
                      opened, minted, leases, spent>>
        BY <1>5 DEF PairingRequestRef
    <2> QED BY <1>1, <2>1, <2>2
            DEF IInv, TypeOK, WriteLeaseIsTheWriter, BoundIsOpened,
                SpentGrantIsUsed
<1>6. CASE DetachChannel(c)
    <2>1. TablesOK' /\ \A d \in Channel : bindings'[d] # None => bindings[d] # None
        BY <1>1, <1>6, ReleaseKeeps DEF DetachChannel
    <2>2. pairRef' \in [Channel -> Nat \cup {None}]
        BY <1>1, <1>6, EnsureRefType DEF DetachChannel, Release, TypeOK
    <2>3. RestOK'
        BY <1>1, <1>6, <2>2 DEF DetachChannel, TypeOK, RestOK
    <2> QED BY <1>1, <1>6, <2>1, <2>3, IInvSplit
            DEF DetachChannel, BoundIsOpened, SpentGrantIsUsed
<1>7. ASSUME NEW ttl \in LeaseSeconds, RenewLease(c, ttl)
      PROVE  IInv'
    <2>1. /\ LiveBindings(now) \in BindingTable
          /\ LiveLeases(now) \in LeaseTable
          /\ Agree(LiveBindings(now), LiveLeases(now))
        BY <1>1, LiveTypes, LiveAgree
    <2> DEFINE b == [LiveBindings(now)[c] EXCEPT !.expires = now + ttl]
    <2>2. /\ LiveBindings(now)[c] \in Binding
          /\ bindings' = [LiveBindings(now) EXCEPT ![c] = b]
        BY <1>7, <2>1 DEF RenewLease, BindingTable
    <2>3. /\ b \in Binding
          /\ b.wl = LiveBindings(now)[c].wl
          /\ b.mode = LiveBindings(now)[c].mode
        BY <1>1, <1>2, <2>2 DEF Binding
    <2>4. TablesOK' /\ \A d \in Channel : bindings'[d] # None => LiveBindings(now)[d] # None
        BY <1>7, <2>1, <2>2, <2>3, TouchKeeps DEF RenewLease
    <2>5. \A d \in Channel : LiveBindings(now)[d] # None => bindings[d] # None
        BY DEF LiveBindings
    <2>6. RestOK'
        BY <1>1, <1>7 DEF RenewLease, TypeOK, RestOK
    <2> QED BY <1>1, <1>7, <2>4, <2>5, <2>6, IInvSplit
            DEF RenewLease, BoundIsOpened, SpentGrantIsUsed
<1>8. ASSUME NEW ttl \in LeaseSeconds, NEW w \in Workline,
             NEW mode \in AccessMode, NEW at \in 0 .. now, PairRequest(c, w, mode, ttl, at)
      PROVE  IInv'
    <2> DEFINE b == NewBinding(w, registry[w], mode, at + ttl)
    <2>1. registry[w] \in Contract /\ at \in Nat /\ at + ttl \in Nat
        BY <1>1, <1>2, <1>8 DEF PairRequest, TypeOK
    <2>2. b \in Binding /\ b.wl = w /\ b.mode = mode
        BY <1>1, <2>1, NewBindingType
    <2>3. LiveBindings(at)[c] = None /\ c \in channels
        BY <1>8 DEF PairRequest, LiveRefs
    <2>4. TablesOK' /\ \A d \in Channel : bindings'[d] # None => d = c \/ bindings[d] # None
        BY <1>1, <1>8, <2>1, <2>2, <2>3, BindKeeps DEF PairRequest
    <2>5. pairRef' \in [Channel -> Nat \cup {None}]
        BY <1>1, <1>8, <2>1, RefTypes DEF PairRequest
    <2>6. RestOK'
        BY <1>1, <1>8, <2>5 DEF PairRequest, TypeOK, RestOK
    <2> QED BY <1>1, <1>8, <2>3, <2>4, <2>6, IInvSplit
            DEF PairRequest, BoundIsOpened, SpentGrantIsUsed
<1>9. ASSUME NEW ttl \in LeaseSeconds, NEW w \in Workline,
             NEW mode \in AccessMode, NEW at \in 0 .. now, NEW k \in Contract,
             BindNewChannel(c, w, k, mode, ttl, at)
      PROVE  IInv'
    <2> DEFINE b == NewBinding(w, k, mode, at + ttl)
    <2>0. at \in Nat
        BY <1>1 DEF TypeOK
    <2>1. b \in Binding /\ b.wl = w /\ b.mode = mode
        BY <1>1, <1>2, <2>0, NewBindingType
    <2>2. LiveBindings(at)[c] = None
        BY <1>1, <1>9 DEF BindNewChannel, BoundIsOpened, LiveBindings
    <2>3. TablesOK' /\ \A d \in Channel : bindings'[d] # None => d = c \/ bindings[d] # None
        BY <1>1, <1>9, <2>0, <2>1, <2>2, BindKeeps DEF BindNewChannel
    <2>4. RestOK'
        BY <1>1, <1>9 DEF BindNewChannel, TypeOK, RestOK
    <2> QED BY <1>1, <1>9, <2>3, <2>4, IInvSplit
            DEF BindNewChannel, BoundIsOpened, SpentGrantIsUsed
<1> QED BY <1>3, <1>4, <1>5, <1>6, <1>7, <1>8, <1>9 DEF ChannelCall

\* What a thread carries to each of its next sections.
LEMMA PendingShape ==
    ASSUME TypeOK, NEW t \in Thread
    PROVE  /\ At(t, "issue") => op[t] \in
                [step: {"issue"}, chan: Channel, wl: Workline, mode: AccessMode,
                 at: Nat, ttl: GrantSeconds, pair: BOOLEAN]
           /\ At(t, "attach") => op[t] \in
                [step: {"attach"}, chan: Channel, grant: Grant, pair: BOOLEAN]
           /\ At(t, "lookup") => op[t] \in
                [step: {"lookup"}, chan: Channel, grant: Grant, wl: Workline,
                 at: Nat, ttl: LeaseSeconds, pair: BOOLEAN]
           /\ At(t, "bind") => op[t] \in
                [step: {"bind"}, chan: Channel, grant: Grant, ctx: Contract,
                 at: Nat, ttl: LeaseSeconds, pair: BOOLEAN]
           /\ At(t, "drop") => op[t] \in [step: {"drop"}, grant: Grant]
           /\ At(t, "forget") => op[t] \in [step: {"forget"}, chan: Channel]
           /\ At(t, "project") => op[t] \in
                [step: {"project"}, wl: Workline, ctx: Contract]
           /\ At(t, "commit") \/ At(t, "refreshed") \/ At(t, "restore") => op[t] \in
                [step: {"commit", "refreshed", "restore"}, chan: Channel,
                 wl: Workline, ctx: Contract, lease: Nat, expires: Nat]
BY DEF TypeOK, Pending, Idle, At

\* Parking a thread at a record of the right shape keeps the type of op.
LEMMA GotoType ==
    ASSUME TypeOK, NEW t \in Thread, NEW r \in Pending \cup {Idle}, Goto(t, r)
    PROVE  op' \in [Thread -> Pending \cup {Idle}]
BY DEF TypeOK, Goto

\* Where a refused attach_channel leaves its thread.
LEMMA AfterRefusalType ==
    ASSUME NEW g \in Grant, NEW pair \in BOOLEAN
    PROVE  AfterRefusal(g, pair) \in Pending \cup {Idle}
BY DEF AfterRefusal, Pending

\* The first section of attach_channel, whoever called it.
LEMMA AttachCheckKeeps ==
    ASSUME IInv, NEW t \in Thread, NEW c \in Channel, NEW g \in Grant,
           NEW ttl \in LeaseSeconds, NEW pair \in BOOLEAN,
           AttachCheck(t, c, g, ttl, pair)
    PROVE  IInv'
<1>1. TypeOK /\ WriteLeaseIsTheWriter /\ BoundIsOpened /\ SpentGrantIsUsed /\ now \in Nat
    BY DEF IInv, TypeOK
<1>2. TablesOK' /\ \A d \in Channel : bindings'[d] # None => bindings[d] # None
    BY <1>1, ExpireKeeps DEF AttachCheck
<1>3. pairRef' \in [Channel -> Nat \cup {None}]
    BY <1>1, RefTypes DEF AttachCheck
<1>4. UNCHANGED <<registry, channels, grants, now, opened, minted, leases, spent>>
    BY DEF AttachCheck, counts
<1>5. ASSUME GrantUsable(g, c, now)
      PROVE  op' \in [Thread -> Pending \cup {Idle}]
    <2> DEFINE r == [step |-> "lookup", chan |-> c, grant |-> g,
                     wl |-> grants[g].wl, at |-> now, ttl |-> ttl, pair |-> pair]
    <2>1. grants[g].wl \in Workline
        BY <1>1, <1>5 DEF GrantUsable, TypeOK, GrantRecord
    <2>2. r \in Pending
        BY <1>1, <2>1 DEF Pending
    <2> HIDE DEF r
    <2>3. Goto(t, r)
        BY <1>5 DEF AttachCheck, r
    <2> QED BY <1>1, <2>2, <2>3, GotoType
<1>6. ASSUME ~GrantUsable(g, c, now)
      PROVE  op' \in [Thread -> Pending \cup {Idle}]
    BY <1>1, <1>6, GotoType, AfterRefusalType DEF AttachCheck
<1>7. op' \in [Thread -> Pending \cup {Idle}]
    BY <1>5, <1>6
<1>8. RestOK'
    BY <1>1, <1>3, <1>4, <1>7 DEF TypeOK, RestOK
<1> QED BY <1>1, <1>2, <1>4, <1>8, IInvSplit DEF BoundIsOpened, SpentGrantIsUsed

\* The first sections of a thread's calls.
LEMMA ThreadCallKeeps ==
    ASSUME IInv, NEW t \in Thread, ThreadCall(t)
    PROVE  IInv'
<1> USE DEF counts, memory
<1>1. TypeOK /\ WriteLeaseIsTheWriter /\ BoundIsOpened /\ SpentGrantIsUsed /\ now \in Nat
    BY DEF IInv, TypeOK
<1>2. LeaseSeconds \subseteq Nat /\ GrantSeconds \subseteq Nat /\ RefSeconds \in Nat
    BY ScopeBrokerAssumption
<1>3. ASSUME NEW w \in Workline, NEW k \in Contract, RegisterWorkline(t, w, k)
      PROVE  IInv'
    <2>1. op' \in [Thread -> Pending \cup {Idle}]
        <3> DEFINE r == [step |-> "project", wl |-> w, ctx |-> k]
        <3>1. r \in Pending
            BY DEF Pending
        <3>2. Goto(t, r)
            BY <1>3 DEF RegisterWorkline
        <3> HIDE DEF r
        <3> QED BY <1>1, <3>1, <3>2, GotoType
    <2>2. UNCHANGED <<channels, bindings, writeLease, pairRef, grants, now,
                      opened, minted, leases, spent>>
        BY <1>3 DEF RegisterWorkline
    <2>3. registry' \in [Workline -> Contract \cup {None}]
        BY <1>1, <1>3 DEF RegisterWorkline, TypeOK
    <2> QED BY <1>1, <2>1, <2>2, <2>3
            DEF IInv, TypeOK, WriteLeaseIsTheWriter, BoundIsOpened,
                SpentGrantIsUsed
<1>4. ASSUME NEW c \in Channel, CloseBegin(t, c)
      PROVE  IInv'
    <2>1. TablesOK' /\ \A d \in Channel : bindings'[d] # None => bindings[d] # None
        BY <1>1, <1>4, ReleaseKeeps DEF CloseBegin
    <2>2. pairRef' \in [Channel -> Nat \cup {None}]
        BY <1>1, <1>4, EnsureRefType DEF CloseBegin, Release, TypeOK
    <2>3. op' \in [Thread -> Pending \cup {Idle}]
        <3> DEFINE r == [step |-> "forget", chan |-> c]
        <3>1. r \in Pending
            BY DEF Pending
        <3>2. Goto(t, r)
            BY <1>4 DEF CloseBegin
        <3> HIDE DEF r
        <3> QED BY <1>1, <3>1, <3>2, GotoType
    <2>4. RestOK'
        BY <1>1, <1>4, <2>2, <2>3 DEF CloseBegin, TypeOK, RestOK
    <2> QED BY <1>1, <1>4, <2>1, <2>4, IInvSplit
            DEF CloseBegin, BoundIsOpened, SpentGrantIsUsed
<1>5. ASSUME NEW c \in Channel, NEW k \in Contract, RefreshBegin(t, c, k)
      PROVE  IInv'
    <2>1. TablesOK' /\ \A d \in Channel : bindings'[d] # None => bindings[d] # None
        BY <1>1, <1>5, ExpireKeeps DEF RefreshBegin
    <2>2. op' \in [Thread -> Pending \cup {Idle}]
        <3> DEFINE b == LiveBindings(now)[c]
                   r == [step |-> "commit", chan |-> c, wl |-> b.wl, ctx |-> k,
                         lease |-> b.lease, expires |-> b.expires]
        <3>1. b \in Binding
            BY <1>1, <1>5, LiveTypes DEF RefreshBegin, BindingTable
        <3>2. r \in Pending
            BY <3>1 DEF Pending, Binding
        <3>3. Goto(t, r)
            BY <1>5 DEF RefreshBegin
        <3> HIDE DEF r
        <3> QED BY <1>1, <3>2, <3>3, GotoType
    <2>3. RestOK'
        BY <1>1, <1>5, <2>2 DEF RefreshBegin, TypeOK, RestOK
    <2> QED BY <1>1, <1>5, <2>1, <2>3, IInvSplit
            DEF RefreshBegin, BoundIsOpened, SpentGrantIsUsed
<1>6. ASSUME NEW c \in Channel, NEW g \in Grant, NEW ttl \in LeaseSeconds,
             AttachBegin(t, c, g, ttl)
      PROVE  IInv'
    BY <1>6, AttachCheckKeeps DEF AttachBegin
<1>7. ASSUME NEW c \in Channel, NEW w \in Workline, NEW mode \in AccessMode,
             NEW ttl \in GrantSeconds, NEW pair \in BOOLEAN,
             IssueBegin(t, c, w, mode, ttl, pair)
      PROVE  IInv'
    <2>1. TablesOK' /\ \A d \in Channel : bindings'[d] # None => bindings[d] # None
        BY <1>1, <1>7, ExpireKeeps DEF IssueBegin
    <2>2. op' \in [Thread -> Pending \cup {Idle}]
        <3> DEFINE r == [step |-> "issue", chan |-> c, wl |-> w, mode |-> mode,
                         at |-> now, ttl |-> ttl, pair |-> pair]
        <3>1. r \in Pending
            BY <1>1 DEF Pending
        <3>2. Goto(t, r) \/ UNCHANGED op
            BY <1>7 DEF IssueBegin
        <3> HIDE DEF r
        <3> QED BY <1>1, <3>1, <3>2, GotoType DEF TypeOK
    <2>3. /\ grants' \in [Grant -> GrantRecord \cup {None}]
          /\ \A g \in Grant : grants'[g] \in {grants[g], None}
        BY <1>1, <1>7, PruneTypes DEF IssueBegin, TypeOK
    <2>4. UNCHANGED <<registry, channels, pairRef, now, opened, minted, leases,
                      spent>>
        BY <1>7 DEF IssueBegin
    <2>5. RestOK'
        BY <1>1, <2>2, <2>3, <2>4 DEF TypeOK, RestOK
    <2>6. SpentGrantIsUsed'
        BY <1>1, <2>3, <2>4 DEF SpentGrantIsUsed
    <2> QED BY <1>1, <2>1, <2>4, <2>5, <2>6, IInvSplit DEF BoundIsOpened
<1> QED BY <1>3, <1>4, <1>5, <1>6, <1>7 DEF ThreadCall

\* issue_pairing_grant, second section: a grant gets an index never used.
LEMMA IssueGrantKeeps ==
    ASSUME IInv, NEW t \in Thread, IssueGrant(t)
    PROVE  IInv'
<1> DEFINE r     == op[t]
           full  == Cardinality(Held(grants)) >= GrantCapacity
           table == IF full THEN PrunedGrants(grants, r.at, TRUE) ELSE grants
           grant == [chan |-> r.chan, wl |-> r.wl, mode |-> r.mode,
                     expires |-> r.at + r.ttl, used |-> FALSE]
           next  == IF r.pair
                    THEN [step |-> "attach", chan |-> r.chan,
                          grant |-> minted + 1, pair |-> TRUE]
                    ELSE Idle
<1>1. TypeOK /\ WriteLeaseIsTheWriter /\ BoundIsOpened /\ SpentGrantIsUsed
    BY DEF IInv
<1>2. r \in [step: {"issue"}, chan: Channel, wl: Workline, mode: AccessMode,
             at: Nat, ttl: GrantSeconds, pair: BOOLEAN]
    BY <1>1, PendingShape DEF IssueGrant
<1>3. /\ GrantSeconds \subseteq Nat
      /\ MaxGrant \in Nat
      /\ None \notin GrantRecord
      /\ minted \in 0 .. MaxGrant
      /\ minted < MaxGrant
    BY <1>1, ScopeBrokerAssumption, NoneIsNoGrant DEF IssueGrant, TypeOK
<1>4. TablesOK' /\ \A d \in Channel : bindings'[d] # None => bindings[d] # None
    BY <1>1, <1>2, ExpireKeeps DEF IssueGrant
<1>5. UNCHANGED <<registry, channels, pairRef, now, opened, leases, spent>>
    BY DEF IssueGrant
<1>6. /\ table \in [Grant -> GrantRecord \cup {None}]
      /\ \A g \in Grant : table[g] \in {grants[g], None}
    BY <1>1, <1>2, PruneTypes DEF TypeOK
<1>7. grant \in GrantRecord /\ grant # None /\ minted + 1 \in Grant
    <2>1. /\ r.chan \in Channel /\ r.wl \in Workline /\ r.mode \in AccessMode
          /\ r.at \in Nat /\ r.ttl \in GrantSeconds
        BY <1>2
    <2> HIDE DEF r
    <2>2. r.at + r.ttl \in Nat
        <3>1. r.ttl \in Nat
            BY <1>3, <2>1
        <3> QED BY <2>1, <3>1, SumType
    <2>3. grant \in GrantRecord
        BY <2>1, <2>2 DEF GrantRecord
    <2>4. minted + 1 \in Grant
        BY <1>3 DEF Grant
    <2> QED BY <1>3, <2>3, <2>4
<1>8. next \in Pending \cup {Idle}
    BY <1>2, <1>7 DEF Pending
<1>9. Idle \in Pending \cup {Idle}
    OBVIOUS
<1>10. \/ /\ grants' = [table EXCEPT ![minted + 1] = grant]
          /\ minted' = minted + 1
          /\ Goto(t, next)
       \/ /\ grants' = table
          /\ minted' = minted
          /\ Goto(t, Idle)
    BY DEF IssueGrant
<1> HIDE DEF table, grant, next, r
<1>11. op' \in [Thread -> Pending \cup {Idle}]
    BY <1>1, <1>8, <1>9, <1>10, GotoType
<1>12. RestOK'
    BY <1>1, <1>3, <1>5, <1>6, <1>7, <1>10, <1>11 DEF TypeOK, RestOK
<1>13. SpentGrantIsUsed'
    <2> SUFFICES ASSUME NEW g \in Grant
                 PROVE  /\ grants'[g] # None => g <= minted'
                        /\ spent[g] > 0 => /\ spent[g] = 1
                                           /\ g <= minted'
                                           /\ grants'[g] # None => grants'[g].used
        BY <1>5 DEF SpentGrantIsUsed
    <2>1. /\ grants[g] # None => g <= minted
          /\ spent[g] > 0 => /\ spent[g] = 1
                             /\ g <= minted
                             /\ grants[g] # None => grants[g].used
        BY <1>1 DEF SpentGrantIsUsed
    <2>2. g \in Nat /\ minted \in Nat
        BY <1>3 DEF Grant
    <2>3. CASE g = minted + 1
        BY <1>3, <1>6, <1>10, <2>1, <2>2, <2>3
    <2>4. CASE g # minted + 1
        BY <1>6, <1>10, <2>1, <2>2, <2>4
    <2> QED BY <2>3, <2>4
<1> QED BY <1>1, <1>4, <1>5, <1>12, <1>13, IInvSplit DEF BoundIsOpened

\* attach_channel, second section: the one place a grant is spent.
LEMMA AttachBindKeeps ==
    ASSUME IInv, NEW t \in Thread, AttachBind(t)
    PROVE  IInv'
<1> DEFINE r == op[t]
           g == grants[r.grant]
           b == NewBinding(g.wl, r.ctx, g.mode, r.at + r.ttl)
<1>1. TypeOK /\ WriteLeaseIsTheWriter /\ BoundIsOpened /\ SpentGrantIsUsed
    BY DEF IInv
<1>2. r \in [step: {"bind"}, chan: Channel, grant: Grant, ctx: Contract,
             at: Nat, ttl: LeaseSeconds, pair: BOOLEAN]
    BY <1>1, PendingShape DEF AttachBind
<1>3. LeaseSeconds \subseteq Nat
    BY ScopeBrokerAssumption
<1>4. UNCHANGED <<registry, channels, now, opened, minted>>
    BY DEF AttachBind
<1>5. CASE GrantRecheck(r.grant, r.chan, r.at)
    <2>1. /\ r.chan \in channels
          /\ LiveBindings(r.at)[r.chan] = None
          /\ g # None
          /\ ~g.used
          /\ ~LeaseHeld(LiveLeases(r.at), g.wl, g.mode)
        BY <1>5 DEF GrantRecheck, GrantUsable
    <2>2. g \in GrantRecord
        BY <1>1, <1>2, <2>1 DEF TypeOK
    <2>3. g.wl \in Workline /\ g.mode \in AccessMode
        BY <2>2 DEF GrantRecord
    <2>4. r.at \in Nat /\ r.at + r.ttl \in Nat /\ r.ctx \in Contract
        <3>1. r.at \in Nat /\ r.ttl \in LeaseSeconds /\ r.ctx \in Contract
            BY <1>2
        <3>2. r.ttl \in Nat
            BY <1>3, <3>1
        <3> HIDE DEF r
        <3> QED BY <3>1, <3>2, SumType
    <2>5. b \in Binding /\ b.wl = g.wl /\ b.mode = g.mode
        BY <1>1, <2>3, <2>4, NewBindingType
    <2>6. /\ bindings' = [LiveBindings(r.at) EXCEPT ![r.chan] = b]
          /\ writeLease' = TakeLease(LiveLeases(r.at), r.chan, g.wl, g.mode)
          /\ pairRef' = [pairRef EXCEPT ![r.chan] = None]
          /\ grants' = [grants EXCEPT ![r.grant].used = TRUE]
          /\ spent' = [spent EXCEPT ![r.grant] = @ + 1]
          /\ leases' = leases + 1
          /\ Goto(t, Idle)
        BY <1>5 DEF AttachBind
    <2>7. r.chan \in Channel
        BY <1>2
    <2> HIDE DEF b
    <2>8. /\ TablesOK'
          /\ \A d \in Channel : bindings'[d] # None => d = r.chan \/ bindings[d] # None
        BY <1>1, <2>1, <2>4, <2>5, <2>6, <2>7, BindKeeps
    <2>9. /\ [g EXCEPT !.used = TRUE] \in GrantRecord
          /\ [g EXCEPT !.used = TRUE].used
        BY <2>2 DEF GrantRecord
    <2>10. grants' = [grants EXCEPT ![r.grant] = [g EXCEPT !.used = TRUE]]
        BY <2>6
    <2>11. op' \in [Thread -> Pending \cup {Idle}]
        BY <1>1, <2>6, GotoType
    <2>12. RestOK'
        BY <1>1, <1>2, <1>4, <2>6, <2>9, <2>10, <2>11 DEF TypeOK, RestOK
    <2>13. SpentGrantIsUsed'
        <3> SUFFICES ASSUME NEW h \in Grant
                     PROVE  /\ grants'[h] # None => h <= minted
                            /\ spent'[h] > 0 =>
                                 /\ spent'[h] = 1
                                 /\ h <= minted
                                 /\ grants'[h] # None => grants'[h].used
            BY <1>4 DEF SpentGrantIsUsed
        <3>1. /\ grants[h] # None => h <= minted
              /\ spent[h] > 0 => /\ spent[h] = 1
                                 /\ h <= minted
                                 /\ grants[h] # None => grants[h].used
              /\ spent[h] \in Nat
            BY <1>1 DEF SpentGrantIsUsed, TypeOK
        <3>2. CASE h = r.grant
            <4>1. grants'[h].used /\ spent'[h] = spent[h] + 1
                BY <1>1, <2>6, <2>9, <2>10, <3>2 DEF TypeOK
            <4>2. spent[h] = 0 /\ h <= minted
                BY <2>1, <3>1, <3>2
            <4> QED BY <4>1, <4>2
        <3>3. CASE h # r.grant
            <4>1. grants'[h] = grants[h] /\ spent'[h] = spent[h]
                BY <1>1, <2>6, <2>10, <3>3 DEF TypeOK
            <4> QED BY <3>1, <4>1
        <3> QED BY <3>2, <3>3
    <2> QED BY <1>1, <1>4, <2>1, <2>8, <2>12, <2>13, IInvSplit DEF BoundIsOpened
<1>6. CASE ~GrantRecheck(r.grant, r.chan, r.at)
    <2>1. /\ ExpireOnly(r.at)
          /\ Goto(t, AfterRefusal(r.grant, r.pair))
          /\ UNCHANGED <<pairRef, grants, spent, leases>>
        BY <1>6 DEF AttachBind
    <2>2. r.at \in Nat /\ r.grant \in Grant /\ r.pair \in BOOLEAN
        BY <1>2
    <2>3. TablesOK' /\ \A d \in Channel : bindings'[d] # None => bindings[d] # None
        BY <1>1, <2>1, <2>2, ExpireKeeps
    <2>4. op' \in [Thread -> Pending \cup {Idle}]
        BY <1>1, <2>1, <2>2, AfterRefusalType, GotoType
    <2>5. RestOK'
        BY <1>1, <1>4, <2>1, <2>4 DEF TypeOK, RestOK
    <2> QED BY <1>1, <1>4, <2>1, <2>3, <2>5, IInvSplit
            DEF BoundIsOpened, SpentGrantIsUsed
<1> QED BY <1>5, <1>6

\* The sections in which a thread goes on.
LEMMA ThreadStepKeeps ==
    ASSUME IInv, NEW t \in Thread, ThreadStep(t)
    PROVE  IInv'
<1> USE DEF counts, memory
<1> DEFINE r == op[t]
<1>1. TypeOK /\ WriteLeaseIsTheWriter /\ BoundIsOpened /\ SpentGrantIsUsed
    BY DEF IInv
<1>2. Idle \in Pending \cup {Idle}
    OBVIOUS
<1>3. CASE ProjectContract(t)
    <2>1. r \in [step: {"project"}, wl: Workline, ctx: Contract]
        BY <1>1, <1>3, PendingShape DEF ProjectContract
    <2>2. r.wl \in Workline /\ r.ctx \in Contract
        BY <2>1
    <2>3. TablesOK' /\ \A d \in Channel : bindings'[d] # None => bindings[d] # None
        BY <1>1, <1>3, <2>2, ReprojectKeeps DEF ProjectContract
    <2>4. op' \in [Thread -> Pending \cup {Idle}]
        BY <1>1, <1>2, <1>3, GotoType DEF ProjectContract
    <2>5. RestOK'
        BY <1>1, <1>3, <2>4 DEF ProjectContract, TypeOK, RestOK
    <2> QED BY <1>1, <1>3, <2>3, <2>5, IInvSplit
            DEF ProjectContract, BoundIsOpened, SpentGrantIsUsed
<1>4. CASE IssueGrant(t)
    BY <1>4, IssueGrantKeeps
<1>5. ASSUME NEW ttl \in LeaseSeconds, PairAttach(t, ttl)
      PROVE  IInv'
    <2>1. r \in [step: {"attach"}, chan: Channel, grant: Grant, pair: BOOLEAN]
        BY <1>1, <1>5, PendingShape DEF PairAttach
    <2>2. r.chan \in Channel /\ r.grant \in Grant
        BY <2>1
    <2> QED BY <1>5, <2>2, AttachCheckKeeps DEF PairAttach
<1>6. CASE AttachLookup(t)
    <2>1. r \in [step: {"lookup"}, chan: Channel, grant: Grant, wl: Workline,
                 at: Nat, ttl: LeaseSeconds, pair: BOOLEAN]
        BY <1>1, <1>6, PendingShape DEF AttachLookup
    <2> DEFINE n == [step |-> "bind", chan |-> r.chan, grant |-> r.grant,
                     ctx |-> registry[r.wl], at |-> r.at, ttl |-> r.ttl,
                     pair |-> r.pair]
    <2>2. /\ r.chan \in Channel /\ r.grant \in Grant /\ r.wl \in Workline
          /\ r.at \in Nat /\ r.ttl \in LeaseSeconds /\ r.pair \in BOOLEAN
        BY <2>1
    <2>3. registry[r.wl] # None => n \in Pending
        BY <1>1, <2>2 DEF TypeOK, Pending
    <2>4. IF registry[r.wl] # None THEN Goto(t, n)
          ELSE Goto(t, AfterRefusal(r.grant, r.pair))
        BY <1>6 DEF AttachLookup
    <2> HIDE DEF n
    <2>5. op' \in [Thread -> Pending \cup {Idle}]
        BY <1>1, <2>2, <2>3, <2>4, AfterRefusalType, GotoType
    <2>6. UNCHANGED <<registry, channels, bindings, writeLease, pairRef, grants,
                      now, opened, minted, leases, spent>>
        BY <1>6 DEF AttachLookup
    <2> QED BY <1>1, <2>5, <2>6
            DEF IInv, TypeOK, WriteLeaseIsTheWriter, BoundIsOpened,
                SpentGrantIsUsed
<1>7. CASE AttachBind(t)
    BY <1>7, AttachBindKeeps
<1>8. CASE DropGrant(t)
    <2>1. op' \in [Thread -> Pending \cup {Idle}]
        BY <1>1, <1>2, <1>8, GotoType DEF DropGrant
    <2>2. /\ grants' \in [Grant -> GrantRecord \cup {None}]
          /\ \A g \in Grant : grants'[g] \in {grants[g], None}
        BY <1>1, <1>8 DEF DropGrant, TypeOK
    <2>3. UNCHANGED <<registry, channels, bindings, writeLease, pairRef, now,
                      opened, minted, leases, spent>>
        BY <1>8 DEF DropGrant
    <2>4. SpentGrantIsUsed'
        BY <1>1, <2>2, <2>3 DEF SpentGrantIsUsed
    <2> QED BY <1>1, <2>1, <2>2, <2>3, <2>4
            DEF IInv, TypeOK, WriteLeaseIsTheWriter, BoundIsOpened
<1>9. CASE CloseForget(t)
    <2>1. r \in [step: {"forget"}, chan: Channel]
        BY <1>1, <1>9, PendingShape DEF CloseForget
    <2>2. op' \in [Thread -> Pending \cup {Idle}]
        BY <1>1, <1>2, <1>9, GotoType DEF CloseForget
    <2>3. /\ channels' = channels \ {r.chan}
          /\ pairRef' = [pairRef EXCEPT ![r.chan] = None]
          /\ UNCHANGED <<registry, bindings, writeLease, grants, now, opened,
                         minted, leases, spent>>
        BY <1>9 DEF CloseForget
    <2> QED BY <1>1, <2>1, <2>2, <2>3
            DEF IInv, TypeOK, WriteLeaseIsTheWriter, BoundIsOpened,
                SpentGrantIsUsed
<1>10. ASSUME At(t, "commit") \/ At(t, "refreshed") \/ At(t, "restore")
       PROVE  /\ r \in [step: {"commit", "refreshed", "restore"}, chan: Channel,
                        wl: Workline, ctx: Contract, lease: Nat, expires: Nat]
              /\ r.chan \in Channel /\ r.wl \in Workline /\ r.ctx \in Contract
              /\ r.expires \in Nat
              /\ [r EXCEPT !.step = "refreshed"] \in Pending
              /\ [r EXCEPT !.step = "restore"] \in Pending
    <2>1. r \in [step: {"commit", "refreshed", "restore"}, chan: Channel,
                 wl: Workline, ctx: Contract, lease: Nat, expires: Nat]
        BY <1>1, <1>10, PendingShape
    <2> QED BY <2>1 DEF Pending
<1>11. CASE RefreshCommit(t)
    <2>1. op' \in [Thread -> Pending \cup {Idle}]
        BY <1>1, <1>2, <1>10, <1>11, GotoType DEF RefreshCommit
    <2>2. registry' \in [Workline -> Contract \cup {None}]
        BY <1>1, <1>10, <1>11 DEF RefreshCommit, TypeOK
    <2>3. UNCHANGED <<channels, bindings, writeLease, pairRef, grants, now,
                      opened, minted, leases, spent>>
        BY <1>11 DEF RefreshCommit
    <2> QED BY <1>1, <2>1, <2>2, <2>3
            DEF IInv, TypeOK, WriteLeaseIsTheWriter, BoundIsOpened,
                SpentGrantIsUsed
<1>12. CASE RefreshProject(t)
    <2>1. r.wl \in Workline /\ r.ctx \in Contract
        BY <1>10, <1>12 DEF RefreshProject
    <2>2. TablesOK' /\ \A d \in Channel : bindings'[d] # None => bindings[d] # None
        BY <1>1, <1>12, <2>1, ReprojectKeeps DEF RefreshProject
    <2>3. op' \in [Thread -> Pending \cup {Idle}]
        BY <1>1, <1>10, <1>12, GotoType DEF RefreshProject
    <2>4. RestOK'
        BY <1>1, <1>12, <2>3 DEF RefreshProject, TypeOK, RestOK
    <2> QED BY <1>1, <1>12, <2>2, <2>4, IInvSplit
            DEF RefreshProject, BoundIsOpened, SpentGrantIsUsed
<1>13. CASE RefreshRestore(t)
    <2> DEFINE b == [bindings[r.chan] EXCEPT !.ctx = r.ctx, !.expires = r.expires]
    <2>1. r.chan \in Channel /\ r.ctx \in Contract /\ r.expires \in Nat
        BY <1>10, <1>13 DEF RefreshRestore
    <2>2. /\ bindings \in BindingTable
          /\ writeLease \in LeaseTable
          /\ Agree(bindings, writeLease)
        BY <1>1 DEF TypeOK, BindingTable, LeaseTable, Agree, WriteLeaseIsTheWriter
    <2>3. TablesOK' /\ \A d \in Channel : bindings'[d] # None => bindings[d] # None
        <3>1. CASE SameBinding(r)
            <4>1. bindings[r.chan] \in Binding /\ bindings[r.chan] # None
                BY <2>1, <2>2, <3>1 DEF SameBinding, BindingTable
            <4>2. /\ b \in Binding
                  /\ b.wl = bindings[r.chan].wl
                  /\ b.mode = bindings[r.chan].mode
                BY <2>1, <4>1 DEF Binding
            <4>3. bindings' = [bindings EXCEPT ![r.chan] = b]
                BY <1>13, <3>1 DEF RefreshRestore
            <4>4. writeLease' = writeLease
                BY <1>13 DEF RefreshRestore
            <4> HIDE DEF b
            <4> QED BY <2>1, <2>2, <4>1, <4>2, <4>3, <4>4, TouchKeeps
        <3>2. CASE ~SameBinding(r)
            BY <1>1, <1>13, <2>2, <3>2
               DEF RefreshRestore, TablesOK, WriteLeaseIsTheWriter
        <3> QED BY <3>1, <3>2
    <2>4. op' \in [Thread -> Pending \cup {Idle}]
        BY <1>1, <1>2, <1>13, GotoType DEF RefreshRestore
    <2>5. RestOK'
        BY <1>1, <1>13, <2>4 DEF RefreshRestore, TypeOK, RestOK
    <2> QED BY <1>1, <1>13, <2>3, <2>5, IInvSplit
            DEF RefreshRestore, BoundIsOpened, SpentGrantIsUsed
<1> QED BY <1>3, <1>4, <1>5, <1>6, <1>7, <1>8, <1>9, <1>11, <1>12, <1>13
        DEF ThreadStep

----------------------------------------------------------------------------
(* The theorems. *)

\* IInv is inductive.
LEMMA Inductive ==
    /\ Init => IInv
    /\ IInv /\ [Next]_vars => IInv'
<1>1. Init => IInv
    BY ScopeBrokerAssumption
       DEF Init, IInv, TypeOK, WriteLeaseIsTheWriter, BoundIsOpened,
           SpentGrantIsUsed
<1>2. ASSUME IInv, [Next]_vars PROVE IInv'
    <2>1. CASE Tick
        BY <1>2, <2>1
           DEF Tick, memory, counts, IInv, TypeOK, WriteLeaseIsTheWriter,
               BoundIsOpened, SpentGrantIsUsed
    <2>2. CASE Sweep
        <3>1. TypeOK /\ WriteLeaseIsTheWriter /\ now \in Nat
            BY <1>2 DEF IInv, TypeOK
        <3>2. TablesOK' /\ \A d \in Channel : bindings'[d] # None => bindings[d] # None
            BY <2>2, <3>1, ExpireKeeps DEF Sweep
        <3>3. pairRef' \in [Channel -> Nat \cup {None}]
            BY <2>2, <3>1, RefTypes DEF Sweep
        <3>4. RestOK'
            BY <2>2, <3>1, <3>3 DEF Sweep, counts, TypeOK, RestOK
        <3> QED BY <1>2, <2>2, <3>2, <3>4, IInvSplit
                DEF Sweep, counts, IInv, BoundIsOpened, SpentGrantIsUsed
    <2>3. ASSUME NEW c \in Channel, ChannelCall(c) PROVE IInv'
        BY <1>2, <2>3, ChannelCallKeeps
    <2>4. ASSUME NEW t \in Thread, ThreadCall(t) PROVE IInv'
        BY <1>2, <2>4, ThreadCallKeeps
    <2>5. ASSUME NEW t \in Thread, ThreadStep(t) PROVE IInv'
        BY <1>2, <2>5, ThreadStepKeeps
    <2>6. CASE UNCHANGED vars
        BY <1>2, <2>6
           DEF vars, IInv, TypeOK, WriteLeaseIsTheWriter, BoundIsOpened,
               SpentGrantIsUsed
    <2> QED BY <1>2, <2>1, <2>2, <2>3, <2>4, <2>5, <2>6 DEF Next
<1> QED BY <1>1, <1>2

THEOREM Invariance == Spec => []IInv
BY Inductive, PTL DEF Spec

\* Every variable keeps its type in every reachable state of the broker.
THEOREM TypeCorrect == Spec => []TypeOK
<1>1. IInv => TypeOK
    BY DEF IInv
<1> QED BY Invariance, <1>1, PTL

\* scope_broker.py, all methods: the entry of a workline in _write_leases is
\* the one channel bound to it for writing, so no workline has two writers and
\* none is locked by a channel that is gone.
THEOREM OneWriter == Spec => []WriteLeaseIsTheWriter
<1>1. IInv => WriteLeaseIsTheWriter
    BY DEF IInv
<1> QED BY Invariance, <1>1, PTL

\* attach_channel: a pairing grant pays for one binding at most, whatever the
\* number of threads that hold its token.
THEOREM GrantSpentOnce == Spec => []GrantPaysOnce
<1>1. IInv => GrantPaysOnce
    BY DEF IInv, TypeOK, SpentGrantIsUsed, GrantPaysOnce
<1> QED BY Invariance, <1>1, PTL

\* _refresh_existing_workline, at both of its callers: the durable revision of
\* a workline never goes back, and a revision is recorded with one content.
THEOREM RevisionAdvances == Spec => DurableRevisionAdvances
<1> DEFINE Advance ==
      \A w \in Workline :
         registry[w] # None =>
           /\ registry'[w] # None
           /\ \/ registry'[w].rev > registry[w].rev
              \/ registry'[w] = registry[w]
<1>1. ASSUME TypeOK, NEW v \in Workline, NEW k \in Contract,
             Accepts(registry[v], k), registry' = [registry EXCEPT ![v] = k]
      PROVE  Advance
    BY <1>1, NoneAssumption DEF TypeOK, Accepts
<1>2. ASSUME registry' = registry PROVE Advance
    BY <1>2
<1>3. ASSUME TypeOK, Next PROVE Advance
    <2> USE DEF memory, counts
    <2>1. CASE Tick \/ Sweep
        BY <1>2, <2>1 DEF Tick, Sweep
    <2>2. ASSUME NEW c \in Channel, ChannelCall(c) PROVE Advance
        <3>1. registry' = registry
            BY <2>2 DEF ChannelCall, OpenChannel, Status, PairingRequestRef,
                        DetachChannel, RenewLease, PairRequest, BindNewChannel
        <3> QED BY <1>2, <3>1
    <2>3. ASSUME NEW t \in Thread, ThreadCall(t) PROVE Advance
        <3>1. CASE \E w \in Workline, k \in Contract : RegisterWorkline(t, w, k)
            BY <1>1, <1>3, <3>1 DEF RegisterWorkline
        <3>2. CASE ~\E w \in Workline, k \in Contract : RegisterWorkline(t, w, k)
            <4>1. registry' = registry
                BY <2>3, <3>2 DEF ThreadCall, CloseBegin, RefreshBegin,
                                  AttachBegin, AttachCheck, IssueBegin
            <4> QED BY <1>2, <4>1
        <3> QED BY <3>1, <3>2
    <2>4. ASSUME NEW t \in Thread, ThreadStep(t) PROVE Advance
        <3>1. CASE RefreshCommit(t)
            <4>1. op[t].wl \in Workline /\ op[t].ctx \in Contract
                BY <1>3, <3>1, PendingShape DEF RefreshCommit
            <4>2. CASE Accepts(registry[op[t].wl], op[t].ctx)
                BY <1>1, <1>3, <3>1, <4>1, <4>2 DEF RefreshCommit
            <4>3. CASE ~Accepts(registry[op[t].wl], op[t].ctx)
                BY <1>2, <3>1, <4>3 DEF RefreshCommit
            <4> QED BY <4>2, <4>3
        <3>2. CASE ~RefreshCommit(t)
            <4>1. registry' = registry
                BY <2>4, <3>2
                   DEF ThreadStep, ProjectContract, IssueGrant, PairAttach,
                       AttachCheck, AttachLookup, AttachBind, DropGrant,
                       CloseForget, RefreshProject, RefreshRestore
            <4> QED BY <1>2, <4>1
        <3> QED BY <3>1, <3>2
    <2> QED BY <1>3, <2>1, <2>2, <2>3, <2>4 DEF Next
<1>4. ASSUME TypeOK, [Next]_vars PROVE [Advance]_vars
    BY <1>3, <1>4
<1>5. TypeOK /\ [Next]_vars => [Advance]_vars
    BY <1>4
<1> QED BY <1>5, TypeCorrect, PTL DEF Spec, DurableRevisionAdvances
=============================================================================
