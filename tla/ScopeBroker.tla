---------------------------- MODULE ScopeBroker ----------------------------
(***************************************************************************)
(* The in-process scope broker (src/CORE/runtime/scope_broker.py), called  *)
(* by several threads with nothing but its own locks to order them.        *)
(*                                                                         *)
(* A step is one critical section: the code between an acquisition and     *)
(* the release of the registry lock or of _memory_lock.  An operation that *)
(* releases a lock and takes it again (attach, issue, close, register,     *)
(* refresh) is several actions; what the thread carries from one to the    *)
(* next is the record op[t].  A call's clock reading is taken once, before *)
(* its first section, so a later section may use a reading that is old.    *)
(*                                                                         *)
(* A refused call changes nothing except that the sections it entered      *)
(* expired what had lapsed.                                                *)
(***************************************************************************)
EXTENDS ScopeContract, FiniteSets

CONSTANTS
    Thread,        \* threads calling the broker
    Channel,       \* channel identities; random in the code, so never reused
    LeaseSeconds,  \* the lease durations callers ask for
    GrantSeconds,  \* the grant durations callers ask for
    RefSeconds,    \* _PAIRING_REQUEST_REF_TTL_SECONDS
    GrantCapacity, \* _MAX_GRANTS
    MaxWorklines,  \* _MAX_REGISTRY_WORKLINES
    MaxGrant,      \* bound on grants minted
    MaxLease,      \* bound on leases minted by operations started
    MaxTime        \* bound on the clock

ASSUME ScopeBrokerAssumption ==
    /\ LeaseSeconds \subseteq Nat \ {0}
    /\ GrantSeconds \subseteq Nat \ {0}
    /\ RefSeconds \in Nat
    /\ {GrantCapacity, MaxWorklines, MaxGrant, MaxLease, MaxTime} \subseteq Nat
    /\ None \notin Channel

Grant == 1 .. MaxGrant

Binding == [wl: Workline, ctx: Contract, mode: AccessMode,
            lease: Nat, expires: Nat]

ASSUME NoneIsNoRecord == None \notin Binding /\ None \notin Nat

GrantRecord == [chan: Channel, wl: Workline, mode: AccessMode,
                expires: Nat, used: BOOLEAN]

ASSUME NoneIsNoGrant == None \notin GrantRecord

VARIABLES
    registry,    \* durable workline records: registry.json
    channels,    \* _channels
    bindings,    \* _bindings
    writeLease,  \* _write_leases
    pairRef,     \* expiry of the live pairing ref of each channel
    grants,      \* _grants, by order of minting
    now,         \* the clock
    op,          \* what each thread carries between two critical sections
    opened,      \* every channel identity ever handed out
    minted,      \* number of grants minted
    leases,      \* number of leases minted
    spent        \* history: how many bindings each grant has paid for

durable == <<registry>>
memory  == <<channels, bindings, writeLease, pairRef, grants>>
counts  == <<opened, minted, leases, spent>>
vars    == <<registry, channels, bindings, writeLease, pairRef, grants, now,
             op, opened, minted, leases, spent>>

Idle == [step |-> "idle"]

\* Outcome records of the threads, one shape per pending step.
Pending ==
    [step: {"issue"}, chan: Channel, wl: Workline, mode: AccessMode,
     at: Nat, ttl: GrantSeconds, pair: BOOLEAN]
    \cup
    [step: {"attach"}, chan: Channel, grant: Grant, pair: BOOLEAN]
    \cup
    [step: {"lookup"}, chan: Channel, grant: Grant, wl: Workline, at: Nat,
     ttl: LeaseSeconds, pair: BOOLEAN]
    \cup
    [step: {"bind"}, chan: Channel, grant: Grant, ctx: Contract, at: Nat,
     ttl: LeaseSeconds, pair: BOOLEAN]
    \cup [step: {"drop"}, grant: Grant]
    \cup [step: {"forget"}, chan: Channel]
    \cup [step: {"project"}, wl: Workline, ctx: Contract]
    \cup
    [step: {"commit", "refreshed", "restore"}, chan: Channel, wl: Workline,
     ctx: Contract, lease: Nat, expires: Nat]

TypeOK ==
    /\ registry \in [Workline -> Contract \cup {None}]
    /\ channels \subseteq Channel
    /\ bindings \in [Channel -> Binding \cup {None}]
    /\ writeLease \in [Workline -> Channel \cup {None}]
    /\ pairRef \in [Channel -> Nat \cup {None}]
    /\ grants \in [Grant -> GrantRecord \cup {None}]
    /\ now \in Nat
    /\ op \in [Thread -> Pending \cup {Idle}]
    /\ opened \subseteq Channel
    /\ minted \in 0 .. MaxGrant
    /\ leases \in Nat
    /\ spent \in [Grant -> Nat]

Init ==
    /\ registry = [w \in Workline |-> None]
    /\ channels = {}
    /\ bindings = [c \in Channel |-> None]
    /\ writeLease = [w \in Workline |-> None]
    /\ pairRef = [c \in Channel |-> None]
    /\ grants = [g \in Grant |-> None]
    /\ now = 0
    /\ op = [t \in Thread |-> Idle]
    /\ opened = {}
    /\ minted = 0
    /\ leases = 0
    /\ spent = [g \in Grant |-> 0]

----------------------------------------------------------------------------
(* Expiry: the first thing every memory section does. *)

Lapsed(at) == {c \in Channel : bindings[c] # None /\ bindings[c].expires <= at}

\* _expire_bindings: what is left of _bindings ...
LiveBindings(at) ==
    [c \in Channel |-> IF c \in Lapsed(at) THEN None ELSE bindings[c]]

\* Mutant: expiry drops the binding and keeps the lease entry.
LiveLeasesKept(at) == writeLease

\* ... and of _write_leases.
LiveLeases(at) ==
    [w \in Workline |->
        IF \E c \in Lapsed(at) : /\ bindings[c].mode = "write"
                                 /\ bindings[c].wl = w
                                 /\ writeLease[w] = c
        THEN None ELSE writeLease[w]]

\* _expire_pairing_requests, given the bindings that survived.
LiveRefs(at, live) ==
    [c \in Channel |->
        IF \/ pairRef[c] = None
           \/ pairRef[c] <= at
           \/ c \notin channels
           \/ live[c] # None
        THEN None ELSE pairRef[c]]

\* _ensure_pairing_request_locked: keep a live ref unless told to replace it.
EnsureRef(refs, c, replace, at) ==
    IF refs[c] # None /\ ~replace /\ refs[c] > at
    THEN refs
    ELSE [refs EXCEPT ![c] = at + RefSeconds]

\* _prune_grants; the tail that trims an over-full table never finds one.
PrunedGrants(table, at, aggressive) ==
    [g \in Grant |->
        IF /\ table[g] # None
           /\ at >= table[g].expires \/ (aggressive /\ table[g].used)
        THEN None ELSE table[g]]

Held(table) == {g \in Grant : table[g] # None}

\* The expiring prologue with nothing after it: a call that is then refused.
ExpireOnly(at) ==
    /\ bindings' = LiveBindings(at)
    /\ writeLease' = LiveLeases(at)

----------------------------------------------------------------------------
(* Writing a binding. *)

\* _write_leases after channel c is bound to w in this mode.
TakeLease(table, c, w, mode) ==
    IF mode = "write" THEN [table EXCEPT ![w] = c] ELSE table

\* Whether a new binding in this mode must be refused.
LeaseHeld(table, w, mode) == mode = "write" /\ table[w] # None

NewBinding(w, k, mode, expires) ==
    [wl |-> w, ctx |-> k, mode |-> mode, lease |-> leases + 1,
     expires |-> expires]

\* _bindings after every binding of workline w has been given context k.
Reprojected(table, w, k) ==
    [c \in Channel |->
        IF table[c] # None /\ table[c].wl = w
        THEN [table[c] EXCEPT !.ctx = k] ELSE table[c]]

----------------------------------------------------------------------------
(* Single-section operations. *)

\* open_channel_with_ref
OpenChannel(c) ==
    /\ c \notin opened
    /\ channels' = channels \cup {c}
    /\ opened' = opened \cup {c}
    /\ pairRef' = [pairRef EXCEPT ![c] = now + RefSeconds]
    /\ UNCHANGED <<registry, bindings, writeLease, grants, now, op, minted,
                   leases, spent>>

\* Operations under way that will mint a lease if they succeed.
MintingLease ==
    {t \in Thread : op[t].step \in {"attach", "lookup", "bind"}}

LeaseLeft == leases + Cardinality(MintingLease) < MaxLease

\* bind_new_channel: registry lock, then memory lock, both held to the end.
\* The caller's context must be the durable one.  The clock was read when the
\* call came, before it waited for the locks.
BindNewChannel(c, w, k, mode, ttl, at) ==
    /\ LeaseLeft
    /\ c \notin opened
    /\ registry[w] = k
    /\ ~LeaseHeld(LiveLeases(at), w, mode)
    /\ channels' = channels \cup {c}
    /\ opened' = opened \cup {c}
    /\ bindings' = [LiveBindings(at) EXCEPT
                       ![c] = NewBinding(w, k, mode, at + ttl)]
    /\ writeLease' = TakeLease(LiveLeases(at), c, w, mode)
    /\ leases' = leases + 1
    /\ UNCHANGED <<registry, pairRef, grants, now, op, minted, spent>>

\* Mutant: the workline is not looked up before it is bound.
PairRequestUnchecked(c, w, mode, ttl, at) ==
    LET live == LiveBindings(at)
        refs == LiveRefs(at, live)
    IN  /\ LeaseLeft
        /\ refs[c] # None
        /\ ~LeaseHeld(LiveLeases(at), w, mode)
        /\ bindings' = [live EXCEPT
                           ![c] = NewBinding(w, registry[w], mode, at + ttl)]
        /\ writeLease' = TakeLease(LiveLeases(at), c, w, mode)
        /\ pairRef' = [refs EXCEPT ![c] = None]
        /\ leases' = leases + 1
        /\ UNCHANGED <<registry, channels, grants, now, op, opened, minted,
                       spent>>

\* pair_request: the workline is read and the channel bound under the
\* registry lock with the memory lock inside it, the clock before both.
PairRequest(c, w, mode, ttl, at) ==
    LET live == LiveBindings(at)
        refs == LiveRefs(at, live)
    IN  /\ LeaseLeft
        /\ registry[w] # None
        /\ refs[c] # None
        /\ ~LeaseHeld(LiveLeases(at), w, mode)
        /\ bindings' = [live EXCEPT
                           ![c] = NewBinding(w, registry[w], mode, at + ttl)]
        /\ writeLease' = TakeLease(LiveLeases(at), c, w, mode)
        /\ pairRef' = [refs EXCEPT ![c] = None]
        /\ leases' = leases + 1
        /\ UNCHANGED <<registry, channels, grants, now, op, opened, minted,
                       spent>>

\* status and authorize: an unbound channel leaves with a live pairing ref.
Status(c) ==
    LET live == LiveBindings(now)
        refs == LiveRefs(now, live)
    IN  /\ ExpireOnly(now)
        /\ pairRef' = IF c \in channels /\ live[c] = None
                      THEN EnsureRef(refs, c, FALSE, now) ELSE refs
        /\ UNCHANGED <<registry, channels, grants, now, op, counts>>

\* list_channel_statuses, and any refused pair_request: expiry alone.
Sweep ==
    /\ ExpireOnly(now)
    /\ pairRef' = LiveRefs(now, LiveBindings(now))
    /\ UNCHANGED <<registry, channels, grants, now, op, counts>>

\* pairing_request_ref: refs are expired, bindings are not.
PairingRequestRef(c) ==
    LET refs == LiveRefs(now, bindings)
    IN  /\ pairRef' = IF c \in channels /\ bindings[c] = None
                      THEN EnsureRef(refs, c, FALSE, now) ELSE refs
        /\ UNCHANGED <<registry, channels, bindings, writeLease, grants, now,
                       op, counts>>

\* renew_lease by the holder of the channel's current lease.
RenewLease(c, ttl) ==
    /\ c \in channels
    /\ LiveBindings(now)[c] # None
    /\ bindings' = [LiveBindings(now) EXCEPT ![c].expires = now + ttl]
    /\ writeLease' = LiveLeases(now)
    /\ UNCHANGED <<registry, channels, pairRef, grants, now, op, counts>>

\* _write_leases once channel c's binding is gone.
ReleaseLease(c) ==
    [w \in Workline |->
        IF /\ bindings[c] # None
           /\ bindings[c].mode = "write"
           /\ bindings[c].wl = w
           /\ writeLease[w] = c
        THEN None ELSE writeLease[w]]

\* The body of detach_channel on a known channel.
Release(c) ==
    /\ c \in channels
    /\ bindings' = [bindings EXCEPT ![c] = None]
    /\ writeLease' = ReleaseLease(c)
    /\ pairRef' = EnsureRef(pairRef, c, bindings[c] # None, now)

DetachChannel(c) ==
    /\ Release(c)
    /\ UNCHANGED <<registry, channels, grants, now, op, counts>>

----------------------------------------------------------------------------
(* Operations of several sections.  Goto(t, r) parks thread t at r. *)

Goto(t, r) == op' = [op EXCEPT ![t] = r]

At(t, step) == op[t].step = step

\* register_workline, registry section.  Capacity bounds new records only.
RegisterWorkline(t, w, k) ==
    /\ At(t, "idle")
    /\ Accepts(registry[w], k)
    /\ registry[w] = None =>
         Cardinality({v \in Workline : registry[v] # None}) < MaxWorklines
    /\ registry' = [registry EXCEPT ![w] = k]
    /\ Goto(t, [step |-> "project", wl |-> w, ctx |-> k])
    /\ UNCHANGED <<memory, now, counts>>

\* register_workline, memory section: every binding of the workline gets the
\* context this call wrote, whatever has been registered since.
ProjectContract(t) ==
    /\ At(t, "project")
    /\ bindings' = Reprojected(bindings, op[t].wl, op[t].ctx)
    /\ Goto(t, Idle)
    /\ UNCHANGED <<registry, channels, writeLease, pairRef, grants, now, counts>>

\* issue_pairing_grant, first section; pair says pair_channel is the caller.
IssueBegin(t, c, w, mode, ttl, pair) ==
    /\ At(t, "idle")
    /\ minted + Cardinality({u \in Thread : At(u, "issue")}) < MaxGrant
    /\ ExpireOnly(now)
    /\ grants' = PrunedGrants(grants, now, FALSE)
    /\ IF c \in channels /\ LiveBindings(now)[c] = None
       THEN Goto(t, [step |-> "issue", chan |-> c, wl |-> w, mode |-> mode,
                     at |-> now, ttl |-> ttl, pair |-> pair])
       ELSE UNCHANGED op
    /\ UNCHANGED <<registry, channels, pairRef, now, counts>>

\* issue_pairing_grant, second section, after the durable lookup.
IssueGrant(t) ==
    LET r     == op[t]
        full  == Cardinality(Held(grants)) >= GrantCapacity
        table == IF full THEN PrunedGrants(grants, r.at, TRUE) ELSE grants
        ok    == /\ Cardinality(Held(table)) < GrantCapacity
                 /\ r.chan \in channels
                 /\ LiveBindings(r.at)[r.chan] = None
                 /\ registry[r.wl] # None
        grant == [chan |-> r.chan, wl |-> r.wl, mode |-> r.mode,
                  expires |-> r.at + r.ttl, used |-> FALSE]
    IN  /\ At(t, "issue")
        /\ minted < MaxGrant      \* the bound; IssueBegin keeps room for this
        /\ ExpireOnly(r.at)
        /\ IF ok
           THEN /\ grants' = [table EXCEPT ![minted + 1] = grant]
                /\ minted' = minted + 1
                /\ Goto(t, IF r.pair
                           THEN [step |-> "attach", chan |-> r.chan,
                                 grant |-> minted + 1, pair |-> TRUE]
                           ELSE Idle)
           ELSE /\ grants' = table
                /\ Goto(t, Idle)
                /\ UNCHANGED minted
        /\ UNCHANGED <<registry, channels, pairRef, now, opened, leases, spent>>

\* Where a refused attach_channel leaves its thread: pair_channel goes on to
\* remove the grant it minted.
AfterRefusal(g, pair) ==
    IF pair THEN [step |-> "drop", grant |-> g] ELSE Idle

\* What both sections of attach_channel require of the grant and the channel.
GrantUsable(g, c, at) ==
    /\ c \in channels
    /\ LiveBindings(at)[c] = None
    /\ grants[g] # None
    /\ ~grants[g].used
    /\ at < grants[g].expires
    /\ grants[g].chan = c
    /\ ~LeaseHeld(LiveLeases(at), grants[g].wl, grants[g].mode)

\* Mutant: the second section trusts what the first one saw of the grant.
GrantRecheckTrusting(g, c, at) ==
    /\ c \in channels
    /\ LiveBindings(at)[c] = None
    /\ grants[g] # None
    /\ ~LeaseHeld(LiveLeases(at), grants[g].wl, grants[g].mode)

\* The second section asks everything again.
GrantRecheck(g, c, at) == GrantUsable(g, c, at)

\* attach_channel, first section.
AttachCheck(t, c, g, ttl, pair) ==
    /\ ExpireOnly(now)
    /\ pairRef' = LiveRefs(now, LiveBindings(now))
    /\ Goto(t, IF GrantUsable(g, c, now)
               THEN [step |-> "lookup", chan |-> c, grant |-> g,
                     wl |-> grants[g].wl, at |-> now, ttl |-> ttl,
                     pair |-> pair]
               ELSE AfterRefusal(g, pair))
    /\ UNCHANGED <<registry, channels, grants, now, counts>>

\* attach_channel called with a token the caller was given.
AttachBegin(t, c, g, ttl) ==
    /\ At(t, "idle")
    /\ LeaseLeft
    /\ g <= minted
    /\ AttachCheck(t, c, g, ttl, FALSE)

\* attach_channel called by pair_channel with the token it has just minted.
PairAttach(t, ttl) ==
    /\ At(t, "attach")
    /\ AttachCheck(t, op[t].chan, op[t].grant, ttl, TRUE)

\* attach_channel's durable lookup, with no lock held before or after it.
AttachLookup(t) ==
    LET r == op[t]
    IN  /\ At(t, "lookup")
        /\ Goto(t, IF registry[r.wl] # None
                   THEN [step |-> "bind", chan |-> r.chan, grant |-> r.grant,
                         ctx |-> registry[r.wl], at |-> r.at, ttl |-> r.ttl,
                         pair |-> r.pair]
                   ELSE AfterRefusal(r.grant, r.pair))
        /\ UNCHANGED <<registry, memory, now, counts>>

\* attach_channel, second section: everything but the context is rechecked.
AttachBind(t) ==
    LET r == op[t]
        g == grants[r.grant]
    IN  /\ At(t, "bind")
        /\ IF GrantRecheck(r.grant, r.chan, r.at)
           THEN /\ bindings' = [LiveBindings(r.at) EXCEPT ![r.chan] =
                                  NewBinding(g.wl, r.ctx, g.mode, r.at + r.ttl)]
                /\ writeLease' = TakeLease(LiveLeases(r.at), r.chan, g.wl, g.mode)
                /\ pairRef' = [pairRef EXCEPT ![r.chan] = None]
                /\ grants' = [grants EXCEPT ![r.grant].used = TRUE]
                /\ spent' = [spent EXCEPT ![r.grant] = @ + 1]
                /\ leases' = leases + 1
                /\ Goto(t, Idle)
           ELSE /\ ExpireOnly(r.at)
                /\ Goto(t, AfterRefusal(r.grant, r.pair))
                /\ UNCHANGED <<pairRef, grants, spent, leases>>
        /\ UNCHANGED <<registry, channels, now, opened, minted>>

\* pair_channel removes the token of a failed attach.
DropGrant(t) ==
    /\ At(t, "drop")
    /\ grants' = [grants EXCEPT ![op[t].grant] = None]
    /\ Goto(t, Idle)
    /\ UNCHANGED <<registry, channels, bindings, writeLease, pairRef, now, counts>>

\* close_channel detaches in one section ...
CloseBegin(t, c) ==
    /\ At(t, "idle")
    /\ Release(c)
    /\ Goto(t, [step |-> "forget", chan |-> c])
    /\ UNCHANGED <<registry, channels, grants, now, counts>>

\* ... and forgets the channel in another, without looking at _bindings again.
CloseForget(t) ==
    /\ At(t, "forget")
    /\ channels' = channels \ {op[t].chan}
    /\ pairRef' = [pairRef EXCEPT ![op[t].chan] = None]
    /\ Goto(t, Idle)
    /\ UNCHANGED <<registry, bindings, writeLease, grants, now, counts>>

\* refresh_bound_contract, first section: the caller holds the channel's write
\* lease and offers a version its context accepts; the expiry is noted.
RefreshBegin(t, c, k) ==
    LET b == LiveBindings(now)[c]
    IN  /\ At(t, "idle")
        /\ c \in channels
        /\ b # None
        /\ b.mode = "write"
        /\ Accepts(b.ctx, k)
        /\ ExpireOnly(now)
        /\ Goto(t, [step |-> "commit", chan |-> c, wl |-> b.wl, ctx |-> k,
                    lease |-> b.lease, expires |-> b.expires])
        /\ UNCHANGED <<registry, channels, pairRef, grants, now, counts>>

\* Mutant: the commit relies on the check made against the binding.
RefreshCommitTrusting(t) ==
    LET r == op[t]
    IN  /\ At(t, "commit")
        /\ registry' = [registry EXCEPT ![r.wl] = r.ctx]
        /\ Goto(t, [r EXCEPT !.step = "refreshed"])
        /\ UNCHANGED <<memory, now, counts>>

\* refresh_bound_contract calls register_workline: its registry section ...
RefreshCommit(t) ==
    LET r == op[t]
    IN  /\ At(t, "commit")
        /\ IF Accepts(registry[r.wl], r.ctx)
           THEN /\ registry' = [registry EXCEPT ![r.wl] = r.ctx]
                /\ Goto(t, [r EXCEPT !.step = "refreshed"])
           ELSE /\ Goto(t, Idle)
                /\ UNCHANGED registry
        /\ UNCHANGED <<memory, now, counts>>

\* ... and its memory section ...
RefreshProject(t) ==
    LET r == op[t]
    IN  /\ At(t, "refreshed")
        /\ bindings' = Reprojected(bindings, r.wl, r.ctx)
        /\ Goto(t, [r EXCEPT !.step = "restore"])
        /\ UNCHANGED <<registry, channels, writeLease, pairRef, grants, now,
                       counts>>

\* The binding the refresh began with is still the channel's.
SameBinding(r) ==
    /\ bindings[r.chan] # None
    /\ bindings[r.chan].wl = r.wl
    /\ bindings[r.chan].mode = "write"
    /\ bindings[r.chan].lease = r.lease

\* ... then the last section puts the noted expiry back on the same lease.
RefreshRestore(t) ==
    LET r == op[t]
    IN  /\ At(t, "restore")
        /\ bindings' = IF SameBinding(r)
                       THEN [bindings EXCEPT ![r.chan].ctx = r.ctx,
                                             ![r.chan].expires = r.expires]
                       ELSE bindings
        /\ Goto(t, Idle)
        /\ UNCHANGED <<registry, channels, writeLease, pairRef, grants, now,
                       counts>>

Tick ==
    /\ now < MaxTime
    /\ now' = now + 1
    /\ UNCHANGED <<registry, memory, op, counts>>

ChannelCall(c) ==
    \/ OpenChannel(c)
    \/ Status(c)
    \/ PairingRequestRef(c)
    \/ DetachChannel(c)
    \/ \E ttl \in LeaseSeconds :
        \/ RenewLease(c, ttl)
        \/ \E w \in Workline, mode \in AccessMode, at \in 0 .. now :
            \/ PairRequest(c, w, mode, ttl, at)
            \/ \E k \in Contract : BindNewChannel(c, w, k, mode, ttl, at)

ThreadCall(t) ==
    \/ \E w \in Workline, k \in Contract : RegisterWorkline(t, w, k)
    \/ \E c \in Channel :
        \/ CloseBegin(t, c)
        \/ \E k \in Contract : RefreshBegin(t, c, k)
        \/ \E g \in Grant, ttl \in LeaseSeconds : AttachBegin(t, c, g, ttl)
        \/ \E w \in Workline, mode \in AccessMode, ttl \in GrantSeconds,
              pair \in BOOLEAN : IssueBegin(t, c, w, mode, ttl, pair)

ThreadStep(t) ==
    \/ ProjectContract(t)
    \/ IssueGrant(t)
    \/ \E ttl \in LeaseSeconds : PairAttach(t, ttl)
    \/ AttachLookup(t)
    \/ AttachBind(t)
    \/ DropGrant(t)
    \/ CloseForget(t)
    \/ RefreshCommit(t)
    \/ RefreshProject(t)
    \/ RefreshRestore(t)

Next ==
    \/ Tick
    \/ Sweep
    \/ \E c \in Channel : ChannelCall(c)
    \/ \E t \in Thread : ThreadCall(t) \/ ThreadStep(t)

Spec == Init /\ [][Next]_vars

----------------------------------------------------------------------------
(* Properties *)

\* The write-lease table and the bindings agree: a workline's entry names the
\* one channel bound to it for writing.  _write_leases is maintained by seven
\* methods and by expiry; were they to disagree, a workline would have two
\* writers or be locked for good.
WriteLeaseIsTheWriter ==
    \A w \in Workline, c \in Channel :
        writeLease[w] = c <=> /\ bindings[c] # None
                              /\ bindings[c].wl = w
                              /\ bindings[c].mode = "write"

\* A pairing grant pays for one binding at most: attach_channel looks at the
\* grant, releases the lock for the durable lookup, and must not trust what it
\* saw when the same token was spent and the channel detached meanwhile.
GrantPaysOnce == \A g \in Grant : spent[g] <= 1

\* The durable revision of a workline never goes back, and two contents are
\* never recorded at one revision, although refresh_bound_contract checks the
\* revision against the binding's context and commits it in a later section.
DurableRevisionAdvances ==
    [][\A w \in Workline :
         registry[w] # None =>
           /\ registry'[w] # None
           /\ \/ registry'[w].rev > registry[w].rev
              \/ registry'[w] = registry[w]]_vars

\* close_channel, "Forget a transport channel permanently within this broker
\* lifetime": a channel the broker has forgotten holds no binding.
ForgottenChannelIsUnbound ==
    \A c \in Channel : c \notin channels => bindings[c] = None
============================================================================
