--------------------------- MODULE BrokerLifetime ---------------------------
(***************************************************************************)
(* How the resident scope broker comes and goes                            *)
(* (src/CORE/runtime/scope_broker_ipc.py): the client that finds no usable *)
(* endpoint starts a child under the startup lock, the child owns the      *)
(* lifetime lock (broker.lock) for as long as it lives and publishes two   *)
(* files, the secret and then the endpoint; a broker stops when it is idle *)
(* or when a client that owns it asks; any process may die at any point.   *)
(*                                                                         *)
(* A broker process is a number, in the order of their starts, and stands  *)
(* for its pid, its instance id and its secret: a served process publishes *)
(* one instance.  Pids are not reused.  What a broker does for its         *)
(* channels is ScopeBrokerServer's subject; here a channel is only what    *)
(* keeps a broker from stopping.                                           *)
(***************************************************************************)
EXTENDS Naturals

CONSTANTS
  Client,      \* the adapter processes
  NoClient,    \* nobody holds the startup lock
  MaxBrokers   \* bounds the children that are ever started

ASSUME LifetimeAssumption == NoClient \notin Client /\ MaxBrokers \in Nat

Broker == 1 .. MaxBrokers
None   == 0

VARIABLES
  server,     \* what each broker process is doing
  lifetime,   \* the broker that holds broker.lock, or None
  startup,    \* the client that holds startup.lock, or NoClient
  endpoint,   \* the broker endpoint.json names, or None: no file
  secret,     \* the broker whose secret is in secret.bin, or None: no file
  channels,   \* the clients a broker has a channel of
  client,     \* what each client is doing
  child,      \* the broker a client started and still has the handle of
  issuer,     \* the broker that issued the client's channel, by its record
  target,     \* the instance a closing client found and means to stop
  published   \* history: the pair appeared while the startup lock was held

lifeVars == <<server, lifetime, startup, endpoint, secret, channels, client,
              child, issuer, target, published>>
clientVars == <<client, child, issuer, target>>
pairVars  == <<endpoint, secret, published>>

LifeTypeOK ==
  /\ server \in [Broker -> {"none", "spawned", "locked", "cleared", "secret",
                            "serving", "stopping", "closed", "exited"}]
  /\ lifetime \in Broker \cup {None}
  /\ startup \in Client \cup {NoClient}
  /\ endpoint \in Broker \cup {None}
  /\ secret \in Broker \cup {None}
  /\ channels \in [Broker -> SUBSET Client]
  /\ client \in [Client -> {"idle", "locked", "looking", "removing", "halfway",
                            "spawning", "waiting", "ready", "open", "closing",
                            "asked", "gone"}]
  /\ child \in [Client -> Broker \cup {None}]
  /\ issuer \in [Client -> Broker \cup {None}]
  /\ target \in [Client -> Broker \cup {None}]
  /\ published \in BOOLEAN

LifeInit ==
  /\ server = [b \in Broker |-> "none"]
  /\ lifetime = None
  /\ startup = NoClient
  /\ endpoint = None
  /\ secret = None
  /\ channels = [b \in Broker |-> {}]
  /\ client = [c \in Client |-> "idle"]
  /\ child = [c \in Client |-> None]
  /\ issuer = [c \in Client |-> None]
  /\ target = [c \in Client |-> None]
  /\ published = FALSE

Alive(b) == b # None /\ server[b] \notin {"none", "exited"}

\* _read_endpoint_bundle: the endpoint's hash of the secret has to match.
Readable == endpoint # None /\ endpoint = secret

\* _endpoint_active: the pair is readable, its owner is alive and answers.
Active == Readable /\ server[endpoint] = "serving"
Reachable(b) == Active /\ endpoint = b

----------------------------------------------------------------------------
(* The broker process.                                                     *)

ServerStep(b, from, to) ==
  /\ server[b] = from
  /\ server' = [server EXCEPT ![b] = to]

\* main and _start_locked: a child that does not get the lifetime lock exits.
TakeLifetimeLock(b) ==
  /\ ServerStep(b, "spawned", "locked")
  /\ lifetime = None
  /\ lifetime' = b
  /\ UNCHANGED <<startup, pairVars, channels, clientVars>>

AlreadyRunning(b) ==
  /\ ServerStep(b, "spawned", "exited")
  /\ lifetime # None
  /\ UNCHANGED <<lifetime, startup, pairVars, channels, clientVars>>

\* With the lock: an endpoint whose owner is alive is left alone, even with a
\* broken pair; any other is removed.
YieldToOwner(b) ==
  /\ ServerStep(b, "locked", "exited")
  /\ Alive(endpoint)
  /\ lifetime' = None
  /\ UNCHANGED <<startup, pairVars, channels, clientVars>>

ClearStalePair(b) ==
  /\ ServerStep(b, "locked", "cleared")
  /\ ~Alive(endpoint)
  /\ endpoint' = None
  /\ secret' = None
  /\ UNCHANGED <<lifetime, startup, channels, clientVars, published>>

WriteSecret(b) ==
  /\ ServerStep(b, "cleared", "secret")
  /\ secret' = b
  /\ UNCHANGED <<lifetime, startup, endpoint, channels, clientVars, published>>

\* The socket listens before endpoint.json is there.
PublishEndpoint(b) ==
  /\ ServerStep(b, "secret", "serving")
  /\ endpoint' = b
  /\ published' = (published \/ startup # NoClient)
  /\ UNCHANGED <<lifetime, startup, secret, channels, clientVars>>

\* The socket or a file cannot be created.
StartFails(b) ==
  /\ server[b] \in {"cleared", "secret"}
  /\ server' = [server EXCEPT ![b] = "exited"]
  /\ endpoint' = None
  /\ secret' = None
  /\ lifetime' = None
  /\ UNCHANGED <<startup, channels, clientVars, published>>

\* (Giving up the lifetime lock as soon as the broker stops, before its pair.)
UnlockedShutdown(b) ==
  /\ ServerStep(b, "serving", "stopping")
  /\ channels[b] = {}
  /\ lifetime' = None
  /\ UNCHANGED <<startup, pairVars, channels, clientVars>>

\* _maybe_idle_shutdown: no channel is left, and the idle period is over.
IdleShutdown(b) ==
  /\ ServerStep(b, "serving", "stopping")
  /\ channels[b] = {}
  /\ UNCHANGED <<lifetime, startup, pairVars, channels, clientVars>>

\* stop: the pair is removed if it is this broker's, and only then is the
\* lifetime lock given up.
EndpointOwnedBy(b) == Readable /\ endpoint = b

CleanUp(b) ==
  /\ ServerStep(b, "stopping", "closed")
  /\ IF EndpointOwnedBy(b) THEN endpoint' = None /\ secret' = None
     ELSE UNCHANGED <<endpoint, secret>>
  /\ lifetime' = None
  /\ channels' = [channels EXCEPT ![b] = {}]
  /\ UNCHANGED <<startup, clientVars, published>>

Exit(b) ==
  /\ ServerStep(b, "closed", "exited")
  /\ UNCHANGED <<lifetime, startup, pairVars, channels, clientVars>>

\* The process is killed: the system gives up its lock and leaves the files.
BrokerDies(b) ==
  /\ Alive(b)
  /\ server' = [server EXCEPT ![b] = "exited"]
  /\ lifetime' = IF lifetime = b THEN None ELSE lifetime
  /\ channels' = [channels EXCEPT ![b] = {}]
  /\ UNCHANGED <<startup, pairVars, clientVars>>

\* Maintenance closes a channel nobody uses: its client is gone, has another
\* channel, or cannot call this broker because it is not the one published.
ReapChannel(b, c) ==
  /\ server[b] = "serving" /\ c \in channels[b]
  /\ client[c] = "gone" \/ issuer[c] # b \/ ~Reachable(b)
  /\ channels' = [channels EXCEPT ![b] = @ \ {c}]
  /\ UNCHANGED <<server, lifetime, startup, pairVars, clientVars>>

----------------------------------------------------------------------------
(* The client's way to an endpoint: _ensure_endpoint.                      *)

brokerSide == <<server, lifetime, channels>>

ClientStep(c, from, to) ==
  /\ client[c] = from
  /\ client' = [client EXCEPT ![c] = to]

\* An endpoint that answers is used without any lock.
FindActive(c) ==
  /\ ClientStep(c, "idle", "ready")
  /\ Active
  /\ UNCHANGED <<brokerSide, startup, pairVars, child, issuer, target>>

\* None does (a live broker may fail to answer in time): the startup lock.
TakeStartupLock(c) ==
  /\ ClientStep(c, "idle", "locked")
  /\ startup = NoClient
  /\ startup' = c
  /\ published' = FALSE
  /\ UNCHANGED <<brokerSide, endpoint, secret, child, issuer, target>>

\* The locked section ends, with a usable endpoint or without.
LeaveStartup(c, to) ==
  /\ client' = [client EXCEPT ![c] = to]
  /\ startup' = NoClient
  /\ UNCHANGED <<brokerSide, pairVars, child, issuer, target>>

CheckAgain(c) ==
  /\ client[c] = "locked"
  /\ \/ Active /\ LeaveStartup(c, "ready")
     \/ /\ ClientStep(c, "locked", "looking")     \* no answer
        /\ UNCHANGED <<brokerSide, startup, pairVars, child, issuer, target>>

\* A pair whose owner is alive is waited for and never removed.
NoOwnerCheck == FALSE   \* (Taking every pair that does not answer for stale.)
OwnerAlive == Alive(endpoint)

AwaitOwner(c) ==
  /\ client[c] = "looking"
  /\ OwnerAlive
  /\ LeaveStartup(c, IF Active THEN "ready" ELSE "idle") \/ LeaveStartup(c, "idle")

\* With no owner to be seen the client decides to remove the pair ...
DecideStale(c) ==
  /\ ClientStep(c, "looking", "removing")
  /\ ~OwnerAlive
  /\ UNCHANGED <<brokerSide, startup, pairVars, child, issuer, target>>

\* ... and removes whatever is there by then, one file after the other.
RemoveEndpointFile(c) ==
  /\ ClientStep(c, "removing", "halfway")
  /\ endpoint' = None
  /\ UNCHANGED <<brokerSide, startup, secret, published, child, issuer, target>>

RemoveSecretFile(c) ==
  /\ ClientStep(c, "halfway", "spawning")
  /\ secret' = None
  /\ UNCHANGED <<brokerSide, startup, endpoint, published, child, issuer, target>>

SpawnBroker(c) ==
  /\ ClientStep(c, "spawning", "waiting")
  /\ \E b \in Broker :
       /\ server[b] = "none" /\ \A a \in 1 .. b - 1 : server[a] # "none"
       /\ server' = [server EXCEPT ![b] = "spawned"]
       /\ child' = [child EXCEPT ![c] = b]
  /\ UNCHANGED <<lifetime, startup, pairVars, channels, issuer, target>>

\* The child cannot be started.
SpawnFails(c) ==
  /\ client[c] = "spawning"
  /\ LeaveStartup(c, "idle")

\* Until the endpoint answers, the child is gone, or the connection budget is
\* used up, in which case the child goes on starting without its parent.
AwaitChild(c) ==
  /\ client[c] = "waiting"
  /\ LeaveStartup(c, IF Active THEN "ready" ELSE "idle") \/ LeaveStartup(c, "idle")

----------------------------------------------------------------------------
(* The client's use of it.                                                 *)

\* open_channel, answered with the instance that served it; or no answer.
OpenChannel(c) ==
  /\ client[c] = "ready"
  /\ \/ /\ Active
        /\ client' = [client EXCEPT ![c] = "open"]
        /\ channels' = [channels EXCEPT ![endpoint] = @ \cup {c}]
        /\ issuer' = [issuer EXCEPT ![c] = endpoint]
     \/ /\ client' = [client EXCEPT ![c] = "idle"]
        /\ UNCHANGED <<channels, issuer>>
  /\ UNCHANGED <<server, lifetime, startup, pairVars, child, target>>

\* The channel is closed, or turns out to be lost with its broker.
CloseChannel(c) ==
  /\ ClientStep(c, "open", "idle")
  /\ channels' = [b \in Broker |-> channels[b] \ (IF Reachable(b) THEN {c} ELSE {})]
  /\ issuer' = [issuer EXCEPT ![c] = None]
  /\ UNCHANGED <<server, lifetime, startup, pairVars, child, target>>

\* close: the instance that answers now is stopped only if this client started
\* its process, or, having started none, holds a channel it issued.
Owns(c, b) == IF child[c] # None THEN child[c] = b ELSE issuer[c] = b

BeginClose(c) ==
  /\ client[c] \in {"idle", "open"}
  /\ Active /\ Owns(c, endpoint)
  /\ client' = [client EXCEPT ![c] = "closing"]
  /\ target' = [target EXCEPT ![c] = endpoint]
  /\ UNCHANGED <<brokerSide, startup, pairVars, child, issuer>>

\* shutdown_if_idle, answered by whichever broker is published when it arrives:
\* the instance must be the one the client found, and have no channels.
InstanceMatches(c, b) == target[c] = b

ShutdownIfIdle(c) ==
  /\ ClientStep(c, "closing", "asked")
  /\ Active /\ InstanceMatches(c, endpoint) /\ channels[endpoint] = {}
  /\ server' = [server EXCEPT ![endpoint] = "stopping"]
  /\ UNCHANGED <<lifetime, startup, pairVars, channels, child, issuer, target>>

\* It was refused, or got no answer: the child is kept unless it is gone.
ShutdownRefused(c) ==
  /\ ClientStep(c, "closing", "idle")
  /\ target' = [target EXCEPT ![c] = None]
  /\ issuer' = [issuer EXCEPT ![c] = None]
  /\ child' = [child EXCEPT ![c] = IF Alive(@) THEN @ ELSE None]
  /\ UNCHANGED <<brokerSide, startup, pairVars>>

\* It was accepted: the client waits for the broker to go, and kills the child
\* if that takes too long.
ReapChild(c) ==
  /\ ClientStep(c, "asked", "idle")
  /\ IF Alive(child[c])
     THEN /\ server' = [server EXCEPT ![child[c]] = "exited"]
          /\ lifetime' = IF lifetime = child[c] THEN None ELSE lifetime
          /\ channels' = [channels EXCEPT ![child[c]] = {}]
     ELSE UNCHANGED brokerSide
  /\ child' = [child EXCEPT ![c] = None]
  /\ issuer' = [issuer EXCEPT ![c] = None]
  /\ target' = [target EXCEPT ![c] = None]
  /\ UNCHANGED <<startup, pairVars>>

\* The adapter process is killed, whatever it is doing.
ClientDies(c) ==
  /\ client[c] # "gone"
  /\ client' = [client EXCEPT ![c] = "gone"]
  /\ startup' = IF startup = c THEN NoClient ELSE startup
  /\ child' = [child EXCEPT ![c] = None]
  /\ issuer' = [issuer EXCEPT ![c] = None]
  /\ target' = [target EXCEPT ![c] = None]
  /\ UNCHANGED <<brokerSide, pairVars>>

ServerNext(b) ==
  \/ TakeLifetimeLock(b) \/ AlreadyRunning(b) \/ YieldToOwner(b)
  \/ ClearStalePair(b) \/ WriteSecret(b) \/ PublishEndpoint(b) \/ StartFails(b)
  \/ IdleShutdown(b) \/ CleanUp(b) \/ Exit(b) \/ BrokerDies(b)
  \/ \E c \in Client : ReapChannel(b, c)

ClientNext(c) ==
  \/ FindActive(c) \/ TakeStartupLock(c) \/ CheckAgain(c) \/ AwaitOwner(c)
  \/ DecideStale(c) \/ RemoveEndpointFile(c) \/ RemoveSecretFile(c)
  \/ SpawnBroker(c) \/ SpawnFails(c) \/ AwaitChild(c)
  \/ OpenChannel(c) \/ CloseChannel(c) \/ BeginClose(c) \/ ShutdownIfIdle(c)
  \/ ShutdownRefused(c) \/ ReapChild(c) \/ ClientDies(c)

LifeNext == (\E b \in Broker : ServerNext(b)) \/ (\E c \in Client : ClientNext(c))

LifeSpec == LifeInit /\ [][LifeNext]_lifeVars

----------------------------------------------------------------------------
(* Properties.                                                             *)

\* Whoever can read a pair whose owner is alive talks to the broker that holds
\* the lifetime lock.
EndpointNamesTheHolder == Readable /\ Alive(endpoint) => lifetime = endpoint

\* A client can take the files of a broker that serves only if they appeared
\* while it was looking for them under the startup lock: one that is merely slow
\* to answer, or whose pair is half gone, keeps what it has published.
OnlyAFreshPairIsLost ==
  [][\A b \in Broker : Reachable(b) /\ ~Reachable(b)' /\ server'[b] = "serving"
                       => published]_lifeVars

=============================================================================
