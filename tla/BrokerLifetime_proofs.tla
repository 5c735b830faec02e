----------------------- MODULE BrokerLifetime_proofs -----------------------
(***************************************************************************)
(* Proofs about the processes around the broker: those that start it and   *)
(* wait for it (BrokerLifetime), for every set of clients and every number *)
(* of brokers, and the MCP process (McpServer), for every number of broker *)
(* instances, channels and bindings.                                       *)
(*                                                                         *)
(* LifeIInv: types, who has either lock, how far a broker is whose name is *)
(* in one of the two files, and that the client that is about to remove    *)
(* them saw no owner or works on a pair that appeared under its startup    *)
(* lock.  McpIInv: types, what is bound while a request runs was seen in   *)
(* that request, and how old the handle's channels are.                    *)
(***************************************************************************)
EXTENDS BrokerLifetime, McpServer, FiniteSetTheorems, TLAPS

\* A broker holds the lifetime lock from TakeLifetimeLock until it stops.
Holding == {"locked", "cleared", "secret", "serving", "stopping"}

HolderIsKnown == \A b \in Broker : server[b] \in Holding <=> lifetime = b

\* A file names a broker only after that broker wrote it, and a broker that
\* took its pair away does not appear in both any more.
FilesAreWritten ==
  \A b \in Broker :
    /\ endpoint = b => server[b] \in {"serving", "stopping", "closed", "exited"}
    /\ secret = b => server[b] \in {"secret", "serving", "stopping", "closed", "exited"}
    /\ endpoint = b /\ secret = b => server[b] # "closed"

\* The locked section of _ensure_endpoint.
Starting == {"locked", "looking", "removing", "halfway", "spawning", "waiting"}

StarterIsKnown == \A c \in Client : client[c] \in Starting <=> startup = c

\* What a client removes has no live owner, unless it was published meanwhile.
RemovesWhatIsStale ==
  \A c \in Client :
    client[c] \in {"removing", "halfway"} /\ Alive(endpoint) => published

LifeIInv ==
  /\ LifeTypeOK
  /\ HolderIsKnown /\ FilesAreWritten
  /\ StarterIsKnown /\ RemovesWhatIsStale

----------------------------------------------------------------------------
(* What the invariant says of a readable pair. *)

\* A live broker that is named by both files holds the lifetime lock.
LEMMA HolderFromPair ==
  ASSUME LifeIInv
  PROVE  EndpointNamesTheHolder
<1> SUFFICES ASSUME Readable, Alive(endpoint) PROVE lifetime = endpoint
  BY DEF EndpointNamesTheHolder
<1>1. endpoint \in Broker /\ secret = endpoint
  BY DEF LifeIInv, LifeTypeOK, Readable
<1>2. server[endpoint] \in {"serving", "stopping"}
  BY <1>1 DEF LifeIInv, FilesAreWritten, Alive
<1> QED BY <1>1, <1>2 DEF LifeIInv, HolderIsKnown, Holding

----------------------------------------------------------------------------
(* The steps keep the invariant: the broker's ... *)

\* Every step of a broker process.
LEMMA ServerKeeps ==
  ASSUME LifeIInv, NEW b \in Broker, ServerNext(b)
  PROVE  LifeIInv'
<1> USE LifetimeAssumption
    DEF LifeIInv, LifeTypeOK, HolderIsKnown, FilesAreWritten, StarterIsKnown,
        RemovesWhatIsStale, Alive, Holding, Starting, ServerStep, pairVars,
        clientVars, Broker, None
<1>1. CASE TakeLifetimeLock(b) BY <1>1 DEF TakeLifetimeLock
<1>2. CASE AlreadyRunning(b) BY <1>2 DEF AlreadyRunning
<1>3. CASE YieldToOwner(b) BY <1>3 DEF YieldToOwner
<1>4. CASE ClearStalePair(b) BY <1>4 DEF ClearStalePair
<1>5. CASE WriteSecret(b) BY <1>5 DEF WriteSecret
<1>6. CASE PublishEndpoint(b) BY <1>6 DEF PublishEndpoint
<1>7. CASE StartFails(b) BY <1>7 DEF StartFails
<1>8. CASE IdleShutdown(b) BY <1>8 DEF IdleShutdown
<1>9. CASE CleanUp(b) BY <1>9 DEF CleanUp, EndpointOwnedBy, Readable
<1>10. CASE Exit(b) BY <1>10 DEF Exit
<1>11. CASE BrokerDies(b) BY <1>11 DEF BrokerDies
<1>12. ASSUME NEW c \in Client, ReapChannel(b, c) PROVE LifeIInv'
  BY <1>12 DEF ReapChannel
<1> QED
  BY <1>1, <1>2, <1>3, <1>4, <1>5, <1>6, <1>7, <1>8, <1>9, <1>10, <1>11, <1>12
  DEF ServerNext

\* ... the client's in the locked section of _ensure_endpoint ...
LEMMA StarterKeeps ==
  ASSUME LifeIInv, NEW c \in Client,
         \/ TakeStartupLock(c) \/ CheckAgain(c) \/ AwaitOwner(c)
         \/ DecideStale(c) \/ RemoveEndpointFile(c) \/ RemoveSecretFile(c)
         \/ SpawnBroker(c) \/ SpawnFails(c) \/ AwaitChild(c)
  PROVE  LifeIInv'
<1> USE LifetimeAssumption
    DEF LifeIInv, LifeTypeOK, HolderIsKnown, FilesAreWritten, StarterIsKnown,
        RemovesWhatIsStale, Alive, Holding, Starting, ClientStep, LeaveStartup,
        pairVars, brokerSide, Broker, None
<1>1. CASE TakeStartupLock(c) BY <1>1 DEF TakeStartupLock
<1>2. CASE CheckAgain(c) BY <1>2 DEF CheckAgain
<1>3. CASE AwaitOwner(c) BY <1>3 DEF AwaitOwner
<1>4. CASE DecideStale(c) BY <1>4 DEF DecideStale, OwnerAlive
<1>5. CASE RemoveEndpointFile(c) BY <1>5 DEF RemoveEndpointFile
<1>6. CASE RemoveSecretFile(c) BY <1>6 DEF RemoveSecretFile
<1>7. CASE SpawnBroker(c) BY <1>7 DEF SpawnBroker
<1>8. CASE SpawnFails(c) BY <1>8 DEF SpawnFails
<1>9. CASE AwaitChild(c) BY <1>9 DEF AwaitChild
<1> QED BY <1>1, <1>2, <1>3, <1>4, <1>5, <1>6, <1>7, <1>8, <1>9

\* ... and outside it.
LEMMA UserKeeps ==
  ASSUME LifeIInv, NEW c \in Client,
         \/ FindActive(c) \/ OpenChannel(c) \/ CloseChannel(c) \/ BeginClose(c)
         \/ ShutdownIfIdle(c) \/ ShutdownRefused(c) \/ ReapChild(c) \/ ClientDies(c)
  PROVE  LifeIInv'
<1> USE LifetimeAssumption
    DEF LifeIInv, LifeTypeOK, HolderIsKnown, FilesAreWritten, StarterIsKnown,
        RemovesWhatIsStale, Alive, Holding, Starting, ClientStep, Active,
        Readable, pairVars, brokerSide, Broker, None
<1>1. CASE FindActive(c) BY <1>1 DEF FindActive
<1>2. CASE OpenChannel(c)
  <2>1. Active => endpoint \in Broker
    OBVIOUS
  <2>2. channels' \in [Broker -> SUBSET Client]
    <3>1. CASE Active /\ channels' = [channels EXCEPT ![endpoint] = @ \cup {c}]
      BY <2>1, <3>1
    <3> QED BY <1>2, <3>1 DEF OpenChannel
  <2>3. issuer' \in [Client -> Broker \cup {None}]
    BY <1>2, <2>1 DEF OpenChannel
  <2>4. client' \in [Client -> {"idle", "locked", "looking", "removing", "halfway",
                                "spawning", "waiting", "ready", "open", "closing",
                                "asked", "gone"}]
    BY <1>2 DEF OpenChannel
  <2>5. \A d \in Client :
          /\ client'[d] \in Starting <=> client[d] \in Starting
          /\ client'[d] \in {"removing", "halfway"} => client'[d] = client[d]
    BY <1>2 DEF OpenChannel
  <2> QED BY <1>2, <2>2, <2>3, <2>4, <2>5 DEF OpenChannel
<1>3. CASE CloseChannel(c) BY <1>3 DEF CloseChannel
<1>4. CASE BeginClose(c) BY <1>4 DEF BeginClose
<1>5. CASE ShutdownIfIdle(c) BY <1>5 DEF ShutdownIfIdle
<1>6. CASE ShutdownRefused(c) BY <1>6 DEF ShutdownRefused
<1>7. CASE ReapChild(c)
  <2>1. LifeTypeOK'
    <3>1. CASE Alive(child[c])
      BY <1>7, <3>1 DEF ReapChild
    <3>2. CASE ~Alive(child[c])
      BY <1>7, <3>2 DEF ReapChild
    <3> QED BY <3>1, <3>2
  <2>2. HolderIsKnown' /\ FilesAreWritten'
    BY <1>7 DEF ReapChild
  <2>3. StarterIsKnown' /\ RemovesWhatIsStale'
    BY <1>7 DEF ReapChild
  <2> QED BY <2>1, <2>2, <2>3
<1>8. CASE ClientDies(c) BY <1>8 DEF ClientDies
<1> QED BY <1>1, <1>2, <1>3, <1>4, <1>5, <1>6, <1>7, <1>8

\* LifeIInv holds from the start and is kept by every step.
THEOREM LifeInvariance == LifeSpec => []LifeIInv
<1>1. LifeInit => LifeIInv
  <2> SUFFICES ASSUME LifeInit PROVE LifeIInv
    OBVIOUS
  <2>1. LifeTypeOK
    BY DEF LifeInit, LifeTypeOK
  <2>2. HolderIsKnown /\ FilesAreWritten
    BY DEF LifeInit, HolderIsKnown, FilesAreWritten, Holding, Broker, None
  <2>3. StarterIsKnown /\ RemovesWhatIsStale
    BY LifetimeAssumption
    DEF LifeInit, StarterIsKnown, RemovesWhatIsStale, Starting
  <2> QED BY <2>1, <2>2, <2>3 DEF LifeIInv
<1>2. LifeIInv /\ [LifeNext]_lifeVars => LifeIInv'
  <2> SUFFICES ASSUME LifeIInv, [LifeNext]_lifeVars PROVE LifeIInv'
    OBVIOUS
  <2>1. ASSUME NEW b \in Broker, ServerNext(b) PROVE LifeIInv'
    BY <2>1, ServerKeeps
  <2>2. ASSUME NEW c \in Client, ClientNext(c) PROVE LifeIInv'
    BY <2>2, StarterKeeps, UserKeeps DEF ClientNext
  <2>3. CASE UNCHANGED lifeVars
    BY <2>3 DEF lifeVars, LifeIInv, LifeTypeOK, HolderIsKnown, FilesAreWritten,
                StarterIsKnown, RemovesWhatIsStale, Alive
  <2> QED BY <2>1, <2>2, <2>3 DEF LifeNext
<1> QED BY <1>1, <1>2, PTL DEF LifeSpec

----------------------------------------------------------------------------
(* Results. *)

\* Every variable of brokers and clients keeps its type.
THEOREM LifeTypeCorrect == LifeSpec => []LifeTypeOK
<1>1. LifeIInv => LifeTypeOK
  BY DEF LifeIInv
<1> QED BY <1>1, LifeInvariance, PTL

\* Whoever can read a pair whose owner is alive talks to the broker that holds
\* the lifetime lock, however many brokers were started, stopped and killed.
THEOREM PairNamesHolder == LifeSpec => []EndpointNamesTheHolder
<1>1. LifeIInv => EndpointNamesTheHolder
  BY HolderFromPair
<1> QED BY <1>1, LifeInvariance, PTL

\* A broker that goes on serving loses its pair only to a client that held the
\* startup lock when the pair appeared.
THEOREM ServedPairIsKept == LifeSpec => OnlyAFreshPairIsLost
<1> DEFINE Kept == \A b \in Broker :
              Reachable(b) /\ ~Reachable(b)' /\ server'[b] = "serving" => published
<1>1. LifeIInv /\ [LifeNext]_lifeVars => [Kept]_lifeVars
  <2> SUFFICES ASSUME LifeIInv, LifeNext, NEW b \in Broker,
                      Reachable(b), ~Reachable(b)', server'[b] = "serving"
               PROVE  published
    OBVIOUS
  <2> USE DEF Reachable, Active, Readable
  <2>1. /\ endpoint = b /\ secret = b /\ lifetime = b
        /\ server[b] = "serving" /\ Alive(endpoint)
    BY DEF LifeIInv, HolderIsKnown, Holding, Alive, Broker, None
  <2>2. endpoint' # b \/ secret' # b
    OBVIOUS
  <2>3. ASSUME NEW a \in Broker, ServerNext(a)
        PROVE  FALSE
    \* Who writes the files holds the lifetime lock, so it is b itself.
    <3>1. server[a] \in Holding => a = b
      BY <2>1 DEF LifeIInv, HolderIsKnown
    <3>2. CASE server[a] \notin Holding
      BY <2>2, <2>3, <3>2, <2>1
      DEF ServerNext, ServerStep, pairVars, Holding, TakeLifetimeLock,
          AlreadyRunning, YieldToOwner, ClearStalePair, WriteSecret,
          PublishEndpoint, StartFails, IdleShutdown, CleanUp, Exit, BrokerDies,
          ReapChannel
    <3>3. CASE a = b
      BY <2>1, <2>2, <2>3, <3>3
      DEF LifeIInv, LifeTypeOK, ServerNext, ServerStep, pairVars,
          TakeLifetimeLock, AlreadyRunning, YieldToOwner, ClearStalePair,
          WriteSecret, PublishEndpoint, StartFails, IdleShutdown, CleanUp, Exit,
          BrokerDies, ReapChannel
    <3> QED BY <3>1, <3>2, <3>3
  <2>4. ASSUME NEW c \in Client, ClientNext(c)
        PROVE  client[c] \in {"removing", "halfway"}
    BY <2>1, <2>2, <2>4
    DEF ClientNext, ClientStep, LeaveStartup, pairVars, brokerSide, FindActive,
        TakeStartupLock, CheckAgain, AwaitOwner, DecideStale,
        RemoveEndpointFile, RemoveSecretFile, SpawnBroker, SpawnFails,
        AwaitChild, OpenChannel, CloseChannel, BeginClose, ShutdownIfIdle,
        ShutdownRefused, ReapChild, ClientDies
  <2> QED BY <2>1, <2>3, <2>4 DEF LifeNext, LifeIInv, RemovesWhatIsStale
<1> QED BY <1>1, LifeInvariance, PTL DEF LifeSpec, OnlyAFreshPairIsLost

----------------------------------------------------------------------------
(* The MCP process: its scope is its own.                                  *)

\* A request is under way; its answer will be of the scope.
Serving == mcp.pc \in {"dispatch", "ensure", "identify", "renew", "ask", "probe", "reopen",
                       "reidentify", "again", "settle"}
Asking == Serving /\ mcp.kind # "status"
Told == Asking /\ mcp.pc \in {"probe", "reopen", "reidentify", "again", "settle"}

\* What is bound while a request runs was seen in it, and so was what it was told.
SeenOK ==
  /\ Asking => \A c \in DOMAIN live : live[c] # Free => <<c, live[c].workline>> \in seen
  /\ Told /\ mcp.reply.code = "ok" => <<mcp.asked, mcp.reply.workline>> \in seen
  /\ Serving => mcp.answer.code # "ok"
  /\ NoStaleScope

\* The instance the handle knows is no older than the broker of any channel it held,
\* but while it asks for it; one that holds none held none of the broker that runs.
ChannelsOK ==
  /\ \A c \in held : issued[c] <= resident.instance
  /\ \A c, d \in held : c # d => issued[c] # issued[d]
  /\ handle.instance <= resident.instance /\ mcp.probed <= resident.instance
  /\ mcp.pc \notin {"construct", "identify", "reidentify"} /\ handle.instance # 0 =>
       \A c \in held : issued[c] <= handle.instance
  /\ mcp.pc \notin {"close", "ended"} /\ handle.channel = 0 =>
       \A c \in held : issued[c] < resident.instance
  /\ mcp.pc = "reopen" /\ mcp.probed # 0 => handle.instance <= mcp.probed
  /\ mcp.pc = "start" => held = {} /\ ~mcp.launched
  /\ mcp.launched => /\ ~handle.reopen
                     /\ mcp.pc \notin {"close", "ended"} /\ handle.initial =>
                          handle.channel # 0
                     /\ \A c, d \in held : c = d

McpIInv == McpTypeOK /\ SeenOK /\ ChannelsOK

Pcs == {"start", "construct", "rest", "dispatch", "ensure", "identify", "renew", "ask",
        "probe", "reopen", "reidentify", "again", "settle", "close", "ended"}
AnswerCodes == {"none", "unavailable", "unknown", "unbound", "mismatch", "ok", "bridged",
                "withheld"}
Brokers == [instance : 1 .. MaxInstances, up : BOOLEAN, bindings : 0 .. MaxBindings,
            replaced : BOOLEAN]

\* The request goes on at another place.
LEMMA GotoIs ==
  ASSUME mcp \in Requests, NEW p \in Pcs, Goto(p)
  PROVE  /\ mcp' \in Requests /\ mcp'.pc = p /\ mcp'.launched = mcp.launched
         /\ mcp'.kind = mcp.kind /\ mcp'.reply = mcp.reply /\ mcp'.asked = mcp.asked
         /\ mcp'.probed = mcp.probed /\ mcp'.answer = mcp.answer
<1>1. PICK b \in Requests : b = mcp
  OBVIOUS
<1>2. PICK n : n = [b EXCEPT !.pc = p]
  OBVIOUS
<1>3. /\ n \in Requests /\ n.pc = p /\ n.launched = b.launched
      /\ n.kind = b.kind /\ n.reply = b.reply /\ n.asked = b.asked
      /\ n.probed = b.probed /\ n.answer = b.answer
  BY <1>2 DEF Requests, Pcs
<1>4. mcp' = n
  BY <1>1, <1>2 DEF Goto
<1> QED BY <1>1, <1>3, <1>4

\* A reply of the broker that names nothing.
LEMMA ReplyIs ==
  ASSUME NEW code \in {"none", "unavailable", "unknown", "unbound", "mismatch"}
  PROVE  /\ Reply(code, NoWorkline, 0) \in Replies
         /\ Reply(code, NoWorkline, 0).code = code
         /\ Reply(code, NoWorkline, 0).workline = NoWorkline
         /\ Reply(code, NoWorkline, 0).lease = 0
BY McpAssumption DEF Reply, Replies, Scopes

\* The request is answered; a status has no answer of the scope.
LEMMA AnswersIs ==
  ASSUME mcp \in Requests, NEW code \in AnswerCodes, NEW w \in Scopes, Answers(code, w)
  PROVE  /\ mcp' \in Requests /\ mcp'.pc = "rest" /\ mcp'.launched = mcp.launched
         /\ mcp'.probed = 0
         /\ mcp'.answer.code = "ok" => /\ mcp.kind # "status" /\ code = "ok"
                                       /\ mcp'.answer.channel = mcp.asked
                                       /\ mcp'.answer.workline = w
<1>1. PICK b \in Requests : b = mcp
  OBVIOUS
<1>2. PICK a : a = IF b.kind = "status" THEN NoAnswer
                   ELSE [code |-> code, channel |-> b.asked, workline |-> w]
  OBVIOUS
<1>3. /\ a \in [code : AnswerCodes, channel : 0 .. MaxChannels, workline : Scopes]
      /\ a.code = "ok" => b.kind # "status" /\ code = "ok" /\ a.channel = b.asked
                          /\ a.workline = w
  BY <1>2, McpAssumption DEF Requests, AnswerCodes, Scopes, NoAnswer
<1>4. PICK r \in Replies : r = NoReply
  BY ReplyIs DEF NoReply
<1>5. PICK n : n = [b EXCEPT !.pc = "rest", !.kind = "tool", !.reply = r,
                             !.asked = 0, !.probed = 0, !.answer = a]
  OBVIOUS
<1>6. /\ n \in Requests /\ n.pc = "rest" /\ n.launched = b.launched
      /\ n.probed = 0 /\ n.answer = a
  <2>1. 0 \in 0 .. MaxChannels /\ 0 \in 0 .. MaxInstances
    BY McpAssumption
  <2>2. PICK x \in Requests : x = [b EXCEPT !.pc = "rest", !.kind = "tool"]
    BY DEF Requests
  <2>3. x.pc = "rest" /\ x.launched = b.launched
    BY <2>2 DEF Requests
  <2>4. PICK y \in Requests : y = [x EXCEPT !.reply = r, !.asked = 0]
    BY <2>1 DEF Requests
  <2>5. y.pc = "rest" /\ y.launched = b.launched
    BY <2>3, <2>4 DEF Requests
  <2>6. n = [y EXCEPT !.probed = 0, !.answer = a]
    BY <1>5, <2>2, <2>4 DEF Requests
  <2> QED BY <1>3, <2>1, <2>5, <2>6 DEF Requests, AnswerCodes
<1>7. mcp' = n
  BY <1>1, <1>2, <1>4, <1>5 DEF Answers
<1> QED BY <1>1, <1>3, <1>6, <1>7

\* A channel was issued by an instance.
LEMMA IssuerIs ==
  ASSUME NEW S, NEW q \in Seq(S), NEW c \in DOMAIN q
  PROVE  q[c] \in S
OBVIOUS

\* The types of what is looked at.
LEMMA McpTypes ==
  ASSUME McpIInv
  PROVE  /\ resident \in Brokers /\ mcp \in Requests
         /\ handle \in [channel : 0 .. MaxChannels, instance : 0 .. MaxInstances,
                        closed : BOOLEAN, reopen : BOOLEAN, initial : BOOLEAN]
         /\ private \in [lease : 0 .. MaxBindings, context : Scopes]
         /\ resident.instance \in 1 .. MaxInstances /\ resident.instance \in Nat
         /\ handle.instance \in Nat /\ mcp.probed \in Nat
         /\ \A c \in DOMAIN issued : issued[c] \in Nat
         /\ \A c \in held : issued[c] \in Nat
<1>1. /\ resident \in Brokers /\ mcp \in Requests
      /\ handle \in [channel : 0 .. MaxChannels, instance : 0 .. MaxInstances,
                     closed : BOOLEAN, reopen : BOOLEAN, initial : BOOLEAN]
      /\ private \in [lease : 0 .. MaxBindings, context : Scopes]
      /\ issued \in Seq(1 .. MaxInstances) /\ held \subseteq DOMAIN issued
  BY DEF McpIInv, McpTypeOK, Brokers
<1>2. /\ resident.instance \in 1 .. MaxInstances
      /\ handle.instance \in 0 .. MaxInstances /\ mcp.probed \in 0 .. MaxInstances
  BY <1>1 DEF Brokers, Requests
<1>3. \A c \in DOMAIN issued : issued[c] \in 1 .. MaxInstances
  BY <1>1, IssuerIs
<1> QED BY <1>1, <1>2, <1>3, McpAssumption

\* The broker, or others through it, move.
LEMMA BrokerMoves ==
  ASSUME McpIInv, UNCHANGED <<issued, mcp, handle, private, held>>,
         resident' \in Brokers, resident.instance <= resident'.instance,
         live' \in [DOMAIN live' -> Leases], DOMAIN live' \subseteq DOMAIN issued,
         seen \subseteq seen', seen' \subseteq (DOMAIN issued) \X Scopes,
         Asking => \A c \in DOMAIN live' : live'[c] # Free =>
                                             <<c, live'[c].workline>> \in seen'
  PROVE  McpIInv'
<1>1. McpTypeOK'
  BY DEF McpIInv, McpTypeOK, Brokers
<1>2. SeenOK'
  BY DEF McpIInv, SeenOK, Told, Asking, Serving, NoStaleScope
<1>3. ChannelsOK'
  <2>1. resident'.instance \in Nat
    BY McpAssumption DEF Brokers
  <2> QED BY <2>1, McpTypes DEF McpIInv, ChannelsOK
<1> QED BY <1>1, <1>2, <1>3 DEF McpIInv

\* Steps of the broker.
LEMMA BrokerKeeps ==
  ASSUME McpIInv,
         \/ BrokerStarts \/ BrokerStops \/ PackageReplaced
         \/ \E c \in DOMAIN live :
              LeaseExpires(c) \/ ChannelRevoked(c) \/ \E w \in Workline : ChannelBound(c, w)
  PROVE  McpIInv'
<1>1. PICK b \in Brokers : b = resident
  BY McpTypes
<1>2. /\ live \in [DOMAIN live -> Leases] /\ DOMAIN live \subseteq DOMAIN issued
      /\ seen \subseteq (DOMAIN issued) \X Scopes
      /\ Asking => \A c \in DOMAIN live : live[c] # Free => <<c, live[c].workline>> \in seen
  BY DEF McpIInv, McpTypeOK, SeenOK
<1>3. b.instance \in 1 .. MaxInstances /\ b.bindings \in 0 .. MaxBindings
  BY DEF Brokers
<1>4. CASE BrokerStarts \/ PackageReplaced
  <2>1. PICK n : n = [b EXCEPT !.up = TRUE, !.instance = @ + 1]
    OBVIOUS
  <2>2. b.instance < MaxInstances =>
          n \in [instance : 1 .. MaxInstances, up : BOOLEAN, bindings : 0 .. MaxBindings,
                 replaced : BOOLEAN] /\ n.instance = b.instance + 1
    <3>1. PICK i : i = b.instance + 1
      OBVIOUS
    <3>2. b.instance < MaxInstances => i \in 1 .. MaxInstances
      BY <1>3, <3>1, McpAssumption
    <3>3. n = [b EXCEPT !.up = TRUE, !.instance = i]
      BY <2>1, <3>1
    <3>4. i \in 1 .. MaxInstances =>
            n \in [instance : 1 .. MaxInstances, up : BOOLEAN, bindings : 0 .. MaxBindings,
                   replaced : BOOLEAN] /\ n.instance = i
      BY <3>3 DEF Brokers
    <3> QED BY <3>1, <3>2, <3>4
  <2>3. PICK r : r = [b EXCEPT !.replaced = TRUE]
    OBVIOUS
  <2>4. r \in Brokers /\ r.instance = b.instance
    BY <2>3 DEF Brokers
  <2>5. resident' \in Brokers /\ resident.instance <= resident'.instance
    <3>1. CASE BrokerStarts
      <4>1. b.instance < MaxInstances /\ resident' = n
        BY <1>1, <2>1, <3>1 DEF BrokerStarts
      <4>2. n \in Brokers /\ n.instance = b.instance + 1
        BY <2>2, <4>1 DEF Brokers
      <4> QED BY <1>1, <1>3, <4>1, <4>2
    <3>2. CASE PackageReplaced
      BY <1>1, <1>3, <2>3, <2>4, <3>2 DEF PackageReplaced
    <3> QED BY <1>4, <3>1, <3>2
  <2>6. UNCHANGED <<issued, live, mcp, handle, private, held, seen>>
    BY <1>4 DEF BrokerStarts, PackageReplaced
  <2> QED BY <1>2, <2>5, <2>6, BrokerMoves
<1>5. CASE BrokerStops
  <2>1. PICK r : r = [b EXCEPT !.up = FALSE]
    OBVIOUS
  <2>2. r \in Brokers /\ r.instance = b.instance
    BY <2>1 DEF Brokers
  <2>3. resident' \in Brokers /\ resident.instance <= resident'.instance
    BY <1>1, <1>3, <1>5, <2>1, <2>2 DEF BrokerStops
  <2>4. live' = << >> /\ DOMAIN live' = {} /\ live' \in [DOMAIN live' -> Leases]
    BY <1>5 DEF BrokerStops
  <2>5. UNCHANGED <<issued, mcp, handle, private, held, seen>>
    BY <1>5 DEF BrokerStops
  <2> QED BY <1>2, <2>3, <2>4, <2>5, BrokerMoves
<1>6. ASSUME NEW c \in DOMAIN live, LeaseExpires(c) \/ ChannelRevoked(c)
      PROVE McpIInv'
  <2>1. UNCHANGED <<resident, issued, mcp, handle, private, held, seen>>
    BY <1>6 DEF LeaseExpires, ChannelRevoked
  <2>2. /\ live' \in [DOMAIN live' -> Leases] /\ DOMAIN live' \subseteq DOMAIN live
        /\ \A d \in DOMAIN live' : live'[d] = Free \/ live'[d] = live[d]
    BY <1>2, <1>6 DEF LeaseExpires, ChannelRevoked, Without, Leases
  <2> QED BY <1>1, <1>2, <1>3, <2>1, <2>2, BrokerMoves, McpTypes
<1>7. ASSUME NEW c \in DOMAIN live, NEW w \in Workline, ChannelBound(c, w)
      PROVE McpIInv'
  <2>1. PICK i : i = b.bindings + 1
    OBVIOUS
  <2>2. i \in 1 .. MaxBindings /\ i \in 0 .. MaxBindings
    BY <1>1, <1>3, <1>7, <2>1, McpAssumption DEF ChannelBound
  <2>3. PICK r : r = [b EXCEPT !.bindings = i]
    OBVIOUS
  <2>4. r \in Brokers /\ r.instance = b.instance /\ r.bindings = i
    BY <2>2, <2>3 DEF Brokers
  <2>5. resident' = r
    BY <1>1, <1>7, <2>1, <2>3 DEF ChannelBound
  <2>6. PICK lease \in Leases : lease = [workline |-> w, lease |-> i] /\ lease.workline = w
    <3>1. PICK lease : lease = [workline |-> w, lease |-> i]
      OBVIOUS
    <3>2. lease \in [workline : Workline, lease : 1 .. MaxBindings] /\ lease.workline = w
      BY <2>2, <3>1
    <3> QED BY <3>1, <3>2 DEF Leases
  <2>7. live' = [live EXCEPT ![c] = lease]
    BY <1>7, <2>4, <2>5, <2>6 DEF ChannelBound
  <2>8. /\ live' \in [DOMAIN live' -> Leases] /\ DOMAIN live' = DOMAIN live
        /\ live'[c] = lease /\ \A d \in DOMAIN live : d # c => live'[d] = live[d]
    BY <1>2, <2>7
  <2>9. <<c, w>> \in (DOMAIN issued) \X Scopes
    BY <1>2 DEF Scopes
  <2>10. /\ seen \subseteq seen' /\ seen' \subseteq (DOMAIN issued) \X Scopes
         /\ Asking => <<c, w>> \in seen'
    BY <1>2, <1>7, <2>9 DEF ChannelBound, Asking, Serving, McpAt
  <2>11. UNCHANGED <<issued, mcp, handle, private, held>>
    BY <1>7 DEF ChannelBound
  <2> QED BY <1>1, <1>2, <1>3, <2>4, <2>5, <2>6, <2>8, <2>10, <2>11, BrokerMoves
<1> QED BY <1>4, <1>5, <1>6, <1>7

\* What the broker answers.
LEMMA AuthorizeIs ==
  ASSUME McpIInv, NEW c
  PROVE  /\ Authorize(c) \in Replies
         /\ Authorize(c).code = "ok" => /\ c \in DOMAIN live /\ live[c] # Free
                                        /\ Authorize(c).workline = live[c].workline
<1>1. live \in [DOMAIN live -> Leases] /\ 0 \in 0 .. MaxBindings
  BY McpAssumption DEF McpIInv, McpTypeOK
<1>2. CASE resident.up /\ c \in DOMAIN live /\ live[c] # Free
  <2>1. PICK l \in [workline : Workline, lease : 1 .. MaxBindings] : l = live[c]
    BY <1>1, <1>2 DEF Leases
  <2>2. PICK r : r = [code |-> "ok", workline |-> l.workline, lease |-> l.lease]
    OBVIOUS
  <2>3. l.workline \in Scopes /\ l.lease \in 0 .. MaxBindings
    <3>1. l.workline \in Workline /\ l.lease \in 1 .. MaxBindings
      OBVIOUS
    <3> QED BY <3>1, McpAssumption DEF Scopes
  <2>4. r \in Replies /\ r.code = "ok" /\ r.workline = l.workline
    BY <2>2, <2>3 DEF Replies
  <2>5. Authorize(c) = r
    BY <1>2, <2>1, <2>2 DEF Authorize, Reply
  <2> QED BY <1>2, <2>1, <2>4, <2>5
<1>3. CASE ~(resident.up /\ c \in DOMAIN live /\ live[c] # Free)
  <2>1. Authorize(c) \in {Unavailable, Reply("unknown", NoWorkline, 0),
                          Reply("unbound", NoWorkline, 0)}
    BY <1>3 DEF Authorize
  <2> QED BY <2>1, ReplyIs DEF Unavailable
<1> QED BY <1>2, <1>3

\* What renew and refresh answer.
LEMMA LeaseReplyIs ==
  ASSUME McpIInv, NEW c
  PROVE  LeaseReply(c) \in Replies
BY AuthorizeIs, ReplyIs DEF LeaseReply

LEMMA RememberedIs ==
  ASSUME NEW lease \in 0 .. MaxBindings, NEW reply \in Replies
  PROVE  Remembered(lease, reply) \in 0 .. MaxBindings
BY McpAssumption DEF Remembered, Replies

\* Only what the process has in mind changes.
LEMMA ProcessMoves ==
  ASSUME McpIInv, UNCHANGED <<resident, issued, live, handle, held>>,
         mcp' \in Requests, mcp'.launched = mcp.launched,
         private' \in [lease : 0 .. MaxBindings, context : Scopes],
         seen' \subseteq (DOMAIN issued) \X Scopes, SeenOK',
         mcp.pc \notin {"construct", "identify", "reidentify", "close", "ended"},
         mcp'.probed <= resident.instance, mcp'.pc # "start",
         mcp'.pc = "reopen" /\ mcp'.probed # 0 => handle.instance <= mcp'.probed
  PROVE  McpIInv'
<1>1. McpTypeOK'
  BY DEF McpIInv, McpTypeOK, Brokers
<1>2. ChannelsOK'
  BY DEF McpIInv, ChannelsOK
<1> QED BY <1>1, <1>2 DEF McpIInv

\* The process goes on with the same request, and what it was told stays the same.
LEMMA ProcessTurns ==
  ASSUME McpIInv, UNCHANGED <<resident, issued, live, handle, held, seen>>,
         NEW p \in Pcs \ {"start", "construct", "rest", "close", "ended", "reopen"},
         Goto(p), Serving, p \in {"ensure", "renew", "ask"} \/ Told \/ ~Asking,
         private' \in [lease : 0 .. MaxBindings, context : Scopes],
         mcp.pc \notin {"identify", "reidentify"}
  PROVE  McpIInv'
<1>1. /\ mcp' \in Requests /\ mcp'.pc = p /\ mcp'.launched = mcp.launched
      /\ mcp'.kind = mcp.kind /\ mcp'.reply = mcp.reply /\ mcp'.asked = mcp.asked
      /\ mcp'.probed = mcp.probed /\ mcp'.answer = mcp.answer
  BY McpTypes, GotoIs
<1>2. SeenOK'
  BY <1>1 DEF McpIInv, SeenOK, Told, Asking, Serving, NoStaleScope
<1>3. seen \subseteq (DOMAIN issued) \X Scopes /\ mcp.probed <= resident.instance
  BY DEF McpIInv, McpTypeOK, ChannelsOK
<1> QED BY <1>1, <1>2, <1>3, ProcessMoves DEF Serving

\* A request comes in.
LEMMA BeginsKeeps ==
  ASSUME McpIInv, NEW kind \in {"tool", "read", "status"}, NEW at \in {"ensure", "dispatch"},
         Begins(kind, at)
  PROVE  McpIInv'
<1>1. PICK b \in Requests : b = mcp
  BY McpTypes
<1>2. PICK a : a = NoAnswer
  OBVIOUS
<1>3. /\ a \in [code : AnswerCodes, channel : 0 .. MaxChannels, workline : Scopes]
      /\ a.code = "none"
  BY <1>2, McpAssumption DEF NoAnswer, AnswerCodes, Scopes
<1>4. PICK n : n = [b EXCEPT !.pc = at, !.kind = kind, !.answer = a]
  OBVIOUS
<1>5. /\ n \in Requests /\ n.pc = at /\ n.kind = kind /\ n.answer = a
      /\ n.launched = b.launched /\ n.probed = b.probed /\ n.reply = b.reply
      /\ n.asked = b.asked
  <2>1. PICK x \in Requests : x = [b EXCEPT !.pc = at, !.kind = kind]
    BY DEF Requests
  <2>2. /\ x.pc = at /\ x.kind = kind /\ x.launched = b.launched /\ x.probed = b.probed
        /\ x.reply = b.reply /\ x.asked = b.asked
    BY <2>1 DEF Requests
  <2>3. n = [x EXCEPT !.answer = a]
    BY <1>4, <2>1 DEF Requests
  <2> QED BY <1>3, <2>2, <2>3 DEF Requests, AnswerCodes
<1>6. mcp' = n /\ mcp.pc = "rest"
  BY <1>1, <1>2, <1>4 DEF Begins, McpAt
<1>7. /\ UNCHANGED <<resident, issued, live, handle, private, held>>
      /\ seen' = IF kind = "status" THEN {} ELSE {<<c, live[c].workline>> : c \in DOMAIN live}
  BY DEF Begins
<1>8. seen' \subseteq (DOMAIN issued) \X Scopes
  <2>1. \A c \in DOMAIN live : live[c].workline \in Scopes
    <3>1. live \in [DOMAIN live -> Leases]
      BY DEF McpIInv, McpTypeOK
    <3>2. \A l \in Leases : l.workline \in Scopes
      BY DEF Leases, Free, Scopes
    <3> QED BY <3>1, <3>2
  <2>2. DOMAIN live \subseteq DOMAIN issued
    BY DEF McpIInv, McpTypeOK
  <2> QED BY <1>7, <2>1, <2>2
<1>9. SeenOK'
  BY <1>3, <1>5, <1>6, <1>7 DEF SeenOK, Told, Asking, Serving, NoStaleScope
<1> QED
  BY <1>1, <1>5, <1>6, <1>7, <1>8, <1>9, McpTypes, ProcessMoves DEF McpIInv, ChannelsOK

\* A request is let through to the current package.
LEMMA DispatchKeeps ==
  ASSUME McpIInv, Dispatch
  PROVE  McpIInv'
<1>1. /\ mcp.pc = "dispatch" /\ Serving
      /\ UNCHANGED <<resident, issued, live, handle, private, held, seen>>
  BY DEF Dispatch, McpAt, Serving
<1>2. /\ private' \in [lease : 0 .. MaxBindings, context : Scopes]
      /\ seen' \subseteq (DOMAIN issued) \X Scopes
  BY <1>1 DEF McpIInv, McpTypeOK
<1>3. CASE Answers("bridged", NoWorkline)
  <2>1. /\ mcp' \in Requests /\ mcp'.pc = "rest" /\ mcp'.launched = mcp.launched
        /\ mcp'.probed = 0 /\ mcp'.answer.code # "ok"
    BY <1>3, AnswersIs, McpTypes DEF AnswerCodes, Scopes
  <2>2. SeenOK'
    BY <2>1 DEF SeenOK, Told, Asking, Serving, NoStaleScope
  <2>3. mcp'.probed <= resident.instance
    BY <2>1, McpTypes
  <2> QED BY <1>1, <1>2, <2>1, <2>2, <2>3, ProcessMoves
<1>4. CASE Goto("ensure")
  BY <1>1, <1>2, <1>4, ProcessTurns DEF Pcs
<1> QED BY <1>3, <1>4 DEF Dispatch

\* The lease is renewed, or not.
LEMMA RenewKeeps ==
  ASSUME McpIInv, RenewIfNeeded
  PROVE  McpIInv'
<1>1. /\ mcp.pc = "renew" /\ Serving /\ Goto("ask")
      /\ UNCHANGED <<resident, issued, live, handle, held, seen>>
  BY DEF RenewIfNeeded, McpAt, Serving
<1>2. private' \in [lease : 0 .. MaxBindings, context : Scopes]
  <2>1. PICK v \in [lease : 0 .. MaxBindings, context : Scopes] : v = private
    BY McpTypes
  <2>2. PICK l \in 0 .. MaxBindings : l = Remembered(v.lease, LeaseReply(handle.channel))
    <3>1. PICK r \in Replies : r = LeaseReply(handle.channel)
      BY LeaseReplyIs
    <3>2. PICK k \in 0 .. MaxBindings : k = v.lease
      OBVIOUS
    <3> QED BY <3>1, <3>2, RememberedIs
  <2>3. private' = v \/ private' = [v EXCEPT !.lease = l]
    BY <2>1, <2>2 DEF RenewIfNeeded
  <2> QED BY <2>3
<1> QED BY <1>1, <1>2, ProcessTurns DEF Pcs

\* The broker is asked for the scope; the answer may get lost.
LEMMA AskKeeps ==
  ASSUME McpIInv, Ask("ask", "probe") \/ Ask("again", "settle")
  PROVE  McpIInv'
<1>1. PICK b \in Requests : b = mcp
  BY McpTypes
<1>2. PICK c \in 0 .. MaxChannels : c = handle.channel
  BY McpTypes
<1>3. PICK reply \in Replies, to \in {"probe", "settle"} :
        /\ reply \in {Authorize(c), Unavailable}
        /\ mcp' = [mcp EXCEPT !.pc = to, !.reply = reply, !.asked = c]
  <2>1. \A r \in {Authorize(c), Unavailable} : r \in Replies
    BY AuthorizeIs, ReplyIs DEF Unavailable
  <2> QED BY <1>2, <2>1 DEF Ask
<1>4. /\ mcp.pc \in {"ask", "again"} /\ Serving
      /\ UNCHANGED <<resident, issued, live, handle, private, held, seen>>
  BY DEF Ask, McpAt, Serving
<1>5. PICK n : n = [b EXCEPT !.pc = to, !.reply = reply, !.asked = c]
  OBVIOUS
<1>6. /\ n \in Requests /\ n.pc = to /\ n.kind = b.kind /\ n.answer = b.answer
      /\ n.launched = b.launched /\ n.probed = b.probed /\ n.reply = reply /\ n.asked = c
  BY <1>5 DEF Requests
<1>7. mcp' = n
  BY <1>1, <1>3, <1>5
<1>8. reply.code = "ok" => /\ c \in DOMAIN live /\ live[c] # Free
                           /\ reply.workline = live[c].workline
  BY <1>3, AuthorizeIs, ReplyIs DEF Unavailable
<1>9. SeenOK'
  BY <1>1, <1>4, <1>6, <1>7, <1>8 DEF McpIInv, SeenOK, Told, Asking, Serving, NoStaleScope
<1>10. /\ private' \in [lease : 0 .. MaxBindings, context : Scopes]
       /\ seen' \subseteq (DOMAIN issued) \X Scopes
       /\ mcp.probed <= resident.instance
  BY <1>4 DEF McpIInv, McpTypeOK, ChannelsOK
<1> QED BY <1>1, <1>4, <1>6, <1>7, <1>9, <1>10, ProcessMoves

\* The instance is looked for before a channel is replaced.
LEMMA ProbeKeeps ==
  ASSUME McpIInv, Probe
  PROVE  McpIInv'
<1>1. /\ mcp.pc = "probe" /\ Serving
      /\ UNCHANGED <<resident, issued, live, handle, private, held, seen>>
  BY DEF Probe, McpAt, Serving
<1>2. /\ private' \in [lease : 0 .. MaxBindings, context : Scopes]
      /\ seen' \subseteq (DOMAIN issued) \X Scopes
  BY <1>1 DEF McpIInv, McpTypeOK
<1>3. CASE mcp.reply.code = "unknown"
  <2>1. PICK b \in Requests : b = mcp
    BY McpTypes
  <2>2. PICK r \in CurrentInstanceIds :
          mcp' = [mcp EXCEPT !.pc = "reopen", !.probed = r]
    BY <1>3 DEF Probe
  <2>3. r \in 0 .. MaxInstances /\ (r = 0 \/ r = resident.instance)
    BY McpTypes, McpAssumption DEF CurrentInstanceIds, Running
  <2>4. PICK n : n = [b EXCEPT !.pc = "reopen", !.probed = r]
    OBVIOUS
  <2>5. /\ n \in Requests /\ n.pc = "reopen" /\ n.kind = b.kind /\ n.answer = b.answer
        /\ n.launched = b.launched /\ n.probed = r /\ n.reply = b.reply /\ n.asked = b.asked
    BY <2>3, <2>4 DEF Requests
  <2>6. mcp' = n
    BY <2>1, <2>2, <2>4
  <2>7. SeenOK'
    BY <1>1, <1>3, <2>1, <2>5, <2>6 DEF McpIInv, SeenOK, Told, Asking, Serving, NoStaleScope
  <2>8. r <= resident.instance /\ (r # 0 => handle.instance <= r)
    BY <2>3, McpTypes DEF McpIInv, ChannelsOK
  <2> QED BY <1>1, <1>2, <2>1, <2>5, <2>6, <2>7, <2>8, ProcessMoves
<1>4. CASE mcp.reply.code # "unknown"
  <2>1. Goto("settle") /\ (Told \/ ~Asking)
    BY <1>1, <1>4 DEF Probe, Told
  <2> QED BY <1>1, <1>2, <2>1, ProcessTurns DEF Pcs
<1> QED BY <1>3, <1>4

\* The request ends, or a read goes on to look at the status.
LEMMA SettleKeeps ==
  ASSUME McpIInv, Settle
  PROVE  McpIInv'
<1>1. /\ mcp.pc = "settle" /\ Serving /\ (mcp.kind # "status" => Told)
      /\ UNCHANGED <<resident, issued, live, handle, held>>
  BY DEF Settle, McpAt, Told, Asking, Serving
<1>2. PICK b \in Requests : b = mcp
  BY McpTypes
<1>3. b.reply \in Replies /\ b.reply.code \in AnswerCodes /\ b.reply.workline \in Scopes
  BY DEF Requests, Replies, AnswerCodes
<1>4. private' \in [lease : 0 .. MaxBindings, context : Scopes]
  <2>1. PICK v \in [lease : 0 .. MaxBindings, context : Scopes] : v = private
    BY McpTypes
  <2>2. PICK k \in 0 .. MaxBindings : k = v.lease
    OBVIOUS
  <2>3. PICK r \in Replies : r = b.reply
    BY <1>3
  <2>4. PICK l \in 0 .. MaxBindings : l = Remembered(k, r)
    BY RememberedIs
  <2>5. private' = v \/ private' = [lease |-> l, context |-> b.reply.workline]
    BY <1>2, <2>1, <2>2, <2>3, <2>4 DEF Settle
  <2> QED BY <1>3, <2>5
<1>5. /\ seen' = IF b.reply.code = "ok" THEN seen ELSE {}
      /\ seen' \subseteq (DOMAIN issued) \X Scopes
  BY <1>2 DEF Settle, McpIInv, McpTypeOK
<1>6. CASE mcp.kind = "read" /\ mcp.reply.code # "ok"
  <2>1. PICK r \in Replies : r = NoReply
    BY ReplyIs DEF NoReply
  <2>2. PICK n : n = [b EXCEPT !.pc = "ensure", !.kind = "status", !.reply = r]
    OBVIOUS
  <2>3. /\ n \in Requests /\ n.pc = "ensure" /\ n.kind = "status" /\ n.answer = b.answer
        /\ n.launched = b.launched /\ n.probed = b.probed
    BY <2>2 DEF Requests
  <2>4. mcp' = n
    BY <1>2, <1>6, <2>1, <2>2 DEF Settle
  <2>5. SeenOK'
    BY <1>1, <1>2, <2>3, <2>4 DEF McpIInv, SeenOK, Told, Asking, Serving, NoStaleScope
  <2>6. mcp.probed <= resident.instance
    BY DEF McpIInv, ChannelsOK
  <2> QED BY <1>1, <1>2, <1>4, <1>5, <2>3, <2>4, <2>5, <2>6, ProcessMoves
<1>7. CASE ~(mcp.kind = "read" /\ mcp.reply.code # "ok")
  <2>1. PICK code \in AnswerCodes, w \in Scopes : code = b.reply.code /\ w = b.reply.workline
    BY <1>3
  <2>2. Answers(code, w)
    BY <1>2, <1>7, <2>1 DEF Settle
  <2>3. /\ mcp' \in Requests /\ mcp'.pc = "rest" /\ mcp'.launched = mcp.launched
        /\ mcp'.probed = 0
        /\ mcp'.answer.code = "ok" => /\ mcp.kind # "status" /\ code = "ok"
                                      /\ mcp'.answer.channel = mcp.asked
                                      /\ mcp'.answer.workline = w
    BY <2>2, McpTypes, AnswersIs
  <2>4. mcp'.answer.code = "ok" =>
          seen' = seen /\ <<mcp'.answer.channel, mcp'.answer.workline>> \in seen
    BY <1>1, <1>2, <1>5, <2>1, <2>3 DEF McpIInv, SeenOK
  <2>5. SeenOK'
    BY <2>3, <2>4 DEF SeenOK, Told, Asking, Serving, NoStaleScope
  <2>6. mcp'.probed <= resident.instance
    BY <2>3, McpTypes
  <2> QED BY <1>1, <1>4, <1>5, <2>3, <2>5, <2>6, ProcessMoves
<1> QED BY <1>6, <1>7

\* The contract is refreshed after a turn.
LEMMA RefreshKeeps ==
  ASSUME McpIInv, RefreshContract
  PROVE  McpIInv'
<1>1. /\ mcp.pc = "rest"
      /\ UNCHANGED <<resident, issued, live, mcp, handle, held, seen>>
  BY DEF RefreshContract, McpAt
<1>2. PICK v \in [lease : 0 .. MaxBindings, context : Scopes] : v = private
  BY McpTypes
<1>3. PICK k \in 0 .. MaxBindings : k = v.lease
  OBVIOUS
<1>4. PICK reply \in {LeaseReply(handle.channel), Unavailable} :
         private' = [lease |-> Remembered(k, reply),
                     context |-> IF reply.code = "ok" THEN reply.workline ELSE v.context]
  BY <1>2, <1>3 DEF RefreshContract
<1>5. reply \in Replies /\ reply.workline \in Scopes
  BY LeaseReplyIs, ReplyIs DEF Unavailable, Replies
<1>6. PICK l \in 0 .. MaxBindings : l = Remembered(k, reply)
  BY <1>5, RememberedIs
<1>7. private' \in [lease : 0 .. MaxBindings, context : Scopes]
  BY <1>4, <1>5, <1>6
<1>8. SeenOK'
  BY <1>1 DEF McpIInv, SeenOK, Told, Asking, Serving, NoStaleScope
<1>9. /\ mcp' \in Requests /\ seen' \subseteq (DOMAIN issued) \X Scopes
      /\ mcp'.probed <= resident.instance
  BY <1>1 DEF McpIInv, McpTypeOK, ChannelsOK
<1> QED BY <1>1, <1>7, <1>8, <1>9, ProcessMoves

Handles == [channel : 0 .. MaxChannels, instance : 0 .. MaxInstances,
            closed : BOOLEAN, reopen : BOOLEAN, initial : BOOLEAN]

\* A channel more, or not: what was there stays as it was.
IssuedMore(c) ==
  /\ issued' \in Seq(1 .. MaxInstances) /\ Len(issued') <= MaxChannels
  /\ live' \in [DOMAIN live' -> Leases] /\ DOMAIN live' \subseteq DOMAIN issued'
  /\ DOMAIN issued \subseteq DOMAIN issued'
  /\ \A d \in DOMAIN issued : issued'[d] = issued[d]
  /\ c # 0 => /\ c \in DOMAIN issued' /\ c \notin DOMAIN issued
              /\ issued'[c] = resident.instance

LEMMA AppendedIs ==
  ASSUME NEW S, NEW q \in Seq(S), NEW x \in S, NEW max \in Nat, Len(q) < max
  PROVE  /\ Append(q, x) \in Seq(S) /\ Len(Append(q, x)) <= max
         /\ DOMAIN q \subseteq DOMAIN Append(q, x)
         /\ \A d \in DOMAIN q : Append(q, x)[d] = q[d]
         /\ Len(q) + 1 \in DOMAIN Append(q, x) /\ Len(q) + 1 \notin DOMAIN q
         /\ Append(q, x)[Len(q) + 1] = x
         /\ Len(q) + 1 # 0
OBVIOUS

LEMMA OpensMore ==
  ASSUME McpIInv, NEW c, Opens(c)
  PROVE  /\ IssuedMore(c)
         /\ \A d \in DOMAIN live' : live'[d] # Free => d \in DOMAIN live /\ live'[d] = live[d]
<1>1. /\ issued \in Seq(1 .. MaxInstances) /\ Len(issued) <= MaxChannels
      /\ live \in [DOMAIN live -> Leases] /\ DOMAIN live \subseteq DOMAIN issued
      /\ resident.instance \in 1 .. MaxInstances
  BY McpTypes DEF McpIInv, McpTypeOK
<1>2. CASE c = 0 /\ UNCHANGED <<issued, live>>
  BY <1>1, <1>2 DEF IssuedMore
<1>3. CASE ~(c = 0 /\ UNCHANGED <<issued, live>>)
  <2>1. PICK n : n = Len(issued) + 1
    OBVIOUS
  <2>2. PICK i \in 1 .. MaxInstances : i = resident.instance
    BY <1>1
  <2>3. /\ Len(issued) < MaxChannels /\ c \in {0, n}
        /\ issued' = Append(issued, i) /\ live' = Put(live, n, Free)
    BY <1>3, <2>1, <2>2 DEF Opens
  <2>4. /\ issued' \in Seq(1 .. MaxInstances) /\ Len(issued') <= MaxChannels
        /\ DOMAIN issued \subseteq DOMAIN issued'
        /\ \A d \in DOMAIN issued : issued'[d] = issued[d]
        /\ n \in DOMAIN issued' /\ n \notin DOMAIN issued /\ issued'[n] = i
    BY <1>1, <2>1, <2>3, AppendedIs, McpAssumption
  <2>5. /\ DOMAIN live' = DOMAIN live \cup {n}
        /\ \A d \in DOMAIN live : d # n => live'[d] = live[d]
        /\ live'[n] = Free /\ Free \in Leases
        /\ live' = [y \in DOMAIN live \cup {n} |-> IF y = n THEN Free ELSE live[y]]
    BY <2>3 DEF Put, Leases
  <2>6. live' \in [DOMAIN live' -> Leases]
    BY <1>1, <2>5
  <2> QED BY <1>1, <2>2, <2>3, <2>4, <2>5, <2>6 DEF IssuedMore
<1> QED BY <1>2, <1>3

\* The process holds a channel more, of a broker that is younger than all it held.
LEMMA HandleMoves ==
  ASSUME McpIInv, NEW c \in 0 .. MaxChannels, IssuedMore(c),
         resident' \in Brokers, resident'.instance = resident.instance,
         mcp' \in Requests, handle' \in Handles, handle'.channel = c,
         private' \in [lease : 0 .. MaxBindings, context : Scopes],
         seen' \subseteq (DOMAIN issued') \X Scopes, SeenOK',
         held' = held \cup ({c} \ {0}),
         \A d \in held : issued[d] < resident.instance,
         mcp'.pc \notin {"start", "reopen"},
         mcp'.probed <= resident.instance, handle'.instance <= resident.instance,
         \/ mcp'.pc \in {"construct", "identify", "reidentify"}
         \/ c = 0 /\ (handle'.instance = 0 \/ \A d \in held : issued[d] <= handle'.instance),
         mcp'.launched => held = {} /\ ~handle'.reopen /\ (handle'.initial => c # 0)
  PROVE  McpIInv'
<1>1. held \subseteq DOMAIN issued /\ DOMAIN issued \subseteq DOMAIN issued'
  BY DEF McpIInv, McpTypeOK, IssuedMore
<1>2. McpTypeOK'
  BY <1>1 DEF McpTypeOK, Brokers, Handles, IssuedMore
<1>3. \A d \in held : /\ issued'[d] = issued[d] /\ issued'[d] < resident'.instance
                      /\ issued'[d] \in Nat
  BY <1>1, McpTypes DEF IssuedMore
<1>4. \A d \in held' : d \in held \/ (d = c /\ c # 0 /\ issued'[d] = resident'.instance)
  BY DEF IssuedMore
<1>5. \A d, e \in held : d # e => issued'[d] # issued'[e]
  BY <1>3 DEF McpIInv, ChannelsOK
<1>6. \A d, e \in held' : d # e => issued'[d] # issued'[e]
  <2> TAKE d, e \in held'
  <2> HAVE d # e
  <2>1. CASE d \in held /\ e \in held
    BY <1>5, <2>1
  <2>2. CASE d \in held /\ e \notin held
    BY <1>3, <1>4, <2>2, McpTypes
  <2>3. CASE d \notin held /\ e \in held
    BY <1>3, <1>4, <2>3, McpTypes
  <2>4. CASE d \notin held /\ e \notin held
    BY <1>4, <2>4
  <2> QED BY <2>1, <2>2, <2>3, <2>4
<1>7. resident'.instance \in Nat
  BY McpTypes
<1>8. ChannelsOK'
  <2>1. \A d \in held' : issued'[d] <= resident'.instance
    BY <1>3, <1>4, <1>7
  <2>2. c = 0 => held' = held
    OBVIOUS
  <2>3. /\ mcp'.pc \notin {"construct", "identify", "reidentify"} /\ handle'.instance # 0 =>
             \A d \in held' : issued'[d] <= handle'.instance
        /\ handle'.channel = 0 => \A d \in held' : issued'[d] < resident'.instance
    BY <1>3, <2>2
  <2>4. mcp'.launched => \A d, e \in held' : d = e
    OBVIOUS
  <2> QED BY <1>6, <2>1, <2>3, <2>4 DEF ChannelsOK
<1> QED BY <1>2, <1>8 DEF McpIInv

\* The process starts, with a channel or without.
LEMMA StartKeeps ==
  ASSUME McpIInv, StartDirect \/ StartLaunched
  PROVE  McpIInv'
<1>1. /\ mcp.pc = "start" /\ held = {} /\ ~mcp.launched
      /\ private' = private /\ seen' = seen
  BY DEF StartDirect, StartLaunched, McpAt, McpIInv, ChannelsOK
<1>2. PICK c \in 0 .. MaxChannels :
        /\ IssuedMore(c)
        /\ resident' \in Brokers /\ resident'.instance = resident.instance
        /\ \/ Holds(c, TRUE, TRUE) /\ Goto("construct")
           \/ /\ Holds(c, FALSE, c # 0)
              /\ mcp' = [mcp EXCEPT !.pc = "construct", !.launched = TRUE]
  <2>1. CASE StartDirect
    BY <2>1, OpensMore, McpTypes DEF StartDirect
  <2>2. CASE StartLaunched /\ UNCHANGED <<resident, issued, live>>
    <3>1. 0 \in 0 .. MaxChannels /\ IssuedMore(0)
      BY <2>2, McpAssumption DEF IssuedMore, McpIInv, McpTypeOK
    <3>2. Holds(0, FALSE, FALSE) \/ \E i : issued' = Append(issued, i)
      BY <2>2 DEF StartLaunched
    <3>3. ~\E i : issued' = Append(issued, i)
      <4>1. issued \in Seq(1 .. MaxInstances)
        BY DEF McpIInv, McpTypeOK
      <4>2. ASSUME NEW i, issued = Append(issued, i) PROVE FALSE
        <5>1. Len(Append(issued, i)) = Len(issued) + 1 /\ Len(issued) \in Nat
          BY <4>1
        <5> QED BY <4>2, <5>1
      <4> QED BY <2>2, <4>2
    <3>4. /\ Holds(0, FALSE, 0 # 0)
          /\ mcp' = [mcp EXCEPT !.pc = "construct", !.launched = TRUE]
      BY <2>2, <3>2, <3>3 DEF StartLaunched, Holds
    <3> QED BY <2>2, <3>1, <3>4, McpTypes
  <2>3. CASE StartLaunched /\ ~UNCHANGED <<resident, issued, live>>
    <3>1. PICK b \in Brokers : b = resident
      BY McpTypes
    <3>2. PICK k : k = b.bindings + 1
      OBVIOUS
    <3>3. k \in 1 .. MaxBindings /\ k \in 0 .. MaxBindings
      <4>1. b.bindings \in 0 .. MaxBindings /\ b.bindings < MaxBindings
        BY <2>3, <3>1 DEF StartLaunched, Brokers
      <4> QED BY <3>2, <4>1, McpAssumption
    <3>4. PICK r \in Brokers : /\ r = [b EXCEPT !.bindings = k]
                               /\ r.instance = b.instance /\ r.bindings = k
      <4>1. PICK r : r = [b EXCEPT !.bindings = k]
        OBVIOUS
      <4>2. r \in Brokers /\ r.instance = b.instance /\ r.bindings = k
        BY <3>3, <4>1 DEF Brokers
      <4> QED BY <4>1, <4>2
    <3>5. resident' = r
      BY <2>3, <3>1, <3>2, <3>4 DEF StartLaunched
    <3>6. PICK n : n = Len(issued) + 1
      OBVIOUS
    <3>7. PICK i \in 1 .. MaxInstances : i = resident.instance
      BY McpTypes
    <3>8. PICK w \in Workline : w = OwnWorkline
      BY McpAssumption DEF OwnWorkline
    <3>9. PICK lease \in Leases : lease = [workline |-> w, lease |-> k]
      <4>1. PICK lease : lease = [workline |-> w, lease |-> k]
        OBVIOUS
      <4>2. lease \in [workline : Workline, lease : 1 .. MaxBindings]
        BY <3>3, <4>1
      <4> QED BY <4>1, <4>2 DEF Leases
    <3>10. /\ Len(issued) < MaxChannels /\ issued' = Append(issued, i)
           /\ Holds(Len(issued'), FALSE, TRUE)
           /\ live' = Put(live, Len(issued'), lease)
      BY <2>3, <3>4, <3>5, <3>7, <3>8, <3>9 DEF StartLaunched
    <3>11. /\ issued \in Seq(1 .. MaxInstances) /\ live \in [DOMAIN live -> Leases]
           /\ DOMAIN live \subseteq DOMAIN issued
      BY DEF McpIInv, McpTypeOK
    <3>12. /\ issued' \in Seq(1 .. MaxInstances) /\ Len(issued') <= MaxChannels
           /\ DOMAIN issued \subseteq DOMAIN issued'
           /\ \A d \in DOMAIN issued : issued'[d] = issued[d]
           /\ n \in DOMAIN issued' /\ n \notin DOMAIN issued /\ issued'[n] = i
           /\ n = Len(issued')
      BY <3>6, <3>10, <3>11, AppendedIs, McpAssumption
    <3>13. /\ DOMAIN live' = DOMAIN live \cup {n}
           /\ live' = [y \in DOMAIN live \cup {n} |-> IF y = n THEN lease ELSE live[y]]
      BY <3>10, <3>12 DEF Put
    <3>14. live' \in [DOMAIN live' -> Leases]
      BY <3>11, <3>13
    <3>15. n \in 0 .. MaxChannels /\ n # 0
      BY <3>11, <3>12, McpAssumption
    <3>16. IssuedMore(n)
      BY <3>7, <3>11, <3>12, <3>13, <3>14 DEF IssuedMore
    <3>17. /\ Holds(n, FALSE, TRUE)
           /\ mcp' = [mcp EXCEPT !.pc = "construct", !.launched = TRUE]
      BY <2>3, <3>10, <3>12 DEF StartLaunched
    <3>18. Holds(n, FALSE, n # 0)
      BY <3>15, <3>17 DEF Holds
    <3> QED BY <3>1, <3>4, <3>5, <3>15, <3>16, <3>17, <3>18
  <2> QED BY <2>1, <2>2, <2>3
<1>3. /\ mcp' \in Requests /\ mcp'.pc = "construct" /\ mcp'.answer = mcp.answer
      /\ mcp'.probed = mcp.probed /\ (Holds(c, TRUE, TRUE) => mcp'.launched = FALSE)
  <2>1. PICK b \in Requests : b = mcp
    BY McpTypes
  <2>2. PICK n \in Requests : n = [b EXCEPT !.pc = "construct", !.launched = TRUE]
    BY DEF Requests
  <2>3. n.pc = "construct" /\ n.answer = b.answer /\ n.probed = b.probed
    BY <2>2 DEF Requests
  <2>4. Holds(c, TRUE, TRUE) => ~Holds(c, FALSE, c # 0)
    BY DEF Holds
  <2> QED BY ZenonT(40), <1>1, <1>2, <2>1, <2>2, <2>3, <2>4, McpTypes, GotoIs DEF Pcs, Requests
<1>4. PICK reopen \in BOOLEAN, initial \in BOOLEAN :
        /\ Holds(c, reopen, initial)
        /\ reopen => mcp'.launched = FALSE
        /\ initial /\ mcp'.launched => c # 0
  BY <1>2, <1>3
<1>5. /\ handle' \in Handles /\ handle'.channel = c /\ handle'.instance = 0
      /\ handle'.reopen = reopen /\ handle'.initial = initial
      /\ held' = held \cup ({c} \ {0})
  <2>1. 0 \in 0 .. MaxInstances /\ FALSE \in BOOLEAN
    BY McpAssumption
  <2>2. PICK h \in Handles : h = [channel |-> c, instance |-> 0, closed |-> FALSE,
                                  reopen |-> reopen, initial |-> initial]
    BY <2>1 DEF Handles
  <2> QED BY <1>1, <1>4, <2>2 DEF Holds
<1>6. SeenOK'
  BY <1>1, <1>3 DEF McpIInv, SeenOK, Told, Asking, Serving, NoStaleScope
<1>7. /\ private' \in [lease : 0 .. MaxBindings, context : Scopes]
      /\ seen' \subseteq (DOMAIN issued') \X Scopes
      /\ mcp'.probed <= resident.instance /\ handle'.instance <= resident.instance
  BY <1>1, <1>2, <1>3, <1>5, McpTypes DEF McpIInv, McpTypeOK, ChannelsOK, IssuedMore
<1>8. mcp'.launched => held = {} /\ ~handle'.reopen /\ (handle'.initial => c # 0)
  BY <1>1, <1>4, <1>5, <1>3
<1> QED BY <1>1, <1>2, <1>3, <1>5, <1>6, <1>7, <1>8, HandleMoves

\* The handle asks which instance it talks to.
LEMMA IdentifyKeeps ==
  ASSUME McpIInv,
         \/ Identify("construct", "rest") \/ Identify("identify", "renew")
         \/ Identify("reidentify", "again")
  PROVE  McpIInv'
<1>1. PICK to \in {"rest", "renew", "again"} :
        /\ Goto(to) /\ (to = "again" => mcp.pc = "reidentify")
        /\ mcp.pc \in {"construct", "identify", "reidentify"}
        /\ to # "rest" => mcp.pc # "construct"
  BY DEF Identify, McpAt
<1>2. UNCHANGED <<resident, issued, live, private, held, seen>>
  BY DEF Identify
<1>3. PICK h \in Handles : h = handle
  BY McpTypes DEF Handles
<1>4. PICK r \in CurrentInstanceIds : handle' = [handle EXCEPT !.instance = r]
  BY DEF Identify
<1>5. r \in 0 .. MaxInstances /\ (r = 0 \/ r = resident.instance)
  BY McpTypes, McpAssumption DEF CurrentInstanceIds, Running
<1>6. PICK n : n = [h EXCEPT !.instance = r]
  OBVIOUS
<1>7. /\ n \in Handles /\ n.instance = r /\ n.channel = h.channel /\ n.reopen = h.reopen
      /\ n.initial = h.initial
  BY <1>5, <1>6 DEF Handles
<1>8. handle' = n
  BY <1>3, <1>4, <1>6
<1>9. /\ mcp' \in Requests /\ mcp'.pc = to /\ mcp'.launched = mcp.launched
      /\ mcp'.kind = mcp.kind /\ mcp'.reply = mcp.reply /\ mcp'.asked = mcp.asked
      /\ mcp'.probed = mcp.probed /\ mcp'.answer = mcp.answer
  BY <1>1, McpTypes, GotoIs DEF Pcs
<1>10. McpTypeOK'
  BY <1>2, <1>3, <1>7, <1>8, <1>9 DEF McpIInv, McpTypeOK, Handles
<1>11. SeenOK'
  BY <1>1, <1>2, <1>9 DEF McpIInv, SeenOK, Told, Asking, Serving, NoStaleScope
<1>12. ChannelsOK'
  <2>1. r <= resident.instance /\ (r # 0 => \A c \in held : issued[c] <= r)
    BY <1>5, McpTypes DEF McpIInv, ChannelsOK
  <2> QED BY <1>1, <1>2, <1>3, <1>7, <1>8, <1>9, <2>1 DEF McpIInv, ChannelsOK
<1> QED BY <1>10, <1>11, <1>12 DEF McpIInv

\* A process without a channel opens one, if its launch allows it.
LEMMA EnsureKeeps ==
  ASSUME McpIInv, EnsureChannel
  PROVE  McpIInv'
<1>1. /\ mcp.pc = "ensure" /\ Serving /\ UNCHANGED <<resident, private, seen>>
  BY DEF EnsureChannel, McpAt, Serving
<1>2. /\ private' \in [lease : 0 .. MaxBindings, context : Scopes]
      /\ seen \subseteq (DOMAIN issued) \X Scopes
  BY <1>1, McpTypes DEF McpIInv, McpTypeOK
<1>3. CASE handle.channel # 0
  <2>1. Goto("renew") /\ UNCHANGED <<issued, live, handle, held>>
    BY <1>3 DEF EnsureChannel
  <2> QED BY <1>1, <1>2, <2>1, ProcessTurns DEF Pcs
<1>4. CASE handle.channel = 0 /\ ~handle.initial
  <2>1. Answers("withheld", NoWorkline) /\ UNCHANGED <<issued, live, handle, held>>
    BY <1>4 DEF EnsureChannel
  <2>2. /\ mcp' \in Requests /\ mcp'.pc = "rest" /\ mcp'.launched = mcp.launched
        /\ mcp'.probed = 0 /\ mcp'.answer.code # "ok"
    BY <2>1, AnswersIs, McpTypes DEF AnswerCodes, Scopes
  <2>3. SeenOK'
    BY <2>2 DEF SeenOK, Told, Asking, Serving, NoStaleScope
  <2>4. mcp'.probed <= resident.instance
    BY <2>2, McpTypes
  <2> QED BY <1>1, <1>2, <2>1, <2>2, <2>3, <2>4, ProcessMoves
<1>5. CASE handle.channel = 0 /\ handle.initial
  <2>1. PICK c \in 0 .. MaxChannels :
          /\ Opens(c)
          /\ IF c = 0 THEN Answers("withheld", NoWorkline) /\ UNCHANGED <<handle, held>>
             ELSE /\ Goto("identify")
                  /\ handle' = [handle EXCEPT !.channel = c]
                  /\ held' = held \cup {c}
    BY <1>5 DEF EnsureChannel
  <2>2. /\ IssuedMore(c)
        /\ \A d \in DOMAIN live' : live'[d] # Free => d \in DOMAIN live /\ live'[d] = live[d]
    BY <2>1, OpensMore
  <2>3. ~mcp.launched /\ \A d \in held : issued[d] < resident.instance
    BY <1>1, <1>5 DEF McpIInv, ChannelsOK
  <2>4. seen' \subseteq (DOMAIN issued') \X Scopes
    BY <1>1, <1>2, <2>2 DEF IssuedMore
  <2>5. /\ mcp' \in Requests /\ mcp'.launched = mcp.launched
        /\ c = 0 => mcp'.pc = "rest" /\ mcp'.probed = 0 /\ mcp'.answer.code # "ok"
        /\ c # 0 => /\ mcp'.pc = "identify" /\ mcp'.kind = mcp.kind
                    /\ mcp'.reply = mcp.reply /\ mcp'.asked = mcp.asked
                    /\ mcp'.probed = mcp.probed /\ mcp'.answer = mcp.answer
    BY <2>1, AnswersIs, GotoIs, McpTypes DEF AnswerCodes, Scopes, Pcs
  <2>6. SeenOK'
    <3>1. CASE c = 0
      BY <2>5, <3>1 DEF SeenOK, Told, Asking, Serving, NoStaleScope
    <3>2. CASE c # 0
      BY <1>1, <2>2, <2>5, <3>2 DEF McpIInv, SeenOK, Told, Asking, Serving, NoStaleScope
    <3> QED BY <3>1, <3>2
  <2>7. PICK h \in Handles : h = handle
    BY McpTypes DEF Handles
  <2>8. PICK n \in Handles : /\ n = [h EXCEPT !.channel = c]
                             /\ n.channel = c /\ n.instance = h.instance
    <3>1. PICK n : n = [h EXCEPT !.channel = c]
      OBVIOUS
    <3>2. n \in Handles /\ n.channel = c /\ n.instance = h.instance
      BY <3>1 DEF Handles
    <3> QED BY <3>1, <3>2
  <2>9. /\ handle' \in Handles /\ handle'.channel = c /\ handle'.instance = handle.instance
        /\ held' = held \cup ({c} \ {0})
    BY <1>5, <2>1, <2>7, <2>8
  <2>10. mcp'.probed <= resident.instance /\ handle'.instance <= resident.instance
    BY <2>5, <2>9, McpTypes DEF McpIInv, ChannelsOK
  <2>11. \/ mcp'.pc = "identify"
         \/ c = 0 /\ (handle'.instance = 0 \/ \A d \in held : issued[d] <= handle'.instance)
    BY <1>1, <2>5, <2>9 DEF McpIInv, ChannelsOK
  <2>12. mcp'.pc \notin {"start", "reopen"}
    BY <2>5
  <2>13. resident' \in Brokers /\ resident'.instance = resident.instance
    BY <1>1, McpTypes
  <2> QED BY <1>2, <2>2, <2>3, <2>4, <2>5, <2>6, <2>9, <2>10, <2>11, <2>12, <2>13, HandleMoves
<1> QED BY <1>3, <1>4, <1>5

\* The channel of a broker that is no more is replaced.
LEMMA ReopenKeeps ==
  ASSUME McpIInv, Reopen
  PROVE  McpIInv'
<1>1. /\ mcp.pc = "reopen" /\ Serving /\ UNCHANGED <<resident, seen>>
      /\ Told \/ ~Asking
  BY DEF Reopen, McpAt, Serving, Told
<1>2. seen \subseteq (DOMAIN issued) \X Scopes
  BY DEF McpIInv, McpTypeOK
<1>3. CASE ~MayReopen
  <2>1. Goto("settle") /\ UNCHANGED <<issued, live, handle, private, held>>
    BY <1>3 DEF Reopen
  <2> QED BY <1>1, <2>1, McpTypes, ProcessTurns DEF Pcs
<1>4. CASE MayReopen
  <2>1. PICK c \in 0 .. MaxChannels :
          /\ Opens(c)
          /\ handle' = [handle EXCEPT !.channel = c]
          /\ held' = held \cup ({c} \ {0})
          /\ Goto(IF c = 0 THEN "settle" ELSE "reidentify")
          /\ private' = IF c # 0 /\ mcp.kind # "status"
                        THEN [lease |-> 0, context |-> NoWorkline] ELSE private
    BY <1>4 DEF Reopen
  <2>2. /\ IssuedMore(c)
        /\ \A d \in DOMAIN live' : live'[d] # Free => d \in DOMAIN live /\ live'[d] = live[d]
    BY <2>1, OpensMore
  <2>3. ~mcp.launched /\ \A d \in held : issued[d] < resident.instance
                                         /\ issued[d] <= handle.instance
    <3>1. /\ handle.reopen /\ handle.instance # 0 /\ mcp.probed # 0
          /\ mcp.probed # handle.instance
      BY <1>4 DEF MayReopen, InstanceChanged, SomeInstance
    <3>2. handle.instance < mcp.probed /\ mcp.probed <= resident.instance
      BY <1>1, <3>1, McpTypes DEF McpIInv, ChannelsOK
    <3> QED BY <1>1, <3>1, <3>2, McpTypes DEF McpIInv, ChannelsOK
  <2>4. seen' \subseteq (DOMAIN issued') \X Scopes
    BY <1>1, <1>2, <2>2 DEF IssuedMore
  <2>5. PICK p \in Pcs : p = (IF c = 0 THEN "settle" ELSE "reidentify")
    BY DEF Pcs
  <2>6. /\ mcp' \in Requests /\ mcp'.launched = mcp.launched /\ mcp'.pc = p
        /\ mcp'.kind = mcp.kind /\ mcp'.reply = mcp.reply /\ mcp'.asked = mcp.asked
        /\ mcp'.probed = mcp.probed /\ mcp'.answer = mcp.answer
    BY <2>1, <2>5, GotoIs, McpTypes
  <2>7. SeenOK'
    BY <1>1, <2>2, <2>5, <2>6 DEF McpIInv, SeenOK, Told, Asking, Serving, NoStaleScope
  <2>8. PICK h \in Handles : h = handle
    BY McpTypes DEF Handles
  <2>9. PICK n : n = [h EXCEPT !.channel = c]
    OBVIOUS
  <2>10. n \in Handles /\ n.channel = c /\ n.instance = h.instance
    BY <2>9 DEF Handles
  <2>11. handle' = n
    BY <2>1, <2>8, <2>9
  <2>12. private' \in [lease : 0 .. MaxBindings, context : Scopes]
    <3>1. 0 \in 0 .. MaxBindings /\ NoWorkline \in Scopes
      BY McpAssumption DEF Scopes
    <3> QED BY <2>1, <3>1, McpTypes
  <2>13. mcp'.probed <= resident.instance /\ handle'.instance <= resident.instance
    BY <2>6, <2>8, <2>10, <2>11 DEF McpIInv, ChannelsOK
  <2>14. resident' \in Brokers /\ resident'.instance = resident.instance
    BY <1>1, McpTypes
  <2> QED
    BY <2>1, <2>2, <2>3, <2>4, <2>5, <2>6, <2>7, <2>8, <2>10, <2>11, <2>12, <2>13, <2>14,
       HandleMoves
<1> QED BY <1>3, <1>4

\* The process ends.
LEMMA CloseKeeps ==
  ASSUME McpIInv, CloseHandle \/ CloseChannelOnce
  PROVE  McpIInv'
<1>1. PICK b \in Requests : b = mcp
  BY McpTypes
<1>2. CASE CloseHandle
  <2>1. PICK h \in Handles : h = handle
    BY McpTypes DEF Handles
  <2>2. PICK c \in 0 .. MaxChannels : c = h.channel
    BY DEF Handles
  <2>3. PICK n : n = [b EXCEPT !.pc = "close", !.asked = c]
    OBVIOUS
  <2>4. /\ n \in Requests /\ n.pc = "close" /\ n.launched = b.launched
        /\ n.probed = b.probed /\ n.answer = b.answer
    BY <2>3 DEF Requests
  <2>5. PICK k : k = [h EXCEPT !.closed = TRUE, !.channel = 0]
    OBVIOUS
  <2>6. /\ k \in Handles /\ k.channel = 0 /\ k.instance = h.instance /\ k.reopen = h.reopen
        /\ k.initial = h.initial
    <3>1. 0 \in 0 .. MaxChannels
      BY McpAssumption
    <3> QED BY <2>5, <3>1 DEF Handles
  <2>7. /\ mcp' = n /\ handle' = k /\ mcp.pc = "rest"
        /\ UNCHANGED <<resident, issued, live, private, held, seen>>
    BY <1>1, <1>2, <2>1, <2>2, <2>3, <2>5 DEF CloseHandle, McpAt
  <2>8. McpTypeOK'
    BY <2>4, <2>6, <2>7 DEF McpIInv, McpTypeOK, Handles
  <2>9. SeenOK'
    BY <1>1, <2>4, <2>7 DEF McpIInv, SeenOK, Told, Asking, Serving, NoStaleScope
  <2>10. ChannelsOK'
    BY <1>1, <2>1, <2>4, <2>6, <2>7 DEF McpIInv, ChannelsOK
  <2> QED BY <2>8, <2>9, <2>10 DEF McpIInv
<1>3. CASE CloseChannelOnce
  <2>1. /\ mcp.pc = "close" /\ Goto("ended")
        /\ live' \in {live, Without(live, mcp.asked)}
        /\ UNCHANGED <<resident, issued, handle, private, held, seen>>
    BY <1>3 DEF CloseChannelOnce, McpAt
  <2>2. /\ mcp' \in Requests /\ mcp'.pc = "ended" /\ mcp'.launched = mcp.launched
        /\ mcp'.probed = mcp.probed /\ mcp'.answer = mcp.answer
    BY <2>1, McpTypes, GotoIs DEF Pcs
  <2>3. live' \in [DOMAIN live' -> Leases] /\ DOMAIN live' \subseteq DOMAIN issued
    BY <2>1 DEF McpIInv, McpTypeOK, Without
  <2>4. McpTypeOK'
    BY <2>1, <2>2, <2>3 DEF McpIInv, McpTypeOK
  <2>5. SeenOK'
    BY <2>1, <2>2 DEF McpIInv, SeenOK, Told, Asking, Serving, NoStaleScope
  <2>6. ChannelsOK'
    BY <2>1, <2>2 DEF McpIInv, ChannelsOK
  <2> QED BY <2>4, <2>5, <2>6 DEF McpIInv
<1> QED BY <1>2, <1>3

\* No process is there yet.
LEMMA McpInitHolds ==
  ASSUME McpInit
  PROVE  McpIInv
<1>1. /\ 1 \in 1 .. MaxInstances /\ 0 \in 0 .. MaxInstances /\ 0 \in 0 .. MaxBindings
      /\ 0 \in 0 .. MaxChannels /\ 0 <= MaxChannels /\ NoWorkline \in Scopes
  BY McpAssumption DEF Scopes
<1>2. TRUE \in BOOLEAN /\ FALSE \in BOOLEAN
  BY Zenon
<1>3. resident \in Brokers /\ resident.instance = 1
  BY <1>1, <1>2 DEF McpInit, Brokers
<1>4. issued \in Seq(1 .. MaxInstances) /\ Len(issued) = 0 /\ Len(issued) <= MaxChannels
  BY <1>1 DEF McpInit
<1>5. live \in [DOMAIN live -> Leases] /\ DOMAIN live = {}
  BY DEF McpInit
<1>6. /\ mcp \in Requests /\ mcp.pc = "start" /\ ~mcp.launched /\ mcp.probed = 0
      /\ mcp.answer.code = "none"
  <2>1. PICK r \in Replies : r = NoReply
    BY ReplyIs DEF NoReply
  <2>2. PICK a : a = NoAnswer
    OBVIOUS
  <2>3. /\ a \in [code : AnswerCodes, channel : 0 .. MaxChannels, workline : Scopes]
        /\ a.code = "none"
    BY <1>1, <2>2 DEF NoAnswer, AnswerCodes
  <2> QED BY <1>1, <1>2, <2>1, <2>2, <2>3 DEF McpInit, Requests, AnswerCodes
<1>7. handle \in Handles /\ handle.channel = 0 /\ handle.instance = 0 /\ ~handle.reopen
  BY <1>1, <1>2 DEF McpInit, Handles
<1>8. /\ private \in [lease : 0 .. MaxBindings, context : Scopes]
      /\ held = {} /\ seen = {}
  BY <1>1 DEF McpInit
<1>9. McpTypeOK
  BY <1>3, <1>4, <1>5, <1>6, <1>7, <1>8 DEF McpTypeOK, Brokers, Handles
<1>10. SeenOK
  BY <1>6 DEF SeenOK, Told, Asking, Serving, NoStaleScope
<1>11. ChannelsOK
  BY <1>3, <1>6, <1>7, <1>8 DEF ChannelsOK
<1> QED BY <1>9, <1>10, <1>11 DEF McpIInv

\* The inductive invariant of the MCP process.
THEOREM McpInvariance == McpSpec => []McpIInv
<1>1. McpInit => McpIInv
  BY McpInitHolds
<1>2. McpIInv /\ [McpNext]_mcpVars => McpIInv'
  <2> SUFFICES ASSUME McpIInv, [McpNext]_mcpVars
               PROVE  McpIInv'
    OBVIOUS
  <2>1. ASSUME NEW kind \in {"tool", "read"}, ToolRequest(kind)
        PROVE McpIInv'
    BY <2>1, BeginsKeeps DEF ToolRequest
  <2>2. CASE StatusRequest
    BY <2>2, BeginsKeeps DEF StatusRequest
  <2>3. CASE UNCHANGED mcpVars
    <3>1. UNCHANGED <<resident, issued, live, mcp, handle, private, held, seen>>
      BY <2>3 DEF mcpVars
    <3>2. McpTypeOK'
      BY <3>1 DEF McpIInv, McpTypeOK
    <3>3. SeenOK'
      BY <3>1 DEF McpIInv, SeenOK, Told, Asking, Serving, NoStaleScope
    <3>4. ChannelsOK'
      BY <3>1 DEF McpIInv, ChannelsOK
    <3> QED BY <3>2, <3>3, <3>4 DEF McpIInv
  <2> QED
    BY <2>1, <2>2, <2>3, BrokerKeeps, StartKeeps, IdentifyKeeps, DispatchKeeps, EnsureKeeps,
       RenewKeeps, AskKeeps, ProbeKeeps, ReopenKeeps, SettleKeeps, RefreshKeeps, CloseKeeps
    DEF McpNext
<1> QED BY <1>1, <1>2, PTL DEF McpSpec

\* Every variable of the MCP process and of its broker keeps its type.
THEOREM McpTypeCorrect == McpSpec => []McpTypeOK
<1>1. McpIInv => McpTypeOK
  BY DEF McpIInv
<1> QED BY <1>1, McpInvariance, PTL

\* The process answers for a workline only what its channel was bound to while the
\* request ran, and replaces a channel only after the broker restarted
\* (BrokerScopeProvider, reopen_after_restart).
THEOREM ScopeOwn == McpSpec => []ScopeIsItsOwn
<1>1. McpIInv => ScopeIsItsOwn
  <2> SUFFICES ASSUME McpIInv
               PROVE  ScopeIsItsOwn
    OBVIOUS
  <2>1. mcp.launched => Cardinality(held) <= 1
    <3> HAVE mcp.launched
    <3>1. \A c, d \in held : c = d
      BY DEF McpIInv, ChannelsOK
    <3>2. CASE held = {}
      BY <3>2, FS_EmptySet
    <3>3. CASE held # {}
      <4>1. PICK c : held = {c}
        BY <3>1, <3>3
      <4> QED BY <4>1, FS_Singleton
    <3> QED BY <3>2, <3>3
  <2> QED BY <2>1 DEF McpIInv, ChannelsOK, SeenOK, ScopeIsItsOwn, OneChannelPerBroker
<1> QED BY <1>1, McpInvariance, PTL
=============================================================================
