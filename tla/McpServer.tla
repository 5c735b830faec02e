------------------------------ MODULE McpServer ------------------------------
(***************************************************************************)
(* One stdio MCP process and its private channel to the scope broker:      *)
(* brain_mcp.py (start, serve, dispatch, end), BrokerChannelHandle and     *)
(* BrokerScopeProvider of scope_provider.py, the health of the transport   *)
(* (mcp_transport_health.py), the guards of brain_core.py.                 *)
(*                                                                         *)
(* The process answers one request after the other, each with several      *)
(* calls of the broker; between two of them the broker may restart, close  *)
(* the channel, bind it to another workline or let its lease expire.  An   *)
(* answer of the broker may get lost.                                      *)
(***************************************************************************)
EXTENDS Naturals, FiniteSets, Sequences

CONSTANTS Workline,  \* what a channel may be bound to
          NoWorkline,
          MaxInstances, MaxChannels, MaxBindings \* bounds

ASSUME McpAssumption == /\ NoWorkline \notin Workline /\ Workline # {}
                        /\ MaxInstances \in Nat \ {0}
                        /\ MaxChannels \in Nat /\ MaxBindings \in Nat

VARIABLES resident, \* the broker: its instance, whether it runs, bindings made;
                    \* the package on disk: whether it was replaced
          issued,   \* the instance that issued each channel
          live,     \* the channels it knows: workline and lease of each
          mcp,      \* the process: its launch, where its request is
          handle,   \* BrokerChannelHandle
          private,  \* the provider's lease and last_context
          held,     \* history: channels the handle held
          seen      \* history: bindings that stood since the request came in

mcpVars == <<resident, issued, live, mcp, handle, private, held, seen>>

Free == [workline |-> NoWorkline, lease |-> 0]
Reply(code, workline, lease) == [code |-> code, workline |-> workline, lease |-> lease]
NoReply == Reply("none", NoWorkline, 0)
Unavailable == Reply("unavailable", NoWorkline, 0)

McpAt(pc) == mcp.pc = pc
Goto(pc) == mcp' = [mcp EXCEPT !.pc = pc]

Running == IF resident.up THEN resident.instance ELSE 0
Without(f, x) == [y \in DOMAIN f \ {x} |-> f[y]]
Put(f, x, v) == [y \in DOMAIN f \cup {x} |-> IF y = x THEN v ELSE f[y]]

(***************************************************************************)
(* The broker and its control surface, as the process sees them.           *)
(***************************************************************************)

BrokerStarts ==
    /\ ~resident.up /\ resident.instance < MaxInstances
    /\ resident' = [resident EXCEPT !.up = TRUE, !.instance = @ + 1]
    /\ UNCHANGED <<issued, live, mcp, handle, private, held, seen>>

BrokerStops ==
    /\ resident.up
    /\ resident' = [resident EXCEPT !.up = FALSE]
    /\ live' = <<>>
    /\ UNCHANGED <<issued, mcp, handle, private, held, seen>>

ChannelBound(c, w) ==
    /\ c \in DOMAIN live /\ resident.bindings < MaxBindings
    /\ resident' = [resident EXCEPT !.bindings = @ + 1]
    /\ live' = [live EXCEPT ![c] = [workline |-> w, lease |-> resident'.bindings]]
    /\ seen' = IF McpAt("rest") \/ mcp.kind = "status" THEN seen ELSE seen \cup {<<c, w>>}
    /\ UNCHANGED <<issued, mcp, handle, private, held>>

LeaseExpires(c) ==
    /\ c \in DOMAIN live /\ live[c] # Free
    /\ live' = [live EXCEPT ![c] = Free]
    /\ UNCHANGED <<resident, issued, mcp, handle, private, held, seen>>

ChannelRevoked(c) ==
    /\ c \in DOMAIN live
    /\ live' = Without(live, c)
    /\ UNCHANGED <<resident, issued, mcp, handle, private, held, seen>>

\* What authorize and status answer.
Authorize(c) ==
    IF ~resident.up THEN Unavailable
    ELSE IF c \notin DOMAIN live THEN Reply("unknown", NoWorkline, 0)
    ELSE IF live[c] = Free THEN Reply("unbound", NoWorkline, 0)
    ELSE Reply("ok", live[c].workline, live[c].lease)

\* An open call: the channel the caller learns of, 0 when there is none.
Opens(c) ==
    \/ c = 0 /\ UNCHANGED <<issued, live>>
    \/ /\ resident.up /\ Len(issued) < MaxChannels
       /\ c \in {0, Len(issued) + 1}  \* 0: opened, and the answer is lost
       /\ issued' = Append(issued, resident.instance)
       /\ live' = Put(live, Len(issued) + 1, Free)

(***************************************************************************)
(* Start: a direct process opens a channel, a launched one bootstraps a    *)
(* bound channel or stays without one.                                     *)
(***************************************************************************)
Holds(c, reopen, initial) ==
    /\ handle' = [channel |-> c, instance |-> 0, closed |-> FALSE,
                  reopen |-> reopen, initial |-> initial]
    /\ held' = {c} \ {0}

StartDirect ==
    /\ McpAt("start")
    /\ \E c \in 0 .. MaxChannels : Opens(c) /\ Holds(c, TRUE, TRUE)
    /\ Goto("construct")
    /\ UNCHANGED <<resident, private, seen>>

\* bootstrap_local_mcp_channel: the workline of the contract that is current.
OwnWorkline == CHOOSE w \in Workline : TRUE
StartLaunched ==
    /\ McpAt("start")
    /\ mcp' = [mcp EXCEPT !.pc = "construct", !.launched = TRUE]
    /\ \/ /\ Holds(0, FALSE, FALSE)
          /\ UNCHANGED <<resident, issued, live>>
       \/ /\ resident.up /\ Len(issued) < MaxChannels
          /\ resident.bindings < MaxBindings
          /\ resident' = [resident EXCEPT !.bindings = @ + 1]
          /\ issued' = Append(issued, resident.instance)
          /\ live' = Put(live, Len(issued'),
                         [workline |-> OwnWorkline, lease |-> resident'.bindings])
          /\ Holds(Len(issued'), FALSE, TRUE)
    /\ UNCHANGED <<private, seen>>

\* _current_instance_id: none when the broker does not answer the health check,
\* or its endpoint is not found.
CurrentInstanceIds == {0, Running}

\* The handle asks for the instance after its channel was opened.
Identify(from, to) ==
    /\ McpAt(from)
    /\ \E instance \in CurrentInstanceIds :
         handle' = [handle EXCEPT !.instance = instance]
    /\ Goto(to)
    /\ UNCHANGED <<resident, issued, live, private, held, seen>>

(***************************************************************************)
(* Requests.                                                               *)
(***************************************************************************)
NoAnswer == [code |-> "none", channel |-> 0, workline |-> NoWorkline]
Answers(code, workline) ==
    mcp' = [mcp EXCEPT !.pc = "rest", !.kind = "tool", !.reply = NoReply,
                       !.asked = 0, !.probed = 0,
                       !.answer = IF mcp.kind = "status" THEN NoAnswer
                                  ELSE [code |-> code, channel |-> mcp.asked,
                                        workline |-> workline]]

\* A request comes in: a turn ("tool") or a read of the scope's own cards, its
\* tail or a hand-off ("read"); "status" looks at the health only.
Begins(kind, at) ==
    /\ McpAt("rest")
    /\ mcp' = [mcp EXCEPT !.pc = at, !.kind = kind, !.answer = NoAnswer]
    /\ seen' = IF kind = "status" THEN {} ELSE {<<c, live[c].workline>> : c \in DOMAIN live}
    /\ UNCHANGED <<resident, issued, live, handle, private, held>>

\* A tool is refused, with the state of the scope, when the package on disk is
\* no longer the one that was loaded.
ToolRequest(kind) ==
    IF resident.replaced THEN Begins("status", "ensure") ELSE Begins(kind, "dispatch")

\* The identity is read once more: a package replaced since the first look sends
\* the request to a fresh process (_run_current_cli_bridge).
Dispatch ==
    /\ McpAt("dispatch")
    /\ IF resident.replaced THEN Answers("bridged", NoWorkline) ELSE Goto("ensure")
    /\ UNCHANGED <<resident, issued, live, handle, private, held, seen>>

PackageReplaced ==
    /\ ~resident.replaced
    /\ resident' = [resident EXCEPT !.replaced = TRUE]
    /\ UNCHANGED <<issued, live, mcp, handle, private, held, seen>>

\* The health of the transport: _channel_status makes the same calls and reports
\* what the last one said, without keeping a lease or a context.
StatusRequest == Begins("status", "ensure")

\* ensure_channel: opens one if there is none and the launch allows it.
EnsureChannel ==
    /\ McpAt("ensure")
    /\ IF handle.channel # 0
       THEN Goto("renew") /\ UNCHANGED <<issued, live, handle, held>>
       ELSE IF ~handle.initial
       THEN Answers("withheld", NoWorkline) /\ UNCHANGED <<issued, live, handle, held>>
       ELSE \E c \in 0 .. MaxChannels :
              /\ Opens(c)
              /\ IF c = 0 THEN Answers("withheld", NoWorkline) /\ UNCHANGED <<handle, held>>
                 ELSE /\ Goto("identify")
                      /\ handle' = [handle EXCEPT !.channel = c]
                      /\ held' = held \cup {c}
    /\ UNCHANGED <<resident, private, seen>>

\* _remember_private_lease: an answer that says the binding is gone clears it.
Remembered(lease, reply) ==
    IF reply.lease # 0 THEN reply.lease
    ELSE IF reply.code \in {"unbound", "unknown", "mismatch"} THEN 0 ELSE lease

LeaseReply(c) ==
    IF Authorize(c).code = "ok" /\ live[c].lease # private.lease
    THEN Reply("mismatch", NoWorkline, 0) ELSE Authorize(c)

\* _renew_if_needed, when the lease is about to expire.
RenewIfNeeded ==
    /\ McpAt("renew")
    /\ \/ UNCHANGED private
       \/ /\ mcp.kind # "status" /\ private.lease # 0
          /\ private' = [private EXCEPT !.lease =
                            Remembered(@, LeaseReply(handle.channel))]
    /\ Goto("ask")
    /\ UNCHANGED <<resident, issued, live, handle, held, seen>>

Ask(from, to) ==
    /\ McpAt(from)
    /\ \E reply \in {Authorize(handle.channel), Unavailable} :
         mcp' = [mcp EXCEPT !.pc = to, !.reply = reply, !.asked = handle.channel]
    /\ UNCHANGED <<resident, issued, live, handle, private, held, seen>>

\* reopen_after_restart looks for the instance before it takes its lock.
Probe ==
    /\ McpAt("probe")
    /\ IF mcp.reply.code = "unknown"
       THEN \E instance \in CurrentInstanceIds :
              mcp' = [mcp EXCEPT !.pc = "reopen", !.probed = instance]
       ELSE Goto("settle")
    /\ UNCHANGED <<resident, issued, live, handle, private, held, seen>>

SomeInstance == handle.instance # 0 /\ mcp.probed # 0
InstanceChanged == SomeInstance /\ mcp.probed # handle.instance
MayReopen == handle.reopen /\ InstanceChanged

\* The old channel is given up first: a failed open leaves none.
Reopen ==
    /\ McpAt("reopen")
    /\ IF ~MayReopen
       THEN Goto("settle") /\ UNCHANGED <<issued, live, handle, private, held>>
       ELSE \E c \in 0 .. MaxChannels :
              /\ Opens(c)
              /\ handle' = [handle EXCEPT !.channel = c]
              /\ held' = held \cup ({c} \ {0})
              /\ Goto(IF c = 0 THEN "settle" ELSE "reidentify")
              /\ private' = IF c # 0 /\ mcp.kind # "status"
                            THEN [lease |-> 0, context |-> NoWorkline] ELSE private
    /\ UNCHANGED <<resident, seen>>

\* The end of _call, or of a status: what is answered is what the last call said.
\* (A turn without a scope is answered with the context of the conversation; a
\* read without one with its status, which _bound_scope_failure_code asks for.)
Settle ==
    /\ McpAt("settle")
    /\ LET reply == mcp.reply
       IN  /\ IF mcp.kind = "read" /\ reply.code # "ok"
              THEN mcp' = [mcp EXCEPT !.pc = "ensure", !.kind = "status", !.reply = NoReply]
              ELSE Answers(reply.code, reply.workline)
           /\ private' = IF mcp.kind = "status" THEN private
                         ELSE [lease |-> Remembered(private.lease, reply),
                               context |-> reply.workline]
           /\ seen' = IF reply.code = "ok" THEN seen ELSE {}
    /\ UNCHANGED <<resident, issued, live, handle, held>>

\* refresh_contract, after a turn has committed its contract.
RefreshContract ==
    /\ McpAt("rest")
    /\ handle.channel # 0 /\ private.lease # 0
    /\ \E reply \in {LeaseReply(handle.channel), Unavailable} :
         private' = [lease |-> Remembered(private.lease, reply),
                     context |-> IF reply.code = "ok" THEN reply.workline
                                                      ELSE private.context]
    /\ UNCHANGED <<resident, issued, live, mcp, handle, held, seen>>

\* The end of the process: the handle is closed, then its channel.
CloseHandle ==
    /\ McpAt("rest")
    /\ mcp' = [mcp EXCEPT !.pc = "close", !.asked = handle.channel]
    /\ handle' = [handle EXCEPT !.closed = TRUE, !.channel = 0]
    /\ UNCHANGED <<resident, issued, live, private, held, seen>>

CloseChannelOnce ==
    /\ McpAt("close")
    /\ Goto("ended")
    /\ live' \in {live, Without(live, mcp.asked)}
    /\ UNCHANGED <<resident, issued, handle, private, held, seen>>

McpInit ==
    /\ resident = [instance |-> 1, up |-> TRUE, bindings |-> 0, replaced |-> FALSE]
    /\ issued = <<>> /\ live = <<>>
    /\ mcp = [pc |-> "start", launched |-> FALSE, kind |-> "tool", reply |-> NoReply,
              asked |-> 0, probed |-> 0,
              answer |-> NoAnswer]
    /\ handle = [channel |-> 0, instance |-> 0, closed |-> FALSE,
                 reopen |-> FALSE, initial |-> FALSE]
    /\ private = [lease |-> 0, context |-> NoWorkline]
    /\ held = {} /\ seen = {}

McpNext ==
    \/ BrokerStarts \/ BrokerStops
    \/ \E c \in DOMAIN live :
         LeaseExpires(c) \/ ChannelRevoked(c) \/ \E w \in Workline : ChannelBound(c, w)
    \/ StartDirect \/ StartLaunched
    \/ Identify("construct", "rest") \/ Identify("identify", "renew")
    \/ Identify("reidentify", "again")
    \/ PackageReplaced
    \/ \E kind \in {"tool", "read"} : ToolRequest(kind)
    \/ StatusRequest \/ Dispatch
    \/ EnsureChannel \/ RenewIfNeeded \/ Ask("ask", "probe") \/ Probe \/ Reopen
    \/ Ask("again", "settle") \/ Settle \/ RefreshContract
    \/ CloseHandle \/ CloseChannelOnce

McpSpec == McpInit /\ [][McpNext]_mcpVars

(***************************************************************************)
(* Properties.                                                             *)
(***************************************************************************)

Leases == {Free} \cup [workline : Workline, lease : 1 .. MaxBindings]
Scopes == Workline \cup {NoWorkline}
Replies == [code : {"none", "unavailable", "unknown", "unbound", "mismatch", "ok"},
            workline : Scopes, lease : 0 .. MaxBindings]
Requests == [pc : {"start", "construct", "rest", "dispatch", "ensure", "identify", "renew",
                   "ask", "probe", "reopen", "reidentify", "again", "settle", "close",
                   "ended"},
             launched : BOOLEAN, kind : {"tool", "read", "status"}, reply : Replies,
             asked : 0 .. MaxChannels, probed : 0 .. MaxInstances,
             answer : [code : {"none", "unavailable", "unknown", "unbound", "mismatch", "ok",
                               "bridged", "withheld"},
                       channel : 0 .. MaxChannels, workline : Scopes]]

McpTypeOK ==
    /\ resident \in [instance : 1 .. MaxInstances, up : BOOLEAN,
                    bindings : 0 .. MaxBindings, replaced : BOOLEAN]
    /\ issued \in Seq(1 .. MaxInstances) /\ Len(issued) <= MaxChannels
    /\ live \in [DOMAIN live -> Leases] /\ DOMAIN live \subseteq DOMAIN issued
    /\ mcp \in Requests
    /\ handle \in [channel : 0 .. MaxChannels, instance : 0 .. MaxInstances,
                   closed : BOOLEAN, reopen : BOOLEAN, initial : BOOLEAN]
    /\ handle.channel # 0 => handle.channel \in held
    /\ private \in [lease : 0 .. MaxBindings, context : Scopes]
    /\ held \subseteq DOMAIN issued
    /\ seen \subseteq (DOMAIN issued) \X Scopes

\* A channel that the broker closed stays closed: the process replaces a channel
\* only after a restart, so it never holds two channels of one broker instance,
\* and a launched process never holds another than the one it bootstrapped.
OneChannelPerBroker ==
    /\ \A c, d \in held : c # d => issued[c] # issued[d]
    /\ mcp.launched => Cardinality(held) <= 1

\* A request is served only for a workline its channel was bound to while the
\* request ran: a channel that was bound anew does not serve its former one.
NoStaleScope ==
    mcp.answer.code = "ok" => <<mcp.answer.channel, mcp.answer.workline>> \in seen

\* What the process answers comes from a channel of its own, as it is bound.
ScopeIsItsOwn == OneChannelPerBroker /\ NoStaleScope
=============================================================================
