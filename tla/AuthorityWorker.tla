-------------------------- MODULE AuthorityWorker --------------------------
(***************************************************************************)
(* The warm authority of turn_close_dispatcher.py: _AuthorityWorker, a     *)
(* resident process that runs the contract's script for one request after  *)
(* the other, and _invoke_warm_authority, which replaces it when the       *)
(* package changes on disk.                                                *)
(*                                                                         *)
(* A channel is one _AuthorityWorker; its lock is held by the caller that  *)
(* waits for an answer, and every shorter section under it is one action.  *)
(* The comments of the class provide for several calling threads.  A       *)
(* channel has one reaper thread at a time, and those it detached still    *)
(* run.  That a process is dead when _terminate_process_tree returns is    *)
(* assumed; what one that survives may still write is in TurnClose.        *)
(***************************************************************************)
EXTENDS Naturals, Sequences, Functions

CONSTANTS Invoker,     \* the threads that invoke the authority
          NoInvoker,
          Stamped,     \* the files whose stamps are read, in this order: the manifest,
                       \* the contract's script, the worker's script
          MaxRequests, \* requests a process serves (64)
          MaxUpdates, MaxWorkers, MaxReapers \* bounds: files replaced, channels, threads

ASSUME WorkerAssumption ==
    /\ NoInvoker \notin Invoker
    /\ Stamped \in Seq({"manifest", "contract", "worker"})
    /\ \E i \in DOMAIN Stamped : Stamped[i] = "worker"
    /\ MaxRequests \in Nat \ {0}
    /\ {MaxUpdates, MaxWorkers, MaxReapers} \subseteq Nat

VARIABLES package,  \* the version on disk of each file that makes the stamp
          routed,   \* _AUTHORITY_CHANNEL and _AUTHORITY_CHANNEL_KEY
          workers,  \* the channels: the process of each
          reapers,  \* the reaper threads, in the order they were started
          invokers  \* where each thread is: its stamp, its channel, the one it replaced

workerVars == <<package, routed, workers, reapers, invokers>>

PackageFile == {Stamped[i] : i \in DOMAIN Stamped}
Unread == [f \in PackageFile |-> 0]
NoChannel == 0

NoProcess == [process |-> "none", script |-> 0, job |-> NoInvoker,
              answered |-> FALSE, requests |-> 0, idle |-> FALSE]
Started == [NoProcess EXCEPT !.process = "starting"]
Resting == [pc |-> "rest", key |-> Unread, channel |-> NoChannel, previous |-> NoChannel]

\* _shutdown_locked: the process tree is terminated and waited for.
Terminated(w) == [workers EXCEPT ![w] = NoProcess]

Held(w) == \E c \in Invoker : invokers[c].pc = "waiting" /\ invokers[c].channel = w
Resident(w) == workers[w].process \in {"starting", "ready"}

(***************************************************************************)
(* The resident process and time.                                          *)
(***************************************************************************)

\* The package is replaced on disk, file by file.
FileReplaced(f) ==
    /\ FoldFunction(+, 0, package) < Len(Stamped) + MaxUpdates
    /\ package' = [package EXCEPT ![f] = @ + 1]
    /\ UNCHANGED <<routed, workers, reapers, invokers>>

\* The process reads the worker's script once, some time after it was started.
LoadsScript(w) ==
    /\ workers[w].process = "starting"
    /\ workers' = [workers EXCEPT ![w].process = "ready", ![w].script = package["worker"]]
    /\ UNCHANGED <<package, routed, reapers, invokers>>

Executes(w) ==
    /\ workers[w].process = "ready" /\ workers[w].job # NoInvoker /\ ~workers[w].answered
    /\ workers' = [workers EXCEPT ![w].answered = TRUE]
    /\ UNCHANGED <<package, routed, reapers, invokers>>

ProcessDies(w) ==
    /\ Resident(w)
    /\ workers' = [workers EXCEPT ![w].process = "dead"]
    /\ UNCHANGED <<package, routed, reapers, invokers>>

\* No request came for _AUTHORITY_WORKER_IDLE_SECONDS.
IdleLongEnough(w) ==
    /\ Resident(w) /\ ~Held(w) /\ ~workers[w].idle
    /\ workers' = [workers EXCEPT ![w].idle = TRUE]
    /\ UNCHANGED <<package, routed, reapers, invokers>>

(***************************************************************************)
(* The reaper.                                                             *)
(***************************************************************************)

\* The thread _reaper points to can go on watching, as _ensure_reaper_locked asks ...
Watches(r) == reapers[r].pc # "gone" /\ ~reapers[r].stop
\* ... or it is merely alive.
IsAlive(r) == reapers[r].pc # "gone"

KeepsReaper(r) == Watches(r)

\* _ensure_reaper_locked: a generation that is stopping is detached and replaced.
EnsureReaper(w) ==
    IF \E r \in DOMAIN reapers : reapers[r].of = w /\ reapers[r].current /\ KeepsReaper(r)
    THEN UNCHANGED reapers
    ELSE /\ Len(reapers) < MaxReapers
         /\ reapers' = Append([r \in DOMAIN reapers |->
                                 [reapers[r] EXCEPT !.current = @ /\ reapers[r].of # w]],
                              [of |-> w, pc |-> "sleep", stop |-> FALSE, current |-> TRUE])

\* A sleep ends with the stop event, or by itself.
ReaperWakes(r) ==
    /\ reapers[r].pc = "sleep"
    /\ reapers' = [reapers EXCEPT ![r].pc = IF reapers[r].stop THEN "gone" ELSE "awake"]
    /\ UNCHANGED <<package, routed, workers, invokers>>

\* _reap_idle, once it has the lock: whatever generation it is, and whatever
\* process the channel has by now.
ReapIdle(r) ==
    LET w == reapers[r].of
    IN  /\ reapers[r].pc = "awake" /\ ~Held(w)
        /\ IF Resident(w) /\ ~workers[w].idle
           THEN /\ reapers' = [reapers EXCEPT ![r].pc = "sleep"]
                /\ UNCHANGED workers
           ELSE /\ workers' = Terminated(w)
                /\ reapers' = [reapers EXCEPT ![r] =
                                 [@ EXCEPT !.pc = "gone", !.stop = TRUE, !.current = FALSE]]
        /\ UNCHANGED <<package, routed, invokers>>

(***************************************************************************)
(* _invoke_warm_authority: the stamp, the channel, the one it replaces.    *)
(***************************************************************************)

\* The stamps of the files are read one by one.
ReadStamp(c, i) ==
    LET f == Stamped[i]
    IN  /\ invokers[c].pc = "rest" /\ invokers[c].key[f] = 0
        /\ \A j \in 1..i - 1 : invokers[c].key[Stamped[j]] # 0
        /\ invokers' = [invokers EXCEPT ![c].key[f] = package[f],
                          ![c].pc = IF i = Len(Stamped) THEN "route" ELSE "rest"]
        /\ UNCHANGED <<package, routed, workers, reapers>>

\* Under _AUTHORITY_CHANNEL_LOCK: another stamp makes another channel.
TakeChannel(c) ==
    LET key == invokers[c].key
    IN  /\ invokers[c].pc = "route"
        /\ IF routed.channel = NoChannel \/ routed.key # key
           THEN /\ Len(workers) < MaxWorkers
                /\ workers' = Append(workers, NoProcess)
                /\ routed' = [channel |-> Len(workers'), key |-> key]
                /\ invokers' = [invokers EXCEPT ![c] =
                     [@ EXCEPT !.pc = IF routed.channel = NoChannel THEN "invoke" ELSE "replace",
                               !.channel = Len(workers'), !.previous = routed.channel]]
           ELSE /\ invokers' = [invokers EXCEPT ![c] =
                     [@ EXCEPT !.pc = "invoke", !.channel = routed.channel]]
                /\ UNCHANGED <<workers, routed>>
        /\ UNCHANGED <<package, reapers>>

\* _shutdown_authority_channel empties the table first.
DropChannel(c) ==
    /\ invokers[c] = Resting /\ routed.channel # NoChannel
    /\ routed' = [channel |-> NoChannel, key |-> Unread]
    /\ invokers' = [invokers EXCEPT ![c] =
                      [@ EXCEPT !.pc = "replace", !.previous = routed.channel]]
    /\ UNCHANGED <<package, workers, reapers>>

\* shutdown of a channel no longer in the table: its lock is waited for, and
\* a thread that took the channel before may still use it afterwards.
ShutDown(c) ==
    LET w == invokers[c].previous
    IN  /\ invokers[c].pc = "replace" /\ ~Held(w)
        /\ reapers' = [r \in DOMAIN reapers |->
             [reapers[r] EXCEPT !.stop = @ \/ (reapers[r].of = w /\ reapers[r].current)]]
        /\ workers' = Terminated(w)
        /\ invokers' = [invokers EXCEPT ![c] =
             IF @.channel = NoChannel THEN Resting ELSE [@ EXCEPT !.pc = "invoke"]]
        /\ UNCHANGED <<package, routed>>

(***************************************************************************)
(* invoke.                                                                 *)
(***************************************************************************)

\* The process there is serves the request too.
Reusable(w) == Resident(w) /\ ~workers[w].idle /\ workers[w].requests < MaxRequests

\* A process is started if need be, the request written; the lock stays held.
SendRequest(c) ==
    LET w == invokers[c].channel
    IN  /\ invokers[c].pc = "invoke" /\ ~Held(w)
        /\ IF Reusable(w) THEN UNCHANGED reapers ELSE EnsureReaper(w)
        /\ workers' = [workers EXCEPT ![w] =
             [IF Reusable(w) THEN @ ELSE Started EXCEPT !.job = c]]
        /\ invokers' = [invokers EXCEPT ![c].pc = "waiting"]
        /\ UNCHANGED <<package, routed>>

\* No process could be started, or a new or old one did not take the request:
\* the caller goes the cold way.
RequestRefused(c) ==
    LET w == invokers[c].channel
    IN  /\ invokers[c].pc = "invoke" /\ ~Held(w)
        /\ UNCHANGED reapers \/ (~Reusable(w) /\ EnsureReaper(w))
        /\ workers' = Terminated(w)
        /\ invokers' = [invokers EXCEPT ![c] = Resting]
        /\ UNCHANGED <<package, routed>>

TakeResult(c) ==
    LET w == invokers[c].channel
    IN  /\ invokers[c].pc = "waiting" /\ workers[w].answered
        /\ workers' = [workers EXCEPT ![w].job = NoInvoker, ![w].answered = FALSE,
                                      ![w].requests = @ + 1, ![w].idle = FALSE]
        /\ invokers' = [invokers EXCEPT ![c] = Resting]
        /\ UNCHANGED <<package, routed, reapers>>

\* No answer in time, an answer that is none, or the end of its output.
GiveUp(c) ==
    /\ invokers[c].pc = "waiting"
    /\ workers' = Terminated(invokers[c].channel)
    /\ invokers' = [invokers EXCEPT ![c] = Resting]
    /\ UNCHANGED <<package, routed, reapers>>

WorkerInit ==
    /\ package = [f \in PackageFile |-> 1]
    /\ routed = [channel |-> NoChannel, key |-> Unread]
    /\ workers = <<>> /\ reapers = <<>>
    /\ invokers = [c \in Invoker |-> Resting]

WorkerNext ==
    \/ \E f \in PackageFile : FileReplaced(f)
    \/ \E w \in DOMAIN workers :
         LoadsScript(w) \/ Executes(w) \/ ProcessDies(w) \/ IdleLongEnough(w)
    \/ \E r \in DOMAIN reapers : ReaperWakes(r) \/ ReapIdle(r)
    \/ \E c \in Invoker :
         \/ \E i \in DOMAIN Stamped : ReadStamp(c, i)
         \/ TakeChannel(c) \/ DropChannel(c) \/ ShutDown(c)
         \/ SendRequest(c) \/ RequestRefused(c) \/ TakeResult(c) \/ GiveUp(c)

WorkerSpec == WorkerInit /\ [][WorkerNext]_workerVars

(***************************************************************************)
(* Properties.                                                             *)
(***************************************************************************)

Key == [PackageFile -> Nat]
ChannelNumber == 0..MaxWorkers

WorkerTypeOK ==
    /\ package \in Key
    /\ routed \in [channel : ChannelNumber, key : Key]
    /\ Len(workers) <= MaxWorkers
    /\ \A w \in DOMAIN workers :
         workers[w] \in [process : {"none", "starting", "ready", "dead"},
                         script : Nat, job : Invoker \cup {NoInvoker},
                         answered : BOOLEAN, requests : 0..MaxRequests, idle : BOOLEAN]
    /\ Len(reapers) <= MaxReapers
    /\ \A r \in DOMAIN reapers :
         reapers[r] \in [of : DOMAIN workers, pc : {"sleep", "awake", "gone"},
                         stop : BOOLEAN, current : BOOLEAN]
    /\ invokers \in [Invoker ->
         [pc : {"rest", "route", "replace", "invoke", "waiting"}, key : Key,
          channel : ChannelNumber, previous : ChannelNumber]]

\* A thread still watches each channel that has a process.
Watched(w) == \E r \in DOMAIN reapers : reapers[r].of = w /\ Watches(r)

\* A process runs only while a thread watches it, of the channels that were replaced or
\* dropped too; it works for nobody but the thread that waits for it, and never with a
\* worker's script older than the one that thread found on disk.
ResidentIsWatchedAndCurrent ==
    \A w \in DOMAIN workers :
      LET worker == workers[w]
      IN  /\ worker.process # "none" => Watched(w)
          /\ worker.job # NoInvoker =>
               /\ invokers[worker.job].pc = "waiting" /\ invokers[worker.job].channel = w
               /\ worker.process = "ready" =>
                    worker.script >= invokers[worker.job].key["worker"]
=============================================================================
