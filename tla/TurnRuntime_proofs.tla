-------------------------- MODULE TurnRuntime_proofs --------------------------
(***************************************************************************)
(* Proofs about what the turn runtime keeps beside the contract.           *)
(*                                                                         *)
(* AuthorityWorker, for every set of calling threads and any number of     *)
(* channels, reaper threads, updates and requests.  The inductive          *)
(* invariant is WorkerIInv: types, where a thread can be with which        *)
(* channel, that stamps are never ahead of the package, and what a process *)
(* that loaded its script owes to every thread that was given its channel, *)
(* and to those that will be.                                              *)
(*                                                                         *)
(* FailureLoop, for every set of attempts and fingerprints and every size  *)
(* of the journal.  BudgetIsSpentOnce adds the sizes of two sets, the      *)
(* failures with one receipt and the reservations with it, and is not      *)
(* inductive: the finish of an attempt moves its receipt from one set to   *)
(* the other, and is harmless only because the receipt the attempt carries *)
(* is that of the reservation it gives up.  ReceiptsAreSpent says it of    *)
(* the receipts themselves, OwnersHold ties a reservation to its attempt,  *)
(* and FailuresHold a failure.                                             *)
(*                                                                         *)
(* TurnClose, for every set of calls, processes and transitions and every  *)
(* limit of the ledger.  TransitionsAreTrue speaks of an answer; the       *)
(* invariant TurnIInv follows what it rests on from the process that wrote *)
(* (AttemptsOK) through the ledger, which holds one receipt to an id and   *)
(* nothing that was not written (LedgerOK), to the call (CallsOK) and what *)
(* was shown (ShownOK).                                                    *)
(*                                                                         *)
(* TurnEvidence, for every set of turns, intents and captures and every    *)
(* size of the journal.  EvidenceIsTraceable looks at a moment with no     *)
(* turn between its two files; TraceOK says what holds in between          *)
(* (one turn is there, its receipt is in its file), EvidenceIsPast that a  *)
(* new receipt has a stamp no event has, and CaptureOK that what the last  *)
(* check of a capture finds was so at its first, because revisions and     *)
(* writes of the journal are counted up.                                   *)
(*                                                                         *)
(* TurnLifecycle, for every set of worklines and progress checkpoints and  *)
(* every number of calls, revisions, versions and moves of others.         *)
(* TurnRestsOnOneRevision looks at the answer; RestsOn follows the view    *)
(* from the looks that made it to the answer: what was on file, projected  *)
(* and proved at some instant stays noted, and a call with an intent to    *)
(* act goes on only from a view that is Sound (an assistant's progress,    *)
(* nothing pending).  For a plan file and proof must have agreed at one    *)
(* instant: they did if the contract is still what was read when the       *)
(* binding reads it again, and until then the view is Unsure.  Remembers   *)
(* says that the contract in view is the one on file or has an older       *)
(* revision; Carries is what all steps share that only take a view along.  *)
(*                                                                         *)
(* WorkDag, for every set of planners and graphs and every number of       *)
(* revisions.  DetectCycle follows the dependencies through a set of       *)
(* visited items; CycleIsFound shows that a graph in which nothing can be  *)
(* worked on first has a cycle it finds, by taking a least set of what is  *)
(* left to visit.  DagIInv says that the file orders the items it is bound *)
(* to, is bound to no contract that has not been, and that a caller which  *)
(* knows the file's revision read no older contract than it is bound to.   *)
(***************************************************************************)
EXTENDS AuthorityWorker, FailureLoop, TurnClose, TurnEvidence, TurnLifecycle,
        WorkDag, FiniteSetTheorems, WellFoundedInduction, TLAPS

----------------------------------------------------------------------------
(* The warm authority.                                                     *)

Process == [process : {"none", "starting", "ready", "dead"}, script : Nat,
            job : Invoker \cup {NoInvoker}, answered : BOOLEAN,
            requests : 0..MaxRequests, idle : BOOLEAN]
Reaper == [of : Nat, pc : {"sleep", "awake", "gone"}, stop : BOOLEAN, current : BOOLEAN]

Place == [pc : {"rest", "route", "replace", "invoke", "waiting"}, key : Key,
          channel : ChannelNumber, previous : ChannelNumber]

\* The two tables are sequences; a channel number in use is one of the table.
TablesOK ==
    /\ workers \in Seq(Process) /\ Len(workers) <= MaxWorkers
    /\ reapers \in Seq(Reaper) /\ Len(reapers) <= MaxReapers
    /\ \A r \in DOMAIN reapers : reapers[r].of \in DOMAIN workers
    /\ routed.channel \in 0..Len(workers)

\* What a thread has by the time it is there.
PlaceOK(c) ==
    LET i == invokers[c]
    IN  /\ i.channel \in 0..Len(workers) /\ i.previous \in 0..Len(workers)
        /\ i.pc \in {"rest", "route"} => i.channel = NoChannel
        /\ i.pc = "replace" => i.previous # NoChannel
        /\ i.pc \in {"invoke", "waiting"} => i.channel # NoChannel

\* A process counts a request only after it was let in by Reusable.
RequestsFit ==
    \A w \in DOMAIN workers :
        workers[w].job # NoInvoker \/ workers[w].answered
            => workers[w].requests < MaxRequests

\* A stamp was read from the package, which only moves on.
StampsAreBehind ==
    /\ routed.key["worker"] <= package["worker"]
    /\ \A c \in Invoker : invokers[c].key["worker"] <= package["worker"]

\* A process that loaded its script loaded none older than the stamp its channel
\* was made for: the table's, and that of every thread that took the channel.
ScriptIsCurrent ==
    \A w \in DOMAIN workers : workers[w].process = "ready" =>
        /\ routed.channel = w => workers[w].script >= routed.key["worker"]
        /\ \A c \in Invoker : invokers[c].channel = w
                => workers[w].script >= invokers[c].key["worker"]

\* The two parts of ResidentIsWatchedAndCurrent that are inductive.
ProcessIsWatched == \A w \in DOMAIN workers : workers[w].process # "none" => Watched(w)

JobIsAwaited ==
    \A w \in DOMAIN workers : workers[w].job # NoInvoker =>
        /\ workers[w].job \in Invoker
        /\ invokers[workers[w].job].pc = "waiting"
        /\ invokers[workers[w].job].channel = w

WorkerIInv ==
    /\ package \in Key
    /\ routed \in [channel : ChannelNumber, key : Key]
    /\ invokers \in [Invoker -> Place]
    /\ TablesOK
    /\ \A c \in Invoker : PlaceOK(c)
    /\ RequestsFit /\ StampsAreBehind /\ ScriptIsCurrent
    /\ ProcessIsWatched /\ JobIsAwaited

----------------------------------------------------------------------------
(* The tables. *)

\* Writing one entry of a table leaves a table of the same length.
LEMMA EntryWritten ==
    ASSUME NEW S, NEW s \in Seq(S), NEW i \in DOMAIN s, NEW e \in S
    PROVE  /\ [s EXCEPT ![i] = e] \in Seq(S)
           /\ Len([s EXCEPT ![i] = e]) = Len(s)
           /\ DOMAIN [s EXCEPT ![i] = e] = DOMAIN s
           /\ \A j \in DOMAIN s : [s EXCEPT ![i] = e][j] = IF j = i THEN e ELSE s[j]
OBVIOUS

\* A new entry is the last one.
LEMMA EntryAdded ==
    ASSUME NEW S, NEW s \in Seq(S), NEW e \in S
    PROVE  /\ Append(s, e) \in Seq(S)
           /\ Len(Append(s, e)) = Len(s) + 1
           /\ DOMAIN Append(s, e) = 1..Len(s) + 1
           /\ \A j \in DOMAIN s : Append(s, e)[j] = s[j]
           /\ Append(s, e)[Len(s) + 1] = e
OBVIOUS

\* The worker's script is one of the stamped files, and NoProcess is a process.
LEMMA Basics ==
    /\ "worker" \in PackageFile
    /\ NoProcess \in Process
    /\ Started \in Process
    /\ Resting \in Place
<1>1. "worker" \in PackageFile
    BY WorkerAssumption DEF PackageFile
<1>2. NoProcess \in Process /\ Started \in Process
    <2>1. NoProcess \in Process
        BY WorkerAssumption DEF NoProcess, Process
    <2> QED BY <2>1 DEF Started, Process
<1>3. Unread \in Key /\ NoChannel \in ChannelNumber
    BY WorkerAssumption DEF Unread, Key, ChannelNumber, NoChannel
<1> QED BY <1>1, <1>2, <1>3 DEF Resting, Place

\* EnsureReaper leaves a thread that watches the channel, and takes none away
\* from another.
LEMMA ReaperEnsured ==
    ASSUME TablesOK, NEW w \in DOMAIN workers, EnsureReaper(w)
    PROVE  /\ reapers' \in Seq(Reaper) /\ Len(reapers') <= MaxReapers
           /\ \A r \in DOMAIN reapers' : reapers'[r].of \in DOMAIN workers
           /\ Watched(w)'
           /\ \A x \in DOMAIN workers : Watched(x) => Watched(x)'
<1>1. CASE UNCHANGED reapers
    BY <1>1 DEF TablesOK, EnsureReaper, Watched, Watches, KeepsReaper
<1>2. CASE ~UNCHANGED reapers
    <2> DEFINE old == [r \in DOMAIN reapers |->
                          [reapers[r] EXCEPT !.current = @ /\ reapers[r].of # w]]
               new == [of |-> w, pc |-> "sleep", stop |-> FALSE, current |-> TRUE]
    <2>1. /\ Len(reapers) < MaxReapers
          /\ reapers' = Append(old, new)
        BY <1>2 DEF EnsureReaper
    <2>2. ASSUME NEW r \in DOMAIN reapers
          PROVE  /\ old[r] \in Reaper
                 /\ old[r].of = reapers[r].of
                 /\ old[r].pc = reapers[r].pc
                 /\ old[r].stop = reapers[r].stop
        <3>1. reapers[r] \in Reaper
            BY DEF TablesOK
        <3>2. (reapers[r].current /\ reapers[r].of # w) \in BOOLEAN
            OBVIOUS
        <3> QED BY <3>1, <3>2 DEF Reaper
    <2>3. old \in Seq(Reaper) /\ Len(old) = Len(reapers) /\ new \in Reaper
        <3>1. DOMAIN reapers = 1..Len(reapers) /\ Len(reapers) \in Nat
            BY DEF TablesOK
        <3>2. old \in [1..Len(reapers) -> Reaper]
            BY <2>2, <3>1
        <3>3. new \in Reaper
            BY DEF TablesOK, Reaper
        <3> HIDE DEF old, new
        <3> QED BY <3>1, <3>2, <3>3
    <2>4. \A r \in DOMAIN reapers : /\ old[r].of = reapers[r].of
                                    /\ old[r].pc = reapers[r].pc
                                    /\ old[r].stop = reapers[r].stop
        BY <2>2
    <2> HIDE DEF old, new
    <2>5. /\ reapers' \in Seq(Reaper)
          /\ Len(reapers') = Len(reapers) + 1
          /\ DOMAIN reapers' = 1..Len(reapers) + 1
          /\ \A r \in DOMAIN reapers : reapers'[r] = old[r]
          /\ reapers'[Len(reapers) + 1] = new
        BY <2>1, <2>3, EntryAdded
    <2>6. \A r \in DOMAIN reapers' : reapers'[r].of \in DOMAIN workers
        BY <2>4, <2>5 DEF TablesOK, new
    <2>7. Watched(w)'
        BY <2>5 DEF TablesOK, Watched, Watches, new
    <2>8. \A x \in DOMAIN workers : Watched(x) => Watched(x)'
        BY <2>4, <2>5 DEF TablesOK, Watched, Watches
    <2>9. Len(reapers') <= MaxReapers
        BY <2>1, <2>5, WorkerAssumption DEF TablesOK
    <2> QED BY <2>5, <2>6, <2>7, <2>8, <2>9
<1> QED BY <1>1, <1>2

----------------------------------------------------------------------------
(* The steps. *)

\* A step that changes the process of one channel: the parts of the invariant
\* that depend on it.
LEMMA ProcessChanges ==
    ASSUME WorkerIInv, NEW w \in DOMAIN workers, NEW v \in Process,
           workers' = [workers EXCEPT ![w] = v],
           UNCHANGED <<package, routed, invokers, reapers>>,
           v.process # "none" => workers[w].process # "none",
           v.job # NoInvoker => v.job = workers[w].job,
           v.job # NoInvoker \/ v.answered => v.requests < MaxRequests,
           v.process = "ready" =>
              \/ workers[w].process = "ready" /\ v.script = workers[w].script
              \/ v.script = package["worker"]
    PROVE  WorkerIInv'
<1>1. /\ workers' \in Seq(Process)
      /\ Len(workers') = Len(workers)
      /\ DOMAIN workers' = DOMAIN workers
      /\ \A j \in DOMAIN workers : workers'[j] = IF j = w THEN v ELSE workers[j]
    BY EntryWritten DEF WorkerIInv, TablesOK
<1>2. TablesOK' /\ \A c \in Invoker : PlaceOK(c)'
    BY <1>1 DEF WorkerIInv, TablesOK, PlaceOK
<1>3. RequestsFit' /\ StampsAreBehind'
    BY <1>1 DEF WorkerIInv, RequestsFit, StampsAreBehind
<1>4. ScriptIsCurrent'
    BY <1>1 DEF WorkerIInv, StampsAreBehind, ScriptIsCurrent
<1>5. ProcessIsWatched'
    BY <1>1 DEF WorkerIInv, ProcessIsWatched, Watched, Watches
<1>6. JobIsAwaited'
    BY <1>1 DEF WorkerIInv, JobIsAwaited
<1> QED BY <1>2, <1>3, <1>4, <1>5, <1>6 DEF WorkerIInv

\* What happens to a process, and to the package.
LEMMA ResidentKeeps ==
    ASSUME WorkerIInv,
           \/ \E f \in PackageFile : FileReplaced(f)
           \/ \E w \in DOMAIN workers :
                LoadsScript(w) \/ Executes(w) \/ ProcessDies(w) \/ IdleLongEnough(w)
    PROVE  WorkerIInv'
<1>1. ASSUME NEW f \in PackageFile, FileReplaced(f)
      PROVE  WorkerIInv'
    <2>1. /\ package' = [package EXCEPT ![f] = @ + 1]
          /\ UNCHANGED <<routed, workers, reapers, invokers>>
        BY <1>1 DEF FileReplaced
    <2>2. package \in [PackageFile -> Nat] /\ "worker" \in PackageFile
        BY Basics DEF WorkerIInv, Key
    <2>3. package' \in Key /\ package'["worker"] >= package["worker"]
        BY <2>1, <2>2 DEF Key
    <2>4. StampsAreBehind'
        <3>1. /\ routed.key["worker"] \in Nat
              /\ \A c \in Invoker : invokers[c].key["worker"] \in Nat
              /\ package["worker"] \in Nat /\ package'["worker"] \in Nat
            BY <2>2, <2>3 DEF WorkerIInv, Place, Key
        <3> QED BY <2>1, <2>3, <3>1 DEF WorkerIInv, StampsAreBehind
    <2> QED BY <2>1, <2>3, <2>4
            DEF WorkerIInv, TablesOK, PlaceOK, RequestsFit, ScriptIsCurrent,
                ProcessIsWatched, Watched, Watches, JobIsAwaited
<1>2. ASSUME NEW w \in DOMAIN workers,
             LoadsScript(w) \/ Executes(w) \/ ProcessDies(w) \/ IdleLongEnough(w)
      PROVE  WorkerIInv'
    <2>1. /\ workers[w] \in Process
          /\ package["worker"] \in Nat
          /\ workers[w].job # NoInvoker \/ workers[w].answered
                => workers[w].requests < MaxRequests
        BY Basics DEF WorkerIInv, TablesOK, RequestsFit, Key
    <2>2. CASE LoadsScript(w)
        <3> DEFINE v == [workers[w] EXCEPT !.process = "ready", !.script = package["worker"]]
        <3>1. workers' = [workers EXCEPT ![w] = v]
            BY <2>2 DEF LoadsScript
        <3>2. v \in Process /\ v.job = workers[w].job /\ v.answered = workers[w].answered
                           /\ v.requests = workers[w].requests
                           /\ v.process = "ready" /\ v.script = package["worker"]
            BY <2>1 DEF Process
        <3> HIDE DEF v
        <3>3. workers[w].process # "none" /\ UNCHANGED <<package, routed, invokers, reapers>>
            BY <2>2 DEF LoadsScript
        <3> QED BY <2>1, <3>1, <3>2, <3>3, ProcessChanges
    <2>3. CASE Executes(w)
        BY <2>1, <2>3, ProcessChanges DEF Executes, Process
    <2>4. CASE ProcessDies(w)
        BY <2>1, <2>4, ProcessChanges DEF ProcessDies, Resident, Process
    <2>5. CASE IdleLongEnough(w)
        BY <2>1, <2>5, ProcessChanges DEF IdleLongEnough, Resident, Process
    <2> QED BY <1>2, <2>2, <2>3, <2>4, <2>5
<1> QED BY <1>1, <1>2

\* A step that ends the process of one channel: the threads that had it are where
\* they were, at rest, or free to use the channel again; no other channel lost
\* the thread that watches it, or one that waits for it.
LEMMA ChannelStopped ==
    ASSUME WorkerIInv, NEW w \in DOMAIN workers, workers' = Terminated(w),
           UNCHANGED <<package, routed>>,
           reapers' \in Seq(Reaper), Len(reapers') <= MaxReapers,
           \A r \in DOMAIN reapers' : reapers'[r].of \in DOMAIN workers,
           \A x \in DOMAIN workers : x # w /\ Watched(x) => Watched(x)',
           invokers' \in [Invoker -> Place],
           \A c \in Invoker :
              \/ invokers'[c] = invokers[c]
              \/ invokers'[c] = Resting
              \/ /\ invokers[c].channel # NoChannel
                 /\ invokers'[c] = [invokers[c] EXCEPT !.pc = "invoke"],
           \A c \in Invoker :
              invokers[c].pc = "waiting" /\ invokers[c].channel # w
                => invokers'[c] = invokers[c]
    PROVE  WorkerIInv'
<1>1. /\ workers' \in Seq(Process)
      /\ Len(workers') = Len(workers)
      /\ DOMAIN workers' = DOMAIN workers
      /\ \A j \in DOMAIN workers : workers'[j] = IF j = w THEN NoProcess ELSE workers[j]
    BY EntryWritten, Basics DEF WorkerIInv, TablesOK, Terminated
<1>2. /\ NoProcess.process = "none" /\ NoProcess.job = NoInvoker /\ ~NoProcess.answered
    BY DEF NoProcess
<1>3. /\ Resting.pc = "rest" /\ Resting.channel = NoChannel /\ Resting.previous = NoChannel
      /\ Resting.key["worker"] = 0 /\ NoChannel \in 0..Len(workers)
    BY Basics DEF Resting, Unread, WorkerIInv, TablesOK, NoChannel
<1>4. \A c \in Invoker :
        \/ invokers'[c] = invokers[c]
        \/ invokers'[c] = Resting
        \/ /\ invokers'[c].pc = "invoke" /\ invokers'[c].key = invokers[c].key
           /\ invokers'[c].channel = invokers[c].channel /\ invokers[c].channel # NoChannel
           /\ invokers'[c].previous = invokers[c].previous
    BY DEF WorkerIInv, Place
<1>5. TablesOK'
    BY <1>1 DEF WorkerIInv, TablesOK
<1>6. \A c \in Invoker : PlaceOK(c)'
    <2> TAKE c \in Invoker
    <2>1. PlaceOK(c)
        BY DEF WorkerIInv
    <2> QED BY <1>1, <1>3, <1>4, <2>1 DEF PlaceOK
<1>7. RequestsFit'
    BY <1>1, <1>2 DEF WorkerIInv, RequestsFit
<1>8. StampsAreBehind'
    <2>1. package["worker"] \in Nat /\ StampsAreBehind
        BY Basics DEF WorkerIInv, Key
    <2> QED BY <1>3, <1>4, <2>1 DEF StampsAreBehind
<1>9. ScriptIsCurrent'
    <2>1. workers \in Seq(Process) /\ ScriptIsCurrent
        BY DEF WorkerIInv, TablesOK
    <2>2. \A x \in DOMAIN workers : workers[x] \in Process
        BY <2>1
    <2>3. \A x \in DOMAIN workers : workers[x].script >= 0
        BY <2>2 DEF Process
    <2> SUFFICES ASSUME NEW x \in DOMAIN workers', workers'[x].process = "ready"
                 PROVE  /\ routed'.channel = x => workers'[x].script >= routed'.key["worker"]
                        /\ \A c \in Invoker : invokers'[c].channel = x
                             => workers'[x].script >= invokers'[c].key["worker"]
        BY DEF ScriptIsCurrent
    <2>4. x \in DOMAIN workers /\ x # w /\ workers'[x] = workers[x]
        BY <1>1, <1>2
    <2> QED BY <1>3, <1>4, <2>1, <2>3, <2>4 DEF ScriptIsCurrent
<1>10. ProcessIsWatched'
    BY <1>1, <1>2 DEF WorkerIInv, ProcessIsWatched
<1>11. JobIsAwaited'
    BY <1>1, <1>2 DEF WorkerIInv, JobIsAwaited
<1> QED BY <1>5, <1>6, <1>7, <1>8, <1>9, <1>10, <1>11 DEF WorkerIInv

\* What the reaper threads do.
LEMMA ReaperKeeps ==
    ASSUME WorkerIInv, NEW r \in DOMAIN reapers, ReaperWakes(r) \/ ReapIdle(r)
    PROVE  WorkerIInv'
<1>1. /\ reapers \in Seq(Reaper) /\ reapers[r] \in Reaper
      /\ reapers[r].of \in DOMAIN workers
    BY DEF WorkerIInv, TablesOK
<1>2. ASSUME NEW pc \in {"sleep", "awake", "gone"}, pc = "gone" => reapers[r].stop,
             reapers' = [reapers EXCEPT ![r].pc = pc], reapers[r].pc # "gone",
             UNCHANGED <<package, routed, workers, invokers>>
      PROVE  WorkerIInv'
    <2> DEFINE e == [reapers[r] EXCEPT !.pc = pc]
    <2>1. e \in Reaper /\ e.of = reapers[r].of /\ e.stop = reapers[r].stop /\ e.pc = pc
        BY <1>1 DEF Reaper
    <2>2. reapers' = [reapers EXCEPT ![r] = e]
        BY <1>2
    <2> HIDE DEF e
    <2>3. /\ reapers' \in Seq(Reaper) /\ Len(reapers') = Len(reapers)
          /\ DOMAIN reapers' = DOMAIN reapers
          /\ \A j \in DOMAIN reapers : reapers'[j] = IF j = r THEN e ELSE reapers[j]
        BY <1>1, <2>1, <2>2, EntryWritten
    <2>4. TablesOK'
        BY <1>1, <1>2, <2>1, <2>3 DEF WorkerIInv, TablesOK
    <2>5. ProcessIsWatched'
        BY <1>1, <1>2, <2>1, <2>3 DEF WorkerIInv, ProcessIsWatched, Watched, Watches
    <2> QED BY <1>2, <2>4, <2>5
            DEF WorkerIInv, PlaceOK, RequestsFit, StampsAreBehind, ScriptIsCurrent, JobIsAwaited
<1>3. CASE ReaperWakes(r)
    BY <1>1, <1>2, <1>3 DEF ReaperWakes
<1>4. CASE ReapIdle(r) /\ reapers' = [reapers EXCEPT ![r].pc = "sleep"] /\ UNCHANGED workers
    BY <1>1, <1>2, <1>4 DEF ReapIdle
<1>5. CASE /\ ReapIdle(r)
           /\ workers' = Terminated(reapers[r].of)
           /\ reapers' = [reapers EXCEPT ![r] =
                            [@ EXCEPT !.pc = "gone", !.stop = TRUE, !.current = FALSE]]
    <2> DEFINE e == [reapers[r] EXCEPT !.pc = "gone", !.stop = TRUE, !.current = FALSE]
    <2>1. e \in Reaper /\ e.of = reapers[r].of /\ reapers' = [reapers EXCEPT ![r] = e]
        BY <1>1, <1>5 DEF Reaper
    <2> HIDE DEF e
    <2>2. /\ reapers' \in Seq(Reaper) /\ Len(reapers') = Len(reapers)
          /\ DOMAIN reapers' = DOMAIN reapers
          /\ \A j \in DOMAIN reapers : reapers'[j] = IF j = r THEN e ELSE reapers[j]
        BY <1>1, <2>1, EntryWritten
    <2>3. \A j \in DOMAIN reapers' : reapers'[j].of \in DOMAIN workers
        BY <1>1, <2>1, <2>2 DEF WorkerIInv, TablesOK
    <2>4. \A x \in DOMAIN workers : x # reapers[r].of /\ Watched(x) => Watched(x)'
        BY <2>1, <2>2 DEF Watched, Watches
    <2>5. Len(reapers') <= MaxReapers /\ UNCHANGED <<package, routed, invokers>>
        BY <1>5, <2>2 DEF ReapIdle, WorkerIInv, TablesOK
    <2>6. invokers' \in [Invoker -> Place]
        BY <2>5 DEF WorkerIInv
    <2> QED BY <1>1, <1>5, <2>2, <2>3, <2>4, <2>5, <2>6, ChannelStopped
<1> QED BY <1>3, <1>4, <1>5 DEF ReapIdle

\* _invoke_warm_authority up to the channel: a stamp is read, the table is looked at
\* or emptied.
LEMMA RoutingKeeps ==
    ASSUME WorkerIInv, NEW c \in Invoker,
           \/ \E i \in DOMAIN Stamped : ReadStamp(c, i)
           \/ TakeChannel(c) \/ DropChannel(c)
    PROVE  WorkerIInv'
<1>1. /\ invokers \in [Invoker -> Place] /\ invokers[c] \in Place
      /\ \A d \in Invoker : PlaceOK(d)
      /\ TablesOK /\ RequestsFit /\ StampsAreBehind /\ ScriptIsCurrent
      /\ ProcessIsWatched /\ JobIsAwaited
      /\ package \in Key /\ "worker" \in PackageFile
    BY Basics DEF WorkerIInv
<1>2. ASSUME NEW i \in DOMAIN Stamped, ReadStamp(c, i)
      PROVE  WorkerIInv'
    <2> DEFINE f == Stamped[i]
               pc == IF i = Len(Stamped) THEN "route" ELSE "rest"
               e == [invokers[c] EXCEPT !.key[f] = package[f], !.pc = pc]
    <2>1. f \in PackageFile /\ invokers[c].pc = "rest" /\ pc \in {"rest", "route"}
        BY <1>2 DEF ReadStamp, PackageFile
    <2>2. /\ invokers' = [invokers EXCEPT ![c] = e]
          /\ UNCHANGED <<package, routed, workers, reapers>>
        BY <1>2 DEF ReadStamp
    <2>3. /\ e \in Place /\ e.pc = pc /\ e.channel = invokers[c].channel
          /\ e.previous = invokers[c].previous
          /\ e.key["worker"] \in {invokers[c].key["worker"], package["worker"]}
        BY <1>1, <2>1 DEF Place, Key
    <2> HIDE DEF e, f, pc
    <2>4. /\ invokers' \in [Invoker -> Place]
          /\ \A d \in Invoker : invokers'[d] = IF d = c THEN e ELSE invokers[d]
        BY <1>1, <2>2, <2>3
    <2>5. invokers[c].channel = NoChannel
        BY <1>1, <2>1 DEF PlaceOK
    <2>6. \A d \in Invoker : PlaceOK(d)'
        BY <1>1, <2>1, <2>2, <2>3, <2>4, <2>5 DEF PlaceOK
    <2>7. StampsAreBehind'
        <3>1. package["worker"] \in Nat
            BY <1>1 DEF Key
        <3> QED BY <1>1, <2>2, <2>3, <2>4, <3>1 DEF StampsAreBehind
    <2>8. ScriptIsCurrent'
        <3>1. \A w \in DOMAIN workers : w # NoChannel
            BY <1>1 DEF TablesOK, NoChannel
        <3> QED BY <1>1, <2>2, <2>3, <2>4, <2>5, <3>1 DEF ScriptIsCurrent
    <2>9. JobIsAwaited'
        BY <1>1, <2>1, <2>2, <2>4 DEF JobIsAwaited
    <2> QED BY <1>1, <2>2, <2>4, <2>6, <2>7, <2>8, <2>9
            DEF WorkerIInv, TablesOK, RequestsFit, ProcessIsWatched, Watched, Watches
<1>3. ASSUME TakeChannel(c),
             ~(routed.channel = NoChannel \/ routed.key # invokers[c].key)
      PROVE  WorkerIInv'
    <2> DEFINE e == [invokers[c] EXCEPT !.pc = "invoke", !.channel = routed.channel]
    <2>1. /\ invokers' = [invokers EXCEPT ![c] = e] /\ invokers[c].pc = "route"
          /\ UNCHANGED <<package, routed, workers, reapers>>
        BY <1>3 DEF TakeChannel
    <2>2. /\ e \in Place /\ e.pc = "invoke" /\ e.channel = routed.channel
          /\ e.previous = invokers[c].previous /\ e.key = routed.key
          /\ routed.channel # NoChannel
        BY <1>1, <1>3 DEF Place, WorkerIInv
    <2> HIDE DEF e
    <2>3. /\ invokers' \in [Invoker -> Place]
          /\ \A d \in Invoker : invokers'[d] = IF d = c THEN e ELSE invokers[d]
        BY <1>1, <2>1, <2>2
    <2>4. \A d \in Invoker : PlaceOK(d)'
        BY <1>1, <2>1, <2>2, <2>3 DEF PlaceOK, TablesOK
    <2>5. StampsAreBehind' /\ ScriptIsCurrent'
        BY <1>1, <2>1, <2>2, <2>3 DEF StampsAreBehind, ScriptIsCurrent
    <2>6. JobIsAwaited'
        BY <1>1, <2>1, <2>3 DEF JobIsAwaited
    <2> QED BY <1>1, <2>1, <2>3, <2>4, <2>5, <2>6
            DEF WorkerIInv, TablesOK, RequestsFit, ProcessIsWatched, Watched, Watches
<1>4. ASSUME TakeChannel(c), routed.channel = NoChannel \/ routed.key # invokers[c].key
      PROVE  WorkerIInv'
    <2> DEFINE n == Len(workers) + 1
               pc == IF routed.channel = NoChannel THEN "invoke" ELSE "replace"
               e == [invokers[c] EXCEPT !.pc = pc, !.channel = n, !.previous = routed.channel]
    <2>1. /\ Len(workers) < MaxWorkers /\ workers' = Append(workers, NoProcess)
          /\ invokers[c].pc = "route"
          /\ routed' = [channel |-> Len(workers'), key |-> invokers[c].key]
          /\ invokers' = [invokers EXCEPT ![c] =
                [@ EXCEPT !.pc = pc, !.channel = Len(workers'), !.previous = routed.channel]]
          /\ UNCHANGED <<package, reapers>>
        BY <1>4 DEF TakeChannel
    <2>2. /\ workers \in Seq(Process) /\ Len(workers) \in Nat
          /\ DOMAIN workers = 1..Len(workers)
          /\ workers' \in Seq(Process) /\ Len(workers') = n
          /\ DOMAIN workers' = 1..n
          /\ \A j \in DOMAIN workers : workers'[j] = workers[j]
          /\ workers'[n] = NoProcess
        BY <1>1, <2>1, EntryAdded, Basics DEF TablesOK
    <2>3. n \in ChannelNumber /\ n # NoChannel /\ routed.channel \in ChannelNumber
        BY <2>1, <2>2, WorkerAssumption DEF ChannelNumber, NoChannel, WorkerIInv
    <2>4. /\ e \in Place /\ e.pc = pc /\ e.channel = n /\ e.previous = routed.channel
          /\ e.key = invokers[c].key /\ pc \in {"invoke", "replace"}
          /\ pc = "replace" => routed.channel # NoChannel
          /\ invokers' = [invokers EXCEPT ![c] = e]
        BY <1>1, <2>1, <2>2, <2>3 DEF Place
    <2> HIDE DEF e, pc
    <2>5. /\ invokers' \in [Invoker -> Place]
          /\ \A d \in Invoker : invokers'[d] = IF d = c THEN e ELSE invokers[d]
        BY <1>1, <2>4
    <2>6. /\ routed' \in [channel : ChannelNumber, key : Key]
          /\ routed'.channel = n /\ routed'.key = invokers[c].key
        BY <1>1, <2>1, <2>2, <2>3 DEF Place
    <2>7. TablesOK'
        BY <1>1, <2>1, <2>2, <2>6, WorkerAssumption DEF TablesOK
    <2>8. \A d \in Invoker : PlaceOK(d)'
        <3>1. routed.channel \in 0..n /\ n \in 0..n
            BY <1>1, <2>2 DEF TablesOK
        <3>2. \A k \in 0..Len(workers) : k \in 0..n
            BY <2>2
        <3> HIDE DEF n
        <3> QED BY <1>1, <2>2, <2>3, <2>4, <2>5, <3>1, <3>2 DEF PlaceOK
    <2>9. NoProcess.process = "none" /\ NoProcess.job = NoInvoker /\ ~NoProcess.answered
        BY DEF NoProcess
    <2>10. \A w \in DOMAIN workers' : w # n => w \in DOMAIN workers
        BY <2>2
    <2> HIDE DEF n
    <2>11. RequestsFit'
        BY <1>1, <2>2, <2>9, <2>10 DEF RequestsFit
    <2>12. StampsAreBehind'
        BY <1>1, <2>1, <2>4, <2>5, <2>6 DEF StampsAreBehind
    <2>13. ScriptIsCurrent'
        BY <1>1, <2>2, <2>4, <2>5, <2>6, <2>9, <2>10 DEF ScriptIsCurrent
    <2>14. ProcessIsWatched'
        BY <1>1, <2>1, <2>2, <2>9, <2>10 DEF ProcessIsWatched, Watched, Watches
    <2>15. JobIsAwaited'
        BY <1>1, <2>1, <2>2, <2>5, <2>9, <2>10 DEF JobIsAwaited
    <2> QED BY <1>1, <2>1, <2>5, <2>6, <2>7, <2>8, <2>11, <2>12, <2>13, <2>14, <2>15
            DEF WorkerIInv
<1>5. ASSUME DropChannel(c)
      PROVE  WorkerIInv'
    <2> DEFINE e == [invokers[c] EXCEPT !.pc = "replace", !.previous = routed.channel]
    <2>1. /\ invokers' = [invokers EXCEPT ![c] = e] /\ invokers[c] = Resting
          /\ routed.channel # NoChannel
          /\ routed' = [channel |-> NoChannel, key |-> Unread]
          /\ UNCHANGED <<package, workers, reapers>>
        BY <1>5 DEF DropChannel
    <2>2. /\ e \in Place /\ e.pc = "replace" /\ e.previous = routed.channel
          /\ e.channel = invokers[c].channel /\ e.key = invokers[c].key
          /\ invokers[c].pc = "rest"
        <3>1. routed.channel \in ChannelNumber
            BY DEF WorkerIInv
        <3>2. invokers[c].pc = "rest"
            BY <2>1 DEF Resting
        <3> QED BY <1>1, <2>1, <3>1, <3>2 DEF Place
    <2> HIDE DEF e
    <2>3. /\ invokers' \in [Invoker -> Place]
          /\ \A d \in Invoker : invokers'[d] = IF d = c THEN e ELSE invokers[d]
        BY <1>1, <2>1, <2>2
    <2>4. /\ routed' \in [channel : ChannelNumber, key : Key]
          /\ routed'.channel = 0 /\ routed'.key["worker"] = 0
        BY <1>1, <2>1, WorkerAssumption DEF Unread, Key, ChannelNumber, NoChannel
    <2>5. \A d \in Invoker : PlaceOK(d)'
        BY <1>1, <2>1, <2>2, <2>3 DEF PlaceOK, TablesOK, NoChannel
    <2>6. StampsAreBehind'
        BY <1>1, <2>1, <2>2, <2>3, <2>4 DEF StampsAreBehind, Key
    <2>7. TablesOK' /\ ScriptIsCurrent'
        BY <1>1, <2>1, <2>2, <2>3, <2>4 DEF TablesOK, ScriptIsCurrent
    <2>8. JobIsAwaited'
        BY <1>1, <2>1, <2>2, <2>3 DEF JobIsAwaited
    <2> QED BY <1>1, <2>1, <2>3, <2>4, <2>5, <2>6, <2>7, <2>8
            DEF WorkerIInv, RequestsFit, ProcessIsWatched, Watched, Watches
<1> QED BY <1>2, <1>3, <1>4, <1>5

\* A channel is shut down, or its process did not serve the request.
LEMMA StoppingKeeps ==
    ASSUME WorkerIInv, NEW c \in Invoker,
           ShutDown(c) \/ RequestRefused(c) \/ GiveUp(c)
    PROVE  WorkerIInv'
<1>1. /\ invokers \in [Invoker -> Place] /\ invokers[c] \in Place /\ Resting \in Place
      /\ PlaceOK(c) /\ TablesOK
    BY Basics DEF WorkerIInv
<1>2. CASE ShutDown(c)
    <2> DEFINE w == invokers[c].previous
               stopped == [r \in DOMAIN reapers |->
                  [reapers[r] EXCEPT !.stop = @ \/ (reapers[r].of = w /\ reapers[r].current)]]
    <2>1. /\ invokers[c].pc = "replace" /\ reapers' = stopped /\ workers' = Terminated(w)
          /\ invokers' = [invokers EXCEPT ![c] =
                IF @.channel = NoChannel THEN Resting ELSE [@ EXCEPT !.pc = "invoke"]]
          /\ UNCHANGED <<package, routed>>
        BY <1>2 DEF ShutDown
    <2>2. w \in DOMAIN workers
        BY <1>1, <2>1 DEF PlaceOK, TablesOK, NoChannel
    <2>3. ASSUME NEW r \in DOMAIN reapers
          PROVE  /\ stopped[r] \in Reaper
                 /\ stopped[r].of = reapers[r].of /\ stopped[r].pc = reapers[r].pc
                 /\ reapers[r].of # w => stopped[r].stop = reapers[r].stop
        <3>1. reapers[r] \in Reaper
            BY <1>1 DEF TablesOK
        <3>2. (reapers[r].stop \/ (reapers[r].of = w /\ reapers[r].current)) \in BOOLEAN
            OBVIOUS
        <3> QED BY <3>1, <3>2 DEF Reaper
    <2>4. DOMAIN stopped = DOMAIN reapers
        OBVIOUS
    <2> HIDE DEF stopped
    <2>5. /\ reapers' \in Seq(Reaper) /\ Len(reapers') = Len(reapers)
          /\ DOMAIN reapers' = DOMAIN reapers
        <3>1. Len(reapers) \in Nat /\ DOMAIN reapers = 1..Len(reapers)
            BY <1>1 DEF TablesOK
        <3>2. stopped \in [1..Len(reapers) -> Reaper]
            BY <2>3, <2>4, <3>1 DEF stopped
        <3> QED BY <2>1, <3>1, <3>2
    <2>6. /\ \A r \in DOMAIN reapers' : reapers'[r].of \in DOMAIN workers
          /\ Len(reapers') <= MaxReapers
        BY <1>1, <2>1, <2>3, <2>5 DEF TablesOK
    <2>7. \A x \in DOMAIN workers : x # w /\ Watched(x) => Watched(x)'
        BY <2>1, <2>3, <2>5 DEF Watched, Watches
    <2>8. /\ invokers' \in [Invoker -> Place]
          /\ \A d \in Invoker :
                \/ invokers'[d] = invokers[d]
                \/ invokers'[d] = Resting
                \/ /\ invokers[d].channel # NoChannel
                   /\ invokers'[d] = [invokers[d] EXCEPT !.pc = "invoke"]
          /\ \A d \in Invoker : invokers[d].pc = "waiting" => invokers'[d] = invokers[d]
        <3> DEFINE e == IF invokers[c].channel = NoChannel THEN Resting
                        ELSE [invokers[c] EXCEPT !.pc = "invoke"]
        <3>1. e \in Place
            BY <1>1 DEF Place
        <3>2. invokers' = [invokers EXCEPT ![c] = e]
            BY <2>1
        <3> QED BY <1>1, <2>1, <3>1, <3>2
    <2> HIDE DEF w
    <2> QED BY <2>1, <2>2, <2>5, <2>6, <2>7, <2>8, ChannelStopped
<1>3. CASE RequestRefused(c)
    <2>1. /\ invokers[c].pc = "invoke"
          /\ UNCHANGED reapers \/ EnsureReaper(invokers[c].channel)
          /\ workers' = Terminated(invokers[c].channel)
          /\ invokers' = [invokers EXCEPT ![c] = Resting]
          /\ UNCHANGED <<package, routed>>
        BY <1>3 DEF RequestRefused
    <2>2. invokers[c].channel \in DOMAIN workers
        BY <1>1, <2>1 DEF PlaceOK, TablesOK, NoChannel
    <2>3. /\ reapers' \in Seq(Reaper) /\ Len(reapers') <= MaxReapers
          /\ \A r \in DOMAIN reapers' : reapers'[r].of \in DOMAIN workers
          /\ \A x \in DOMAIN workers : Watched(x) => Watched(x)'
        <3>1. CASE UNCHANGED reapers
            BY <1>1, <3>1 DEF TablesOK, Watched, Watches
        <3>2. CASE EnsureReaper(invokers[c].channel)
            BY <1>1, <2>2, <3>2, ReaperEnsured
        <3> QED BY <2>1, <3>1, <3>2
    <2>4. /\ invokers' \in [Invoker -> Place]
          /\ \A d \in Invoker : invokers'[d] = IF d = c THEN Resting ELSE invokers[d]
        BY <1>1, <2>1
    <2> QED BY <2>1, <2>2, <2>3, <2>4, ChannelStopped
<1>4. CASE GiveUp(c)
    <2>1. /\ invokers[c].pc = "waiting"
          /\ workers' = Terminated(invokers[c].channel)
          /\ invokers' = [invokers EXCEPT ![c] = Resting]
          /\ UNCHANGED <<package, routed, reapers>>
        BY <1>4 DEF GiveUp
    <2>2. invokers[c].channel \in DOMAIN workers
        BY <1>1, <2>1 DEF PlaceOK, TablesOK, NoChannel
    <2>3. /\ reapers' \in Seq(Reaper) /\ Len(reapers') <= MaxReapers
          /\ \A r \in DOMAIN reapers' : reapers'[r].of \in DOMAIN workers
          /\ \A x \in DOMAIN workers : Watched(x) => Watched(x)'
        BY <1>1, <2>1 DEF TablesOK, Watched, Watches
    <2>4. /\ invokers' \in [Invoker -> Place]
          /\ \A d \in Invoker : invokers'[d] = IF d = c THEN Resting ELSE invokers[d]
        BY <1>1, <2>1
    <2> QED BY <2>1, <2>2, <2>3, <2>4, ChannelStopped
<1> QED BY <1>2, <1>3, <1>4

\* A request is sent, and answered.
LEMMA RequestKeeps ==
    ASSUME WorkerIInv, NEW c \in Invoker, NEW w, w = invokers[c].channel,
           SendRequest(c) \/ TakeResult(c)
    PROVE  WorkerIInv'
<1>1. /\ invokers \in [Invoker -> Place] /\ invokers[c] \in Place
      /\ \A d \in Invoker : PlaceOK(d)
      /\ TablesOK /\ RequestsFit /\ StampsAreBehind /\ ScriptIsCurrent
      /\ ProcessIsWatched /\ JobIsAwaited
      /\ MaxRequests \in Nat \ {0} /\ NoInvoker \notin Invoker
    BY WorkerAssumption DEF WorkerIInv
<1>2. invokers[c].pc \in {"invoke", "waiting"}
    BY DEF SendRequest, TakeResult
<1>3. w \in DOMAIN workers /\ w # NoChannel /\ workers[w] \in Process
    BY <1>1, <1>2 DEF PlaceOK, TablesOK, NoChannel
<1>4. CASE SendRequest(c)
    <2> DEFINE v == [IF Reusable(w) THEN workers[w] ELSE Started EXCEPT !.job = c]
               e == [invokers[c] EXCEPT !.pc = "waiting"]
    <2>1. /\ invokers[c].pc = "invoke" /\ ~Held(w)
          /\ IF Reusable(w) THEN UNCHANGED reapers ELSE EnsureReaper(w)
          /\ workers' = [workers EXCEPT ![w] = v]
          /\ invokers' = [invokers EXCEPT ![c] = e]
          /\ UNCHANGED <<package, routed>>
        BY <1>4 DEF SendRequest
    <2>2. /\ v \in Process /\ v.job = c /\ v.requests < MaxRequests
          /\ v.process = "ready" => /\ workers[w].process = "ready"
                                    /\ v.script = workers[w].script
        <3>1. CASE Reusable(w)
            BY <1>1, <1>3, <3>1 DEF Reusable, Process
        <3>2. CASE ~Reusable(w)
            <4>1. /\ Started.process = "starting" /\ Started.requests = 0
                BY DEF Started, NoProcess
            <4> QED BY <1>1, <3>2, <4>1, Basics DEF Process
        <3> QED BY <3>1, <3>2
    <2>3. /\ e \in Place /\ e.pc = "waiting" /\ e.key = invokers[c].key
          /\ e.channel = w /\ e.previous = invokers[c].previous
        BY <1>1 DEF Place
    <2>4. Reusable(w) => workers[w].process # "none"
        BY DEF Reusable, Resident
    <2>5. /\ reapers' \in Seq(Reaper) /\ Len(reapers') <= MaxReapers
          /\ \A r \in DOMAIN reapers' : reapers'[r].of \in DOMAIN workers
          /\ \A x \in DOMAIN workers : Watched(x) => Watched(x)'
          /\ Watched(w)'
        <3>1. CASE Reusable(w)
            BY <1>1, <1>3, <2>1, <2>4, <3>1 DEF TablesOK, ProcessIsWatched, Watched, Watches
        <3>2. CASE ~Reusable(w)
            BY <1>1, <1>3, <2>1, <3>2, ReaperEnsured
        <3> QED BY <3>1, <3>2
    <2> HIDE DEF v, e
    <2>6. /\ workers' \in Seq(Process) /\ Len(workers') = Len(workers)
          /\ DOMAIN workers' = DOMAIN workers
          /\ \A j \in DOMAIN workers : workers'[j] = IF j = w THEN v ELSE workers[j]
        BY <1>1, <1>3, <2>1, <2>2, EntryWritten DEF TablesOK
    <2>7. /\ invokers' \in [Invoker -> Place]
          /\ \A d \in Invoker : invokers'[d] = IF d = c THEN e ELSE invokers[d]
        BY <1>1, <2>1, <2>3
    <2>8. TablesOK'
        BY <1>1, <2>1, <2>5, <2>6 DEF TablesOK
    <2>9. \A d \in Invoker : PlaceOK(d)'
        BY <1>1, <1>3, <2>3, <2>6, <2>7 DEF PlaceOK
    <2>10. RequestsFit'
        BY <1>1, <2>2, <2>6 DEF RequestsFit
    <2>11. StampsAreBehind'
        BY <1>1, <2>1, <2>3, <2>7 DEF StampsAreBehind
    <2>12. ScriptIsCurrent'
        <3>1. invokers[c].channel = w
            OBVIOUS
        <3> QED BY <1>1, <2>1, <2>2, <2>3, <2>6, <2>7, <3>1 DEF ScriptIsCurrent
    <2>13. ProcessIsWatched'
        <3> SUFFICES ASSUME NEW x \in DOMAIN workers, workers'[x].process # "none"
                     PROVE  Watched(x)'
            BY <2>6 DEF ProcessIsWatched
        <3>1. CASE x = w
            BY <2>5, <3>1
        <3>2. CASE x # w
            BY <1>1, <2>5, <2>6, <3>2 DEF ProcessIsWatched
        <3> QED BY <3>1, <3>2
    <2>14. JobIsAwaited'
        BY <1>1, <2>1, <2>2, <2>3, <2>6, <2>7 DEF JobIsAwaited
    <2> QED BY <2>1, <2>7, <2>8, <2>9, <2>10, <2>11, <2>12, <2>13, <2>14 DEF WorkerIInv
<1>5. CASE TakeResult(c)
    <2> DEFINE v == [workers[w] EXCEPT !.job = NoInvoker, !.answered = FALSE,
                                       !.requests = @ + 1, !.idle = FALSE]
    <2>1. /\ invokers[c].pc = "waiting" /\ workers[w].answered
          /\ workers' = [workers EXCEPT ![w] = v]
          /\ invokers' = [invokers EXCEPT ![c] = Resting]
          /\ UNCHANGED <<package, routed, reapers>>
        <3>1. workers' = [workers EXCEPT ![w].job = NoInvoker, ![w].answered = FALSE,
                                         ![w].requests = @ + 1, ![w].idle = FALSE]
            BY <1>5, Zenon DEF TakeResult
        <3>2. workers' = [workers EXCEPT ![w] = v]
            BY <1>1, <1>3, <3>1 DEF TablesOK, Process
        <3> QED BY <1>5, <3>2 DEF TakeResult
    <2>2. workers[w].requests < MaxRequests
        BY <1>1, <1>3, <2>1 DEF RequestsFit
    <2>3. /\ v \in Process /\ v.job = NoInvoker /\ ~v.answered
          /\ v.process = workers[w].process /\ v.script = workers[w].script
        <3>1. workers[w].requests + 1 \in 0..MaxRequests
            BY <1>1, <1>3, <2>2 DEF Process
        <3> QED BY <1>3, <3>1 DEF Process
    <2> HIDE DEF v
    <2>4. /\ workers' \in Seq(Process) /\ Len(workers') = Len(workers)
          /\ DOMAIN workers' = DOMAIN workers
          /\ \A j \in DOMAIN workers : workers'[j] = IF j = w THEN v ELSE workers[j]
        BY <1>1, <1>3, <2>1, <2>3, EntryWritten DEF TablesOK
    <2>5. /\ invokers' \in [Invoker -> Place]
          /\ \A d \in Invoker : invokers'[d] = IF d = c THEN Resting ELSE invokers[d]
        BY <1>1, <2>1, Basics
    <2>6. /\ Resting.pc = "rest" /\ Resting.channel = NoChannel
          /\ Resting.previous = NoChannel /\ Resting.key["worker"] = 0
        BY Basics DEF Resting, Unread
    <2>7. TablesOK'
        BY <1>1, <2>1, <2>4 DEF TablesOK
    <2>8. \A d \in Invoker : PlaceOK(d)'
        <3>1. NoChannel \in 0..Len(workers)
            BY <1>1 DEF TablesOK, NoChannel
        <3> QED BY <1>1, <2>4, <2>5, <2>6, <3>1 DEF PlaceOK
    <2>9. RequestsFit'
        BY <1>1, <2>3, <2>4 DEF RequestsFit
    <2>10. StampsAreBehind'
        <3>1. package["worker"] \in Nat
            BY Basics DEF WorkerIInv, Key
        <3> QED BY <1>1, <2>1, <2>5, <2>6, <3>1 DEF StampsAreBehind
    <2>11. ScriptIsCurrent'
        <3>1. \A x \in DOMAIN workers : x # NoChannel
            BY <1>1 DEF TablesOK, NoChannel
        <3> QED BY <1>1, <2>1, <2>3, <2>4, <2>5, <2>6, <3>1 DEF ScriptIsCurrent
    <2>12. ProcessIsWatched'
        BY <1>1, <2>1, <2>3, <2>4 DEF ProcessIsWatched, Watched, Watches
    <2>13. JobIsAwaited'
        <3>1. invokers[c].channel = w
            OBVIOUS
        <3> QED BY <1>1, <2>1, <2>3, <2>4, <2>5, <3>1 DEF JobIsAwaited
    <2> QED BY <2>1, <2>5, <2>7, <2>8, <2>9, <2>10, <2>11, <2>12, <2>13 DEF WorkerIInv
<1> QED BY <1>4, <1>5

\* WorkerIInv holds from the start and is kept by every step.
THEOREM WorkerInvariance == WorkerSpec => []WorkerIInv
<1>1. WorkerInit => WorkerIInv
    <2> SUFFICES ASSUME WorkerInit PROVE WorkerIInv
        OBVIOUS
    <2>1. /\ package = [f \in PackageFile |-> 1]
          /\ routed = [channel |-> NoChannel, key |-> Unread]
          /\ workers = <<>> /\ reapers = <<>>
          /\ invokers = [c \in Invoker |-> Resting]
        BY DEF WorkerInit
    <2>2. /\ Resting.pc = "rest" /\ Resting.channel = NoChannel
          /\ Resting.previous = NoChannel /\ Resting.key["worker"] = 0
          /\ Unread["worker"] = 0 /\ package["worker"] = 1 /\ Unread \in Key
          /\ NoChannel \in ChannelNumber
        BY <2>1, Basics, WorkerAssumption DEF Resting, Unread, Key, NoChannel, ChannelNumber
    <2>3. /\ package \in Key /\ routed \in [channel : ChannelNumber, key : Key]
          /\ invokers \in [Invoker -> Place]
        BY <2>1, <2>2, Basics DEF Key
    <2>4. TablesOK /\ \A c \in Invoker : PlaceOK(c)
        BY <2>1, <2>2, WorkerAssumption DEF TablesOK, PlaceOK, NoChannel
    <2>5. StampsAreBehind
        BY <2>1, <2>2 DEF StampsAreBehind
    <2>6. RequestsFit /\ ScriptIsCurrent /\ ProcessIsWatched /\ JobIsAwaited
        BY <2>1 DEF RequestsFit, ScriptIsCurrent, ProcessIsWatched, JobIsAwaited
    <2> QED BY <2>3, <2>4, <2>5, <2>6 DEF WorkerIInv
<1>2. WorkerIInv /\ [WorkerNext]_workerVars => WorkerIInv'
    <2> SUFFICES ASSUME WorkerIInv, [WorkerNext]_workerVars PROVE WorkerIInv'
        OBVIOUS
    <2>1. CASE WorkerNext
        BY <2>1, ResidentKeeps, ReaperKeeps, RoutingKeeps, StoppingKeeps, RequestKeeps
           DEF WorkerNext
    <2>2. CASE UNCHANGED workerVars
        BY <2>2 DEF workerVars, WorkerIInv, TablesOK, PlaceOK, RequestsFit, StampsAreBehind,
                    ScriptIsCurrent, ProcessIsWatched, Watched, Watches, JobIsAwaited
    <2> QED BY <2>1, <2>2
<1> QED BY <1>1, <1>2, PTL DEF WorkerSpec

----------------------------------------------------------------------------
(* Results. *)

\* Processes, threads, stamps and the routing table keep their types; a process is
\* never asked for more than MaxRequests requests.
THEOREM WorkerTypeCorrect == WorkerSpec => []WorkerTypeOK
<1>1. WorkerIInv => WorkerTypeOK
    <2> SUFFICES ASSUME WorkerIInv PROVE WorkerTypeOK
        OBVIOUS
    <2>1. TablesOK /\ package \in Key /\ invokers \in [Invoker -> Place]
          /\ routed \in [channel : ChannelNumber, key : Key]
        BY DEF WorkerIInv
    <2>2. \A w \in DOMAIN workers : workers[w] \in Process
        BY <2>1 DEF TablesOK
    <2>3. \A r \in DOMAIN reapers :
            reapers[r] \in Reaper /\ reapers[r].of \in DOMAIN workers
        BY <2>1 DEF TablesOK
    <2>4. \A r \in DOMAIN reapers :
            reapers[r] \in [of : DOMAIN workers, pc : {"sleep", "awake", "gone"},
                            stop : BOOLEAN, current : BOOLEAN]
        BY <2>3 DEF Reaper
    <2> QED BY <2>1, <2>2, <2>4 DEF WorkerTypeOK, TablesOK, Process, Place
<1> QED BY <1>1, WorkerInvariance, PTL

\* A process of the warm authority runs only while a thread watches it, works for
\* nobody but the thread that waits for it, and never with a script older than the
\* stamp that thread read, whatever is replaced, dropped, reaped or given up.
THEOREM ResidentCurrent == WorkerSpec => []ResidentIsWatchedAndCurrent
<1>1. WorkerIInv => ResidentIsWatchedAndCurrent
    BY DEF WorkerIInv, ProcessIsWatched, JobIsAwaited, ScriptIsCurrent,
           ResidentIsWatchedAndCurrent
<1> QED BY <1>1, WorkerInvariance, PTL

----------------------------------------------------------------------------
(* The failure loop.                                                       *)

Reservation == [owner : Attempt, receipt : RetryReceipt, lapsed : BOOLEAN]
Run == [pc : {"idle", "running", "refused", "unfinished", "failed", "done"},
        receipt : RetryReceipt]

\* No receipt is spent twice: as two failures, as two reservations, or as one of each.
ReceiptsAreSpent ==
    /\ \A i, j \in DOMAIN failures : failures[i] = failures[j] => i = j
    /\ \A r, s \in reservations : r.receipt = s.receipt => r = s
    /\ \A i \in DOMAIN failures, r \in reservations : failures[i] # r.receipt

\* A reservation is that of an attempt that started and has not been recorded, for
\* the receipt the attempt carries.
OwnersHold ==
    \A r \in reservations : /\ runs[r.owner].pc \in {"running", "unfinished"}
                            /\ runs[r.owner].receipt = r.receipt

\* An attempt recorded as failed has its receipt in the history, and to itself.
FailedAttempts == {a \in Attempt : runs[a].pc = "failed"}
FailuresHold ==
    /\ \A a \in FailedAttempts : \E i \in DOMAIN failures : failures[i] = runs[a].receipt
    /\ \A a, b \in FailedAttempts : runs[a].receipt = runs[b].receipt => a = b

FailureIInv ==
    /\ FailureTypeOK
    /\ IsFiniteSet(reservations)
    /\ ReceiptsAreSpent
    /\ OwnersHold
    /\ FailuresHold

----------------------------------------------------------------------------
(* The receipts. *)

\* What the guard lets through was spent by no failure and no reservation.
LEMMA AllowedIsFresh ==
    ASSUME NEW t, NEW correction \in BOOLEAN, RetryAllowed(t, correction)
    PROVE  [tuple |-> t, corrected |-> ResetApplied(t, correction)] \notin Prior
<1> DEFINE receipt == [tuple |-> t, corrected |-> ResetApplied(t, correction)]
<1>1. receipt \in Prior => receipt \in Matching(t)
    BY DEF Matching
<1>2. CASE ResetApplied(t, correction)
    BY <1>1, <1>2 DEF ResetApplied
<1>3. CASE ~ResetApplied(t, correction)
    BY <1>1, <1>3 DEF RetryAllowed
<1> QED BY <1>2, <1>3

\* The receipts of the journal are those the prior receipts name.
LEMMA PriorNames ==
    ASSUME NEW receipt, receipt \notin Prior
    PROVE  /\ \A i \in DOMAIN failures : failures[i] # receipt
           /\ \A r \in reservations : r.receipt # receipt
BY DEF Prior

\* A receipt is that of one attempt on record.
LEMMA SpendingIsOne ==
    ASSUME FailureIInv, NEW a \in Attempt, NEW b \in Attempt,
           Spending(a), Spending(b), runs[a].receipt = runs[b].receipt
    PROVE  a = b
<1>1. CASE a \in FailedAttempts /\ b \in FailedAttempts
    BY <1>1 DEF FailureIInv, FailuresHold
<1>2. ASSUME NEW c \in Attempt, c \notin FailedAttempts, Spending(c)
      PROVE  \E r \in reservations : r.owner = c /\ r.receipt = runs[c].receipt
    BY <1>2 DEF FailureIInv, OwnersHold, Spending, OwnReservation, FailedAttempts
<1>3. ASSUME NEW c \in FailedAttempts, NEW r \in reservations
      PROVE  runs[c].receipt # r.receipt
    BY <1>3 DEF FailureIInv, FailuresHold, ReceiptsAreSpent
<1>4. CASE a \notin FailedAttempts /\ b \notin FailedAttempts
    BY <1>2, <1>4 DEF FailureIInv, ReceiptsAreSpent
<1> QED BY <1>1, <1>2, <1>3, <1>4

\* Of a receipt that is spent once, the sizes the property adds are 0 and 0, 1 and 0 or 0 and 1.
LEMMA SpentIsOnce ==
    ASSUME FailureIInv
    PROVE  BudgetIsSpentOnce
<1> SUFFICES ASSUME NEW t \in Tuple, NEW corrected \in BOOLEAN
             PROVE  Spent(t, corrected) <= 1
    BY SpendingIsOne DEF BudgetIsSpentOnce
<1> DEFINE receipt == [tuple |-> t, corrected |-> corrected]
           counted == {i \in DOMAIN failures : failures[i] = receipt}
           held    == {r \in reservations : r.receipt = receipt}
<1>1. \A i, j \in counted : i = j
    BY DEF FailureIInv, ReceiptsAreSpent
<1>2. \A r, s \in held : r = s
    BY DEF FailureIInv, ReceiptsAreSpent
<1>3. counted = {} \/ held = {}
    BY DEF FailureIInv, ReceiptsAreSpent
<1>4. Cardinality({}) = 0
    BY FS_EmptySet
<1>5. ASSUME NEW S, \A x, y \in S : x = y
      PROVE  Cardinality(S) \in {0, 1}
    <2>1. CASE S = {}
        BY <2>1, <1>4
    <2>2. CASE S # {}
        <3>1. PICK x : S = {x}
            BY <1>5, <2>2
        <3> QED BY <3>1, FS_Singleton
    <2> QED BY <2>1, <2>2
<1>6. Cardinality(counted) \in {0, 1} /\ Cardinality(held) \in {0, 1}
    BY <1>1, <1>2, <1>5
<1>7. Spent(t, corrected) = Cardinality(counted) + Cardinality(held)
    BY DEF Spent
<1> HIDE DEF counted, held
<1> QED BY <1>3, <1>4, <1>6, <1>7

----------------------------------------------------------------------------
(* Each action keeps the invariant. *)

\* A smaller set of reservations, with the failures and the attempts as they were.
LEMMA FewerKeep ==
    ASSUME FailureIInv, reservations' \in SUBSET reservations,
           UNCHANGED <<failures, runs>>
    PROVE  FailureIInv'
<1>1. /\ IsFiniteSet(reservations')
      /\ Cardinality(reservations') <= ReservationSize
    <2>1. /\ IsFiniteSet(reservations')
          /\ Cardinality(reservations') <= Cardinality(reservations)
        BY FS_Subset DEF FailureIInv
    <2>2. Cardinality(reservations') \in Nat /\ Cardinality(reservations) \in Nat
        BY <2>1, FS_CardinalityType DEF FailureIInv
    <2> QED BY <2>1, <2>2, FailureAssumption DEF FailureIInv, FailureTypeOK
<1>2. FailureTypeOK'
    BY <1>1 DEF FailureIInv, FailureTypeOK
<1>3. ReceiptsAreSpent' /\ OwnersHold'
    BY DEF FailureIInv, ReceiptsAreSpent, OwnersHold
<1>4. FailuresHold'
    BY DEF FailureIInv, FailuresHold, FailedAttempts
<1> QED BY <1>1, <1>2, <1>3, <1>4 DEF FailureIInv

\* An attempt reserves its slot, or is refused.
LEMMA ReserveKeeps ==
    ASSUME FailureIInv, NEW a \in Attempt, NEW t \in Tuple, NEW correction \in BOOLEAN,
           ReserveFailureLoop(a, t, correction)
    PROVE  FailureIInv'
<1> DEFINE receipt == [tuple |-> t, corrected |-> ResetApplied(t, correction)]
           reservation == [owner |-> a, receipt |-> receipt, lapsed |-> FALSE]
<1>1. runs[a].pc = "idle" /\ failures' = failures
    BY DEF ReserveFailureLoop
<1>2. receipt \in RetryReceipt
    BY DEF RetryReceipt, ResetApplied
<1>3. reservation \in Reservation
    BY <1>2 DEF Reservation
<1>4. \A r \in reservations : r.owner # a
    BY <1>1 DEF FailureIInv, OwnersHold
<1>5. CASE RetryAllowed(t, correction) /\ Cardinality(reservations) < ReservationSize
    <2>1. /\ reservations' = reservations \cup {reservation}
          /\ runs' = [runs EXCEPT ![a] = [pc |-> "running", receipt |-> receipt]]
        BY <1>5 DEF ReserveFailureLoop
    <2>2. receipt \notin Prior
        BY <1>5, AllowedIsFresh
    <2>3. /\ \A i \in DOMAIN failures : failures[i] # receipt
          /\ \A r \in reservations : r.receipt # receipt
        BY <2>2, PriorNames
    <2>4. /\ IsFiniteSet(reservations')
          /\ Cardinality(reservations') <= ReservationSize
        <3>1. /\ IsFiniteSet(reservations')
              /\ Cardinality(reservations') <= Cardinality(reservations) + 1
            <4>1. Cardinality(reservations) \in Nat
                BY FS_CardinalityType DEF FailureIInv
            <4>2. /\ IsFiniteSet(reservations')
                  /\ Cardinality(reservations') =
                       IF reservation \in reservations THEN Cardinality(reservations)
                       ELSE Cardinality(reservations) + 1
                BY <2>1, FS_AddElement, Zenon DEF FailureIInv
            <4> HIDE DEF reservation
            <4> QED BY <4>1, <4>2
        <3>2. Cardinality(reservations') \in Nat /\ Cardinality(reservations) \in Nat
            BY <3>1, FS_CardinalityType DEF FailureIInv
        <3> QED BY <3>1, <3>2, <1>5, FailureAssumption
    <2>5. [pc |-> "running", receipt |-> receipt] \in Run
        BY <1>2 DEF Run
    <2>6. FailureTypeOK'
        BY <1>1, <1>3, <2>1, <2>4, <2>5 DEF FailureIInv, FailureTypeOK, Reservation, Run
    <2>7. reservation.receipt = receipt /\ reservation.owner = a
        OBVIOUS
    <2> HIDE DEF reservation
    <2>8. ReceiptsAreSpent'
        BY <1>1, <2>1, <2>3, <2>7 DEF FailureIInv, ReceiptsAreSpent
    <2>9. runs'[a].pc = "running" /\ runs'[a].receipt = receipt
        BY <2>1 DEF FailureIInv, FailureTypeOK
    <2>10. \A r \in reservations : runs'[r.owner] = runs[r.owner]
        BY <2>1, <1>4 DEF FailureIInv, FailureTypeOK
    <2>11. OwnersHold'
        BY <2>1, <2>7, <2>9, <2>10 DEF FailureIInv, OwnersHold
    <2>12. FailuresHold'
        <3>1. FailedAttempts' = FailedAttempts
              /\ \A b \in FailedAttempts : runs'[b] = runs[b]
            BY <1>1, <2>1, <2>9 DEF FailureIInv, FailureTypeOK, FailedAttempts
        <3> QED BY <1>1, <3>1 DEF FailureIInv, FailuresHold
    <2> QED BY <2>4, <2>6, <2>8, <2>11, <2>12 DEF FailureIInv
<1>6. CASE ~(RetryAllowed(t, correction) /\ Cardinality(reservations) < ReservationSize)
    <2>1. /\ runs' = [runs EXCEPT ![a].pc = "refused"]
          /\ reservations' = reservations
        BY <1>6 DEF ReserveFailureLoop
    <2>2. FailureTypeOK'
        BY <1>1, <2>1 DEF FailureIInv, FailureTypeOK
    <2>3. OwnersHold'
        BY <2>1, <1>4 DEF FailureIInv, FailureTypeOK, OwnersHold
    <2>4. FailuresHold'
        BY <1>1, <2>1 DEF FailureIInv, FailureTypeOK, FailuresHold, FailedAttempts
    <2> QED BY <1>1, <2>1, <2>2, <2>3, <2>4 DEF FailureIInv, ReceiptsAreSpent
<1> QED BY <1>5, <1>6

\* A reservation lapses: it stays the reservation of the same attempt and receipt.
LEMMA LapseKeeps ==
    ASSUME FailureIInv, NEW r \in reservations, ReservationLapses(r)
    PROVE  FailureIInv'
<1> DEFINE lapsed == [r EXCEPT !.lapsed = TRUE]
<1>1. /\ reservations' = (reservations \ {r}) \cup {lapsed}
      /\ failures' = failures /\ runs' = runs
    BY DEF ReservationLapses
<1>2. r \in Reservation
    BY DEF FailureIInv, FailureTypeOK, Reservation
<1>3. lapsed \in Reservation /\ lapsed.owner = r.owner /\ lapsed.receipt = r.receipt
    BY <1>2 DEF Reservation
<1> HIDE DEF lapsed
<1>4. /\ IsFiniteSet(reservations')
      /\ Cardinality(reservations') <= ReservationSize
    <2>1. /\ IsFiniteSet(reservations \ {r})
          /\ Cardinality(reservations \ {r}) = Cardinality(reservations) - 1
        BY FS_RemoveElement DEF FailureIInv
    <2>2. /\ IsFiniteSet(reservations')
          /\ Cardinality(reservations') =
               IF lapsed \in reservations \ {r} THEN Cardinality(reservations \ {r})
               ELSE Cardinality(reservations \ {r}) + 1
        BY <2>1, <1>1, FS_AddElement
    <2>3. Cardinality(reservations) \in Nat
        BY FS_CardinalityType DEF FailureIInv
    <2> QED BY <2>1, <2>2, <2>3, FailureAssumption DEF FailureIInv, FailureTypeOK
<1>5. FailureTypeOK'
    BY <1>1, <1>3, <1>4 DEF FailureIInv, FailureTypeOK, Reservation
<1>6. ReceiptsAreSpent'
    BY <1>1, <1>3 DEF FailureIInv, ReceiptsAreSpent
<1>7. OwnersHold'
    BY <1>1, <1>3 DEF FailureIInv, OwnersHold
<1>8. FailuresHold'
    BY <1>1 DEF FailureIInv, FailuresHold, FailedAttempts
<1> QED BY <1>4, <1>5, <1>6, <1>7, <1>8 DEF FailureIInv

\* An attempt ends without touching the journal.
LEMMA UnfinishedKeeps ==
    ASSUME FailureIInv, NEW a \in Attempt, runs[a].pc = "running",
           runs' = [runs EXCEPT ![a].pc = "unfinished"],
           UNCHANGED <<failures, reservations>>
    PROVE  FailureIInv'
<1>1. FailureTypeOK'
    BY DEF FailureIInv, FailureTypeOK
<1>2. OwnersHold'
    BY DEF FailureIInv, FailureTypeOK, OwnersHold
<1>3. FailuresHold'
    BY DEF FailureIInv, FailureTypeOK, FailuresHold, FailedAttempts
<1> QED BY <1>1, <1>2, <1>3 DEF FailureIInv, ReceiptsAreSpent

\* An attempt gives its slot up, as a failure or as a success.
LEMMA FinishKeeps ==
    ASSUME FailureIInv, NEW a \in Attempt, NEW failed \in BOOLEAN,
           FinishFailureLoop(a, failed)
    PROVE  FailureIInv'
<1>1. CASE Cardinality(Matched(a)) # 1 \/ (failed /\ Len(failures) >= HistorySize)
    BY <1>1, UnfinishedKeeps DEF FinishFailureLoop
<1>2. CASE ~(Cardinality(Matched(a)) # 1 \/ (failed /\ Len(failures) >= HistorySize))
    <2>1. /\ runs' = [runs EXCEPT ![a].pc = IF failed THEN "failed" ELSE "done"]
          /\ reservations' = reservations \ OwnReservation(a)
          /\ failures' = IF failed THEN Append(failures, runs[a].receipt) ELSE failures
        BY <1>2 DEF FinishFailureLoop
    <2>2. PICK own \in reservations : own.owner = a
        <3>1. Cardinality(OwnReservation(a)) = 1
            BY <1>2 DEF Matched
        <3>2. OwnReservation(a) # {}
            BY <3>1, FS_EmptySet
        <3> QED BY <3>2 DEF OwnReservation
    <2>3. own.receipt = runs[a].receipt /\ own \notin reservations'
        BY <2>1, <2>2 DEF FailureIInv, OwnersHold, OwnReservation
    <2>4. reservations' \in SUBSET reservations /\ \A r \in reservations' : r.owner # a
        BY <2>1 DEF OwnReservation
    <2>5. runs[a].receipt \in RetryReceipt
        BY DEF FailureIInv, FailureTypeOK
    <2>6. failures' \in Seq(RetryReceipt) /\ Len(failures') <= HistorySize
        BY <1>2, <2>1, <2>5, FailureAssumption DEF FailureIInv, FailureTypeOK
    <2>7. /\ IsFiniteSet(reservations')
          /\ Cardinality(reservations') <= ReservationSize
        <3>1. /\ IsFiniteSet(reservations')
              /\ Cardinality(reservations') <= Cardinality(reservations)
            BY <2>4, FS_Subset DEF FailureIInv
        <3>2. Cardinality(reservations') \in Nat /\ Cardinality(reservations) \in Nat
            BY <3>1, FS_CardinalityType DEF FailureIInv
        <3> QED BY <3>1, <3>2, FailureAssumption DEF FailureIInv, FailureTypeOK
    <2>8. runs' \in [Attempt -> Run]
        BY <2>1 DEF FailureIInv, FailureTypeOK, Run
    <2>9. FailureTypeOK'
        BY <2>4, <2>6, <2>7, <2>8 DEF FailureIInv, FailureTypeOK, Run
    <2>10. \A r \in reservations' : r.receipt # runs[a].receipt
        BY <2>2, <2>3, <2>4 DEF FailureIInv, ReceiptsAreSpent
    <2>11. \A i \in DOMAIN failures : failures[i] # runs[a].receipt
        BY <2>2, <2>3 DEF FailureIInv, ReceiptsAreSpent
    <2>12. ReceiptsAreSpent'
        <3>1. CASE failed
            <4>1. failures' = Append(failures, runs[a].receipt)
                BY <2>1, <3>1
            <4>2. failures \in Seq(RetryReceipt) /\ Len(failures) \in Nat
                BY DEF FailureIInv, FailureTypeOK
            <4>3. /\ DOMAIN failures = 1..Len(failures)
                  /\ DOMAIN failures' = 1..(Len(failures) + 1)
                  /\ \A i \in 1..Len(failures) : failures'[i] = failures[i]
                  /\ failures'[Len(failures) + 1] = runs[a].receipt
                BY <4>1, <4>2, <2>5
            <4>4. \A i \in DOMAIN failures' : i \in DOMAIN failures \/ i = Len(failures) + 1
                BY <4>2, <4>3
            <4>5. \A i, j \in DOMAIN failures' : failures'[i] = failures'[j] => i = j
                BY <4>3, <4>4, <2>11 DEF FailureIInv, ReceiptsAreSpent
            <4>6. \A i \in DOMAIN failures', r \in reservations' : failures'[i] # r.receipt
                BY <4>3, <4>4, <2>4, <2>10 DEF FailureIInv, ReceiptsAreSpent
            <4> QED BY <4>5, <4>6, <2>4 DEF FailureIInv, ReceiptsAreSpent
        <3>2. CASE ~failed
            BY <3>2, <2>1, <2>4 DEF FailureIInv, ReceiptsAreSpent
        <3> QED BY <3>1, <3>2
    <2>13. \A r \in reservations' : runs'[r.owner] = runs[r.owner]
        BY <2>1, <2>4 DEF FailureIInv, FailureTypeOK
    <2>14. OwnersHold'
        BY <2>4, <2>13 DEF FailureIInv, OwnersHold
    <2>15. FailuresHold'
        <3>1. a \notin FailedAttempts /\ \A b \in FailedAttempts : runs'[b] = runs[b]
            BY <2>1 DEF FinishFailureLoop, FailureIInv, FailureTypeOK, FailedAttempts
        <3>2. runs'[a].receipt = runs[a].receipt
            BY <2>1 DEF FailureIInv, FailureTypeOK
        <3>3. CASE failed
            <4>1. failures' = Append(failures, runs[a].receipt)
                BY <2>1, <3>3
            <4>2. failures \in Seq(RetryReceipt) /\ Len(failures) \in Nat
                BY DEF FailureIInv, FailureTypeOK
            <4>3. /\ \A i \in DOMAIN failures : i \in DOMAIN failures' /\ failures'[i] = failures[i]
                  /\ Len(failures) + 1 \in DOMAIN failures'
                  /\ failures'[Len(failures) + 1] = runs[a].receipt
                BY <4>1, <4>2, <2>5
            <4>4. FailedAttempts' = FailedAttempts \cup {a}
                BY <2>1, <3>3 DEF FailureIInv, FailureTypeOK, FailedAttempts
            <4>5. \A b \in FailedAttempts : runs[b].receipt # runs[a].receipt
                BY <2>11 DEF FailureIInv, FailuresHold
            <4>6. \A b \in FailedAttempts' :
                    \E i \in DOMAIN failures' : failures'[i] = runs'[b].receipt
                BY <3>1, <3>2, <4>3, <4>4 DEF FailureIInv, FailuresHold
            <4>7. \A b, c \in FailedAttempts' : runs'[b].receipt = runs'[c].receipt => b = c
                BY <3>1, <3>2, <4>4, <4>5 DEF FailureIInv, FailuresHold
            <4> QED BY <4>6, <4>7 DEF FailuresHold
        <3>4. CASE ~failed
            <4>1. runs'[a].pc = "done" /\ failures' = failures
                BY <2>1, <3>4 DEF FailureIInv, FailureTypeOK
            <4>2. \A b \in Attempt \ {a} : runs'[b] = runs[b]
                BY <2>1 DEF FailureIInv, FailureTypeOK
            <4>3. FailedAttempts' = FailedAttempts
                BY <3>1, <4>1, <4>2 DEF FailedAttempts
            <4> QED BY <3>1, <4>1, <4>3 DEF FailureIInv, FailuresHold
        <3> QED BY <3>3, <3>4
    <2> QED BY <2>7, <2>9, <2>12, <2>14, <2>15 DEF FailureIInv
<1> QED BY <1>1, <1>2

----------------------------------------------------------------------------

\* The journal starts empty, and every action keeps the invariant.
THEOREM FailureInvariance == FailureSpec => []FailureIInv
<1>1. FailureInit => FailureIInv
    <2> SUFFICES ASSUME FailureInit PROVE FailureIInv
        OBVIOUS
    <2>1. BlankReceipt \in RetryReceipt
        <3>1. \E t \in Tuple : TRUE
            <4>1. PICK f \in Failure, c \in Context : TRUE
                BY FailureAssumption
            <4>2. [failure |-> f, context |-> c] \in Tuple
                BY <4>1 DEF Tuple
            <4> QED BY <4>2
        <3>2. (CHOOSE t \in Tuple : TRUE) \in Tuple
            BY <3>1
        <3> QED BY <3>2 DEF BlankReceipt, RetryReceipt
    <2>2. IsFiniteSet({}) /\ Cardinality({}) = 0
        BY FS_EmptySet
    <2>3. FailureTypeOK
        BY <2>1, <2>2, FailureAssumption DEF FailureInit, FailureTypeOK
    <2> QED BY <2>2, <2>3 DEF FailureInit, FailureIInv, ReceiptsAreSpent, OwnersHold,
                               FailuresHold, FailedAttempts
<1>2. FailureIInv /\ [FailureNext]_failureVars => FailureIInv'
    <2> SUFFICES ASSUME FailureIInv, [FailureNext]_failureVars PROVE FailureIInv'
        OBVIOUS
    <2>1. CASE DropLapsed
        BY <2>1, FewerKeep DEF DropLapsed
    <2>2. ASSUME NEW r \in reservations, ReservationLapses(r) PROVE FailureIInv'
        BY <2>2, LapseKeeps
    <2>3. ASSUME NEW a \in Attempt, NEW t \in Tuple, NEW correction \in BOOLEAN,
                 ReserveFailureLoop(a, t, correction)
          PROVE  FailureIInv'
        BY <2>3, ReserveKeeps
    <2>4. ASSUME NEW a \in Attempt, NEW failed \in BOOLEAN, FinishFailureLoop(a, failed)
          PROVE  FailureIInv'
        BY <2>4, FinishKeeps
    <2>5. ASSUME NEW a \in Attempt, AttemptLost(a) PROVE FailureIInv'
        BY <2>5, UnfinishedKeeps DEF AttemptLost
    <2>6. CASE UNCHANGED failureVars
        BY <2>6 DEF failureVars, FailureIInv, FailureTypeOK, ReceiptsAreSpent, OwnersHold,
                    FailuresHold, FailedAttempts
    <2> QED BY <2>1, <2>2, <2>3, <2>4, <2>5, <2>6 DEF FailureNext
<1> QED BY <1>1, <1>2, PTL DEF FailureSpec

\* The journal keeps its bounds and its shape, and the attempts theirs.
THEOREM FailureTypeCorrect == FailureSpec => []FailureTypeOK
<1>1. FailureIInv => FailureTypeOK
    BY DEF FailureIInv
<1> QED BY <1>1, FailureInvariance, PTL

\* Whatever lapses, gets lost or finishes late, a failure in its context is on
\* record once, and once more after a user correction, and for one attempt each
\* (BudgetIsSpentOnce).
THEOREM BudgetSpentOnce == FailureSpec => []BudgetIsSpentOnce
<1>1. FailureIInv => BudgetIsSpentOnce
    BY SpentIsOnce
<1> QED BY <1>1, FailureInvariance, PTL

----------------------------------------------------------------------------
(* Turn close: a late authority.                                           *)

Happened(transition) == \E i \in DOMAIN written : TransitionOf(written[i]) = transition

\* A call keeps the transition it began with; only a checkpoint has content, and
\* only a checkpoint is reconciled.
CallsOK ==
  \A c \in Caller :
    /\ calls[c].pc # "idle" => calls[c].id \in Id /\ calls[c].revision <= ContractRevision
    /\ calls[c].action = "ResumeParent" => calls[c].checkpoint = NoCheckpoint
    /\ calls[c].pc = "unsure" => /\ calls[c].action = "Set"
                                 /\ calls[c].result \in {"refused", "unknown"}
    /\ calls[c].pc = "resolved" => calls[c].action = "ResumeParent"

\* Every process works for the transition of a call that began; what one says was
\* written was, and one that holds the lock to resume a parent found one.
AttemptOK(a) ==
    /\ TransitionOf(a) = TransitionOf(calls[a.caller]) /\ calls[a.caller].pc # "idle"
    /\ a.revision <= ContractRevision
    /\ a.stage = "answered" => a.answer # "none"
    /\ a.answer = "policy" => a.action = "ResumeParent"
    /\ a.answer \in {"ok", "replay"} => Happened(TransitionOf(a))
    /\ a.stage \in {"holding", "orphan"} /\ a.action = "ResumeParent"
         /\ a.revision = ContractRevision => ResumeRequired

AttemptsOK == \A a \in attempts : AttemptOK(a)

OneForAnId(ledger) ==
  \A i, j \in DOMAIN ledger : ledger[i].id = ledger[j].id => i = j

\* The ledger holds nothing but what was written, one receipt to an id.
LedgerOK ==
  /\ \A i \in DOMAIN contract.ledger :
       /\ Happened(contract.ledger[i])
       /\ contract.ledger[i].action = "ResumeParent" =>
            contract.ledger[i].checkpoint = NoCheckpoint
  /\ OneForAnId(contract.ledger)

\* What is shown, or was when a side branch began, was written.
WasProved(shown) ==
  shown.id = OtherId
    \/ Happened([id |-> shown.id, action |-> "Set", checkpoint |-> shown.checkpoint])

ShownOK ==
  WasProved(contract.shown) /\ \A i \in DOMAIN contract.cards : WasProved(contract.cards[i])

TurnIInv ==
  TurnTypeOK /\ CallsOK /\ AttemptsOK /\ LedgerOK /\ ShownOK /\ TransitionsAreTrue

\* The ledger after a transition: its receipt last, the others as they were, but for
\* the oldest of too many.
LEMMA LimitIs ==
  ASSUME NEW ledger \in Seq(Receipt), OneForAnId(ledger), NEW r \in Receipt
  PROVE  /\ LimitReceipts(ledger, r) \in Seq(Receipt)
         /\ Len(LimitReceipts(ledger, r)) <= LedgerSize
         /\ OneForAnId(LimitReceipts(ledger, r))
         /\ \A i \in DOMAIN LimitReceipts(ledger, r) :
              \/ LimitReceipts(ledger, r)[i] = r
              \/ \E j \in DOMAIN ledger : LimitReceipts(ledger, r)[i] = ledger[j]
<1> DEFINE at == Places(ledger, r.id)
           base == IF at = {} THEN ledger ELSE RemoveAt(ledger, CHOOSE i \in at : TRUE)
           all == Append(base, r)
<1>1. /\ base \in Seq(Receipt) /\ OneForAnId(base)
      /\ \A i \in DOMAIN base :
           base[i].id # r.id /\ \E j \in DOMAIN ledger : base[i] = ledger[j]
  <2>1. CASE at = {}
    BY <2>1 DEF Places
  <2>2. CASE at # {}
    <3>1. PICK k \in at : base = RemoveAt(ledger, k)
      BY <2>2
    <3>2. k \in 1 .. Len(ledger) /\ ledger[k].id = r.id
      BY <3>1 DEF Places
    <3> HIDE DEF base, at
    <3>3. base = SubSeq(ledger, 1, k - 1) \o SubSeq(ledger, k + 1, Len(ledger))
      BY <3>1 DEF RemoveAt
    <3> DEFINE x == SubSeq(ledger, 1, k - 1)
               y == SubSeq(ledger, k + 1, Len(ledger))
    <3>a. /\ x \in Seq(Receipt) /\ Len(x) = k - 1
          /\ \A i \in 1 .. k - 1 : x[i] = ledger[i]
      BY <3>2
    <3>b. /\ y \in Seq(Receipt) /\ Len(y) = Len(ledger) - k
          /\ \A i \in 1 .. Len(ledger) - k : y[i] = ledger[k + i]
      BY <3>2
    <3>c. base = x \o y
      BY <3>3
    <3> HIDE DEF x, y
    <3>d. /\ base \in Seq(Receipt) /\ Len(base) = Len(x) + Len(y)
          /\ \A i \in 1 .. Len(x) + Len(y) :
               base[i] = IF i <= Len(x) THEN x[i] ELSE y[i - Len(x)]
      <4>1. x \in Seq(Receipt) /\ y \in Seq(Receipt)
        BY <3>a, <3>b
      <4>2. x \o y \in Seq(Receipt) /\ Len(x \o y) = Len(x) + Len(y)
        BY <4>1
      <4>3. \A i \in 1 .. Len(x) + Len(y) :
              (x \o y)[i] = IF i <= Len(x) THEN x[i] ELSE y[i - Len(x)]
        BY <4>1
      <4> QED BY <3>c, <4>2, <4>3
    <3>e. Len(base) = Len(ledger) - 1 /\ Len(ledger) \in Nat /\ k \in Nat
      BY <3>2, <3>a, <3>b, <3>d
    <3>4. ASSUME NEW i \in 1 .. Len(base)
          PROVE  base[i] = IF i < k THEN ledger[i] ELSE ledger[i + 1]
      <4>1. base[i] = IF i <= k - 1 THEN x[i] ELSE y[i - (k - 1)]
        BY <3>a, <3>b, <3>d, <3>e
      <4>2. CASE i < k
        BY <3>2, <3>a, <3>e, <4>1, <4>2
      <4>3. CASE ~(i < k)
        <5>1. i - (k - 1) \in 1 .. Len(ledger) - k /\ k + (i - (k - 1)) = i + 1
          BY <3>2, <3>e, <4>3
        <5> QED BY <3>2, <3>b, <3>e, <4>1, <4>3, <5>1
      <4> QED BY <4>2, <4>3
    <3>5. ASSUME NEW i \in 1 .. Len(base)
          PROVE  \E j \in 1 .. Len(ledger) :
             j # k /\ base[i] = ledger[j] /\ j = IF i < k THEN i ELSE i + 1
      <4>1. (IF i < k THEN i ELSE i + 1) \in 1 .. Len(ledger)
        BY <3>2, <3>e
      <4>2. (IF i < k THEN i ELSE i + 1) # k
        BY <3>2, <3>e
      <4> QED BY <3>4, <4>1, <4>2
    <3>6. ASSUME NEW i \in DOMAIN base PROVE base[i].id # r.id
      <4>1. PICK j \in 1 .. Len(ledger) : j # k /\ base[i] = ledger[j]
        BY <3>5, <3>d
      <4> QED BY <3>2, <4>1 DEF OneForAnId
    <3>7. OneForAnId(base)
      <4> SUFFICES ASSUME NEW i \in 1 .. Len(base), NEW j \in 1 .. Len(base),
                          base[i].id = base[j].id
                   PROVE  i = j
        BY <3>d DEF OneForAnId
      <4>1. PICK u \in 1 .. Len(ledger) :
               base[i] = ledger[u] /\ u = IF i < k THEN i ELSE i + 1
        BY <3>5
      <4>2. PICK v \in 1 .. Len(ledger) :
               base[j] = ledger[v] /\ v = IF j < k THEN j ELSE j + 1
        BY <3>5
      <4>3. u = v
        BY <4>1, <4>2 DEF OneForAnId
      <4> QED BY <3>2, <3>e, <4>1, <4>2, <4>3
    <3>8. ASSUME NEW i \in DOMAIN base PROVE \E j \in DOMAIN ledger : base[i] = ledger[j]
      <4>1. i \in 1 .. Len(base)
        BY <3>d
      <4>2. PICK j \in 1 .. Len(ledger) : base[i] = ledger[j]
        BY <3>5, <4>1
      <4> QED BY <4>2
    <3> QED BY <3>d, <3>6, <3>7, <3>8
  <2> QED BY <2>1, <2>2
<1>2. UnlimitedReceipts(ledger, r) = all
  BY DEF UnlimitedReceipts
<1> HIDE DEF base
<1>3. /\ all \in Seq(Receipt) /\ Len(all) = Len(base) + 1 /\ Len(base) \in Nat
      /\ all[Len(all)] = r
      /\ \A i \in 1 .. Len(base) : all[i] = base[i]
  BY <1>1
<1>4. \A i \in DOMAIN all : all[i] = r \/ \E j \in DOMAIN ledger : all[i] = ledger[j]
  BY <1>1, <1>3
<1>5. OneForAnId(all)
  BY <1>1, <1>3 DEF OneForAnId
<1> HIDE DEF all
<1>6. LedgerSize \in Nat
  BY TurnAssumption
<1>7. CASE Len(all) <= LedgerSize
  BY <1>2, <1>3, <1>4, <1>5, <1>7 DEF LimitReceipts
<1>8. CASE ~(Len(all) <= LedgerSize)
  <2> DEFINE d == Len(all) - LedgerSize
             some == SubSeq(all, d + 1, Len(all))
  <2>1. LimitReceipts(ledger, r) = some
    BY <1>2, <1>8 DEF LimitReceipts
  <2>2. d \in Nat /\ d <= Len(all)
    BY <1>3, <1>6, <1>8
  <2>3. /\ some \in Seq(Receipt) /\ Len(some) = LedgerSize
        /\ \A i \in 1 .. LedgerSize : some[i] = all[i + d] /\ i + d \in 1 .. Len(all)
    BY <1>3, <1>6, <2>2
  <2> HIDE DEF some, d
  <2>4. OneForAnId(some)
    <3> SUFFICES ASSUME NEW i \in 1 .. LedgerSize, NEW j \in 1 .. LedgerSize,
                        some[i].id = some[j].id
                 PROVE  i = j
      BY <2>3 DEF OneForAnId
    <3>1. i + d = j + d
      BY <1>3, <1>5, <2>3 DEF OneForAnId
    <3> QED BY <1>6, <2>2, <3>1
  <2>5. \A i \in DOMAIN some : some[i] = r \/ \E j \in DOMAIN ledger : some[i] = ledger[j]
    BY <1>3, <1>4, <2>3
  <2> QED BY <1>6, <2>1, <2>3, <2>4, <2>5
<1> QED BY <1>7, <1>8

\* A transition that is written has happened, and what had happened still has.
LEMMA WrittenGrows ==
  ASSUME TurnTypeOK, NEW t \in Receipt, NEW n,
         written' = Append(written, AskedFor(t, n))
  PROVE  /\ Happened(t)'
         /\ \A u : Happened(u) => Happened(u)'
         /\ Len(written') = Len(written) + 1
         /\ written'[Len(written) + 1] = AskedFor(t, n)
         /\ \A i \in DOMAIN written : written'[i] = written[i]
<1> DEFINE last == AskedFor(t, n)
<1>1. TransitionOf(last) = t
  BY DEF TransitionOf, AskedFor, Receipt
<1> HIDE DEF last
<1>2. /\ written' = Append(written, last) /\ Len(written) \in Nat
      /\ DOMAIN written = 1 .. Len(written)
      /\ DOMAIN written' = 1 .. Len(written) + 1
      /\ Len(written') = Len(written) + 1
      /\ written'[Len(written) + 1] = last
      /\ \A i \in DOMAIN written : written'[i] = written[i]
  BY DEF TurnTypeOK, last
<1>3. Happened(t)'
  BY <1>1, <1>2 DEF Happened
<1>4. ASSUME NEW u, Happened(u) PROVE Happened(u)'
  <2>1. PICK i \in DOMAIN written : TransitionOf(written[i]) = u
    BY <1>4 DEF Happened
  <2>2. TransitionOf(written'[i]) = u /\ i \in DOMAIN written'
    BY <1>2, <2>1
  <2> QED BY <2>2 DEF Happened
<1> QED BY <1>2, <1>3, <1>4 DEF last

\* What a step that writes nothing may do to a call.
CallFollows(c) ==
  /\ calls'[c].pc # "idle" /\ calls'[c].id \in Id /\ calls'[c].revision <= ContractRevision
  /\ calls'[c].action = "ResumeParent" => calls'[c].checkpoint = NoCheckpoint
  /\ calls'[c].pc = "unsure" => /\ calls'[c].action = "Set"
                                /\ calls'[c].result \in {"refused", "unknown"}
  /\ calls'[c].pc = "resolved" => calls'[c].action = "ResumeParent"
  /\ calls[c].pc # "idle" => TransitionOf(calls'[c]) = TransitionOf(calls[c])
  /\ calls'[c].pc = "done" /\ calls'[c].result \in {"written", "reconciled", "replayed"}
       => Happened(TransitionOf(calls'[c]))

\* A step that writes nothing keeps the invariant, if it changes calls and processes
\* as they may be changed.
LEMMA QuietKeeps ==
  ASSUME TurnIInv, UNCHANGED <<contract, written>>,
         mutationFiles' \in [Id -> 0 .. MaxWritten + 1],
         calls' \in [Caller -> CallRecord], attempts' \subseteq AuthorityProcess,
         \A c \in Caller : calls'[c] = calls[c] \/ CallFollows(c),
         \A b \in attempts' : b \in attempts \/ AttemptOK(b)'
  PROVE  TurnIInv'
<1>0. /\ TurnTypeOK /\ CallsOK /\ AttemptsOK /\ LedgerOK /\ ShownOK
      /\ ReportedTransitionHappened /\ NothingUnseenIsReplaced
  BY DEF TurnIInv, TransitionsAreTrue
<1>1. \A t : Happened(t)' <=> Happened(t)
  BY DEF Happened
<1>2. TurnTypeOK'
  BY <1>0 DEF TurnTypeOK
<1>3. CallsOK'
  BY <1>0 DEF CallsOK, CallFollows, ContractRevision
<1>4. AttemptsOK'
  <2> SUFFICES ASSUME NEW b \in attempts' PROVE AttemptOK(b)'
    BY DEF AttemptsOK
  <2>1. CASE b \in attempts
    <3>1. AttemptOK(b) /\ b.caller \in Caller
      BY <1>0, <2>1 DEF AttemptsOK, TurnTypeOK, AuthorityProcess
    <3>2. /\ TransitionOf(calls'[b.caller]) = TransitionOf(calls[b.caller])
          /\ calls'[b.caller].pc # "idle"
      BY <3>1 DEF AttemptOK, CallFollows
    <3>3. Happened(TransitionOf(b))' <=> Happened(TransitionOf(b))
      BY <1>1
    <3> QED BY <3>1, <3>2, <3>3 DEF AttemptOK, ContractRevision, ResumeRequired
  <2> QED BY <2>1
<1>5. LedgerOK' /\ ShownOK'
  BY <1>0, <1>1 DEF LedgerOK, ShownOK, WasProved
<1>6. ReportedTransitionHappened'
  <2> SUFFICES ASSUME NEW c \in Caller, calls'[c].pc = "done",
                      calls'[c].result \in {"written", "reconciled", "replayed"}
               PROVE  Happened(TransitionOf(calls'[c]))
    BY DEF ReportedTransitionHappened, Done, Happened
  <2>1. CASE calls'[c] = calls[c]
    BY <1>0, <2>1 DEF ReportedTransitionHappened, Done, Happened
  <2> QED BY <2>1 DEF CallFollows
<1>7. NothingUnseenIsReplaced'
  BY <1>0 DEF NothingUnseenIsReplaced
<1> QED BY <1>2, <1>3, <1>4, <1>5, <1>6, <1>7 DEF TurnIInv, TransitionsAreTrue

\* A transition that replaces the revision it was asked for.
LEMMA WriteKeeps ==
  ASSUME TurnIInv, NEW t \in Receipt,
         t.action = "ResumeParent" => t.checkpoint = NoCheckpoint,
         Len(written) < MaxWritten,
         written' = Append(written, AskedFor(t, ContractRevision)),
         contract'.ledger = LimitReceipts(contract.ledger, t),
         contract' \in [ledger : Seq(Receipt), shown : Shown, cards : Seq(Shown)],
         ShownOK', UNCHANGED <<mutationFiles, calls>>, attempts' \subseteq AuthorityProcess,
         \A b \in attempts' : b \in attempts \/ AttemptOK(b)'
  PROVE  TurnIInv'
<1>0. /\ TurnTypeOK /\ CallsOK /\ AttemptsOK /\ LedgerOK
      /\ ReportedTransitionHappened /\ NothingUnseenIsReplaced
      /\ MaxWritten \in Nat /\ Len(written) \in Nat
      /\ contract.ledger \in Seq(Receipt) /\ OneForAnId(contract.ledger)
  BY TurnAssumption DEF TurnIInv, TransitionsAreTrue, TurnTypeOK, LedgerOK
<1>1. /\ Happened(t)' /\ \A u : Happened(u) => Happened(u)'
      /\ Len(written') = Len(written) + 1
      /\ written'[Len(written) + 1] = AskedFor(t, ContractRevision)
      /\ \A i \in DOMAIN written : written'[i] = written[i]
  BY <1>0, WrittenGrows
<1>2. /\ contract'.ledger \in Seq(Receipt) /\ Len(contract'.ledger) <= LedgerSize
      /\ OneForAnId(contract'.ledger)
      /\ \A i \in DOMAIN contract'.ledger :
           \/ contract'.ledger[i] = t
           \/ \E j \in DOMAIN contract.ledger : contract'.ledger[i] = contract.ledger[j]
  BY <1>0, LimitIs
<1>3. TurnTypeOK'
  <2>1. ContractRevision \in 1 .. MaxWritten
    BY <1>0 DEF ContractRevision
  <2>2. AskedFor(t, ContractRevision) \in
          [id : Id \cup {OtherId}, action : {"Set", "ResumeParent"},
           checkpoint : Checkpoint \cup {NoCheckpoint}, seen : 1 .. MaxWritten]
    BY <2>1 DEF AskedFor, Receipt
  <2>3. written' \in Seq([id : Id \cup {OtherId}, action : {"Set", "ResumeParent"},
                          checkpoint : Checkpoint \cup {NoCheckpoint},
                          seen : 1 .. MaxWritten])
    <3> HIDE DEF AskedFor
    <3> QED BY <1>0, <2>2 DEF TurnTypeOK
  <2>4. Len(written') <= MaxWritten
    BY <1>0, <1>1
  <2> QED BY <1>0, <1>2, <2>3, <2>4 DEF TurnTypeOK
<1>4. ContractRevision' = ContractRevision + 1 /\ ContractRevision \in Nat
  BY <1>0, <1>1 DEF ContractRevision
<1>5. CallsOK'
  <2>1. \A c \in Caller : calls[c].revision \in Nat
    BY <1>0 DEF TurnTypeOK, CallRecord
  <2> QED BY <1>0, <1>4, <2>1 DEF CallsOK
<1>6. AttemptsOK'
  <2> SUFFICES ASSUME NEW b \in attempts' PROVE AttemptOK(b)'
    BY DEF AttemptsOK
  <2>1. CASE b \in attempts
    <3>1. AttemptOK(b) /\ b.revision \in Nat
      BY <1>0, <2>1 DEF AttemptsOK, TurnTypeOK, AuthorityProcess
    <3>2. Happened(TransitionOf(b)) => Happened(TransitionOf(b))'
      <4>1. PICK u : u = TransitionOf(b)
        OBVIOUS
      <4>2. Happened(u) => Happened(u)'
        BY <1>1
      <4> QED BY <4>1, <4>2 DEF Happened
    <3>3. b.revision <= ContractRevision' /\ b.revision # ContractRevision'
      BY <1>4, <3>1 DEF AttemptOK
    <3> QED BY <3>1, <3>2, <3>3 DEF AttemptOK
  <2> QED BY <2>1
<1>7. LedgerOK'
  <2> SUFFICES ASSUME NEW i \in DOMAIN contract'.ledger
               PROVE  /\ \E k \in DOMAIN written' :
                           TransitionOf(written'[k]) = contract'.ledger[i]
                      /\ contract'.ledger[i].action = "ResumeParent" =>
                           contract'.ledger[i].checkpoint = NoCheckpoint
    BY <1>2 DEF LedgerOK, OneForAnId, Happened
  <2>1. PICK u : u = contract'.ledger[i]
    OBVIOUS
  <2>2. Happened(u)' /\ (u.action = "ResumeParent" => u.checkpoint = NoCheckpoint)
    <3>1. CASE u = t
      BY <1>1, <3>1 DEF Happened
    <3>2. ASSUME NEW j \in DOMAIN contract.ledger, u = contract.ledger[j]
          PROVE  Happened(u)' /\ (u.action = "ResumeParent" => u.checkpoint = NoCheckpoint)
      <4>1. Happened(u) /\ (u.action = "ResumeParent" => u.checkpoint = NoCheckpoint)
        BY <1>0, <3>2 DEF LedgerOK
      <4> QED BY <1>1, <4>1
    <3> QED BY <1>2, <2>1, <3>1, <3>2
  <2> QED BY <2>1, <2>2 DEF Happened
<1>8. ReportedTransitionHappened'
  <2> SUFFICES ASSUME NEW c \in Caller, Done(c, {"written", "reconciled", "replayed"})
               PROVE  \E i \in DOMAIN written' :
                         TransitionOf(written'[i]) = TransitionOf(calls[c])
    BY DEF ReportedTransitionHappened, Done
  <2>1. PICK u : u = TransitionOf(calls[c])
    OBVIOUS
  <2>2. Happened(u)
    BY <1>0, <2>1 DEF ReportedTransitionHappened, Happened
  <2> QED BY <1>1, <2>1, <2>2 DEF Happened
<1>9. NothingUnseenIsReplaced'
  <2> SUFFICES ASSUME NEW i \in DOMAIN written' PROVE written'[i].seen = i
    BY DEF NothingUnseenIsReplaced
  <2>1. DOMAIN written' = 1 .. Len(written) + 1 /\ DOMAIN written = 1 .. Len(written)
    BY <1>0, <1>1, <1>3 DEF TurnTypeOK
  <2>2. CASE i \in DOMAIN written
    BY <1>0, <1>1, <2>2 DEF NothingUnseenIsReplaced
  <2>3. CASE i = Len(written) + 1
    BY <1>1, <2>3 DEF AskedFor, ContractRevision
  <2> QED BY <1>0, <2>1, <2>2, <2>3
<1> QED BY <1>3, <1>5, <1>6, <1>7, <1>8, <1>9 DEF TurnIInv, TransitionsAreTrue

\* What an id's receipt says was written: the ledger names it once.
LEMMA ReceiptHappened ==
  ASSUME TurnIInv, NEW id, Recorded(id)
  PROVE  /\ Happened(ReceiptOf(id)) /\ ReceiptOf(id) \in Receipt
         /\ ReceiptOf(id).id = id
         /\ ReceiptOf(id).action = "ResumeParent" => ReceiptOf(id).checkpoint = NoCheckpoint
<1> DEFINE P == Places(contract.ledger, id)
<1>1. PICK k \in P : ReceiptOf(id) = contract.ledger[k]
  BY DEF Recorded, ReceiptOf
<1>2. k \in DOMAIN contract.ledger /\ contract.ledger[k].id = id
  BY DEF Places
<1>3. contract.ledger[k] \in Receipt
  BY <1>2 DEF TurnIInv, TurnTypeOK
<1>4. PICK u : u = contract.ledger[k]
  OBVIOUS
<1>5. Happened(u) /\ (u.action = "ResumeParent" => u.checkpoint = NoCheckpoint)
  BY <1>2, <1>4 DEF TurnIInv, LedgerOK
<1> QED BY <1>1, <1>2, <1>3, <1>4, <1>5

\* The authority decides, and enters its lock or answers at once.
LEMMA EnterKeeps ==
  ASSUME TurnIInv, NEW a \in attempts, DecideTurnClose(a) \/ EnterAuthority(a)
  PROVE  TurnIInv'
<1>0. /\ TurnTypeOK /\ AttemptOK(a) /\ a \in AuthorityProcess
      /\ UNCHANGED <<contract, mutationFiles, calls, written>>
  BY DEF TurnIInv, AttemptsOK, TurnTypeOK, DecideTurnClose, EnterAuthority
<1>1. PICK stage \in {"decided", "holding", "answered"},
           answer \in {"none", "replay", "refused", "policy"} :
        /\ Step(a, stage, answer)
        /\ stage = "answered" => answer # "none"
        /\ answer = "policy" => a.action = "ResumeParent"
        /\ answer = "replay" => Replays(a)
        /\ stage = "holding" /\ a.action = "ResumeParent" => ResumeRequired
  BY DEF DecideTurnClose, EnterAuthority
<1>2. PICK b : b = [a EXCEPT !.stage = stage, !.answer = answer]
  OBVIOUS
<1>3. /\ b \in AuthorityProcess /\ TransitionOf(b) = TransitionOf(a)
      /\ b.stage = stage /\ b.answer = answer /\ b.action = a.action
      /\ b.caller = a.caller /\ b.revision = a.revision
  <2>1. /\ stage \in {"sent", "decided", "holding", "orphan", "answered"}
        /\ answer \in {"none", "ok", "replay", "refused", "policy"}
    OBVIOUS
  <2> QED BY <1>0, <1>2, <2>1 DEF AuthorityProcess, TransitionOf
<1>4. attempts' = (attempts \ {a}) \cup {b}
  BY <1>1, <1>2 DEF Step
<1>5. answer = "replay" => Happened(TransitionOf(a))
  <2> SUFFICES ASSUME answer = "replay" PROVE Happened(TransitionOf(a))
    OBVIOUS
  <2>1. Recorded(a.id) /\ ReceiptOf(a.id) = TransitionOf(a)
    BY <1>1 DEF Replays
  <2>2. PICK u : u = a.id
    OBVIOUS
  <2>3. Happened(ReceiptOf(u))
    BY <2>1, <2>2, ReceiptHappened
  <2> QED BY <2>1, <2>2, <2>3
<1>6. AttemptOK(b)'
  BY <1>0, <1>1, <1>3, <1>5 DEF AttemptOK, ContractRevision, ResumeRequired, Happened
<1>7. mutationFiles' \in [Id -> 0 .. MaxWritten + 1] /\ calls' \in [Caller -> CallRecord]
      /\ attempts' \subseteq AuthorityProcess
  BY <1>0, <1>3, <1>4 DEF TurnTypeOK
<1> QED BY <1>0, <1>4, <1>6, <1>7, QuietKeeps

\* The store process commits what was computed from the contract that still stands,
\* whoever waits for it, or nothing.
LEMMA CommitContinuityKeeps ==
  ASSUME TurnIInv, NEW a \in attempts, CommitContinuity(a)
  PROVE  TurnIInv'
<1>0. /\ TurnTypeOK /\ AttemptOK(a) /\ a \in AuthorityProcess /\ ShownOK
      /\ UNCHANGED <<mutationFiles, calls>> /\ a.stage \in {"holding", "orphan"}
      /\ CallsOK /\ a.caller \in Caller
  BY DEF TurnIInv, AttemptsOK, TurnTypeOK, CommitContinuity, AuthorityProcess
<1>a. PICK answer \in {"none", "ok", "replay", "refused", "policy"} :
        answer = IF ReplaceIfHash(a) THEN "ok" ELSE "refused"
  OBVIOUS
<1>1. PICK b : b = [a EXCEPT !.stage = "answered", !.answer = answer]
  OBVIOUS
<1>2. /\ b \in AuthorityProcess /\ TransitionOf(b) = TransitionOf(a)
      /\ b.stage = "answered" /\ b.answer = answer /\ b.action = a.action
      /\ b.caller = a.caller /\ b.revision = a.revision
  <2>1. "answered" \in {"sent", "decided", "holding", "orphan", "answered"}
    OBVIOUS
  <2> QED BY <1>0, <1>1, <2>1 DEF AuthorityProcess, TransitionOf
<1>3. \A x \in attempts' : x \in attempts \/ x = b
  BY <1>a, <1>1 DEF CommitContinuity, Step
<1>4. mutationFiles' \in [Id -> 0 .. MaxWritten + 1] /\ calls' \in [Caller -> CallRecord]
      /\ attempts' \subseteq AuthorityProcess
  BY <1>0, <1>2, <1>3 DEF TurnTypeOK
<1>5. CASE ~ReplaceIfHash(a)
  <2>1. UNCHANGED <<contract, written>>
    BY <1>5 DEF CommitContinuity
  <2>2. AttemptOK(b)'
    BY <1>0, <1>a, <1>2, <1>5, <2>1 DEF AttemptOK, ContractRevision
  <2> QED BY <1>0, <1>3, <1>4, <2>1, <2>2, QuietKeeps
<1>6. CASE ReplaceIfHash(a)
  <2>0. Len(written) < MaxWritten /\ Write(a) /\ a.revision = ContractRevision
    BY <1>6 DEF CommitContinuity, ReplaceIfHash
  <2>1. PICK t : t = TransitionOf(a)
    OBVIOUS
  <2>2. /\ t \in Receipt /\ t.action = a.action /\ t.id = a.id
        /\ t.checkpoint = a.checkpoint
    BY <1>0, <2>1 DEF AuthorityProcess, Receipt, TransitionOf
  <2>3. t.action = "ResumeParent" => t.checkpoint = NoCheckpoint
    BY <1>0, <2>1, <2>2 DEF AttemptOK, CallsOK, TransitionOf
  <2>4. written' = Append(written, AskedFor(t, ContractRevision))
    BY <2>0, <2>2 DEF Write, AskedFor
  <2>5. /\ contract'.ledger = LimitReceipts(contract.ledger, t)
        /\ contract'.shown = IF a.action = "Set"
                             THEN [checkpoint |-> a.checkpoint, id |-> a.id]
                             ELSE Last(contract.cards)
        /\ contract'.cards = IF a.action = "Set" THEN contract.cards
                             ELSE Front(contract.cards)
        /\ contract' = [ledger |-> contract'.ledger, shown |-> contract'.shown,
                        cards |-> contract'.cards]
    BY <2>0, <2>1 DEF Write, After
  <2>6. /\ Happened(t)' /\ \A u : Happened(u) => Happened(u)'
    BY <1>0, <2>2, <2>4, WrittenGrows
  <2>7. /\ contract.cards \in Seq(Shown) /\ contract.ledger \in Seq(Receipt)
        /\ OneForAnId(contract.ledger)
    BY DEF TurnIInv, TurnTypeOK, LedgerOK
  <2>8. contract'.ledger \in Seq(Receipt)
    BY <2>2, <2>5, <2>7, LimitIs
  <2>9. \A s : WasProved(s) => WasProved(s)'
    BY <2>6 DEF WasProved
  <2>a. AttemptOK(b)'
    <3>1. ContractRevision' # b.revision /\ b.revision <= ContractRevision'
      <4>1. Len(written') = Len(written) + 1 /\ Len(written) \in Nat
        BY <1>0, <2>4 DEF TurnTypeOK
      <4> QED BY <1>2, <2>0, <4>1 DEF ContractRevision
    <3> QED BY <1>0, <1>a, <1>2, <1>6, <2>1, <2>6, <3>1 DEF AttemptOK, Happened
  <2>10. CASE a.action = "Set"
    <3>1. contract'.shown \in Shown /\ contract'.cards = contract.cards
      BY <1>0, <2>5, <2>10 DEF AuthorityProcess, Shown
    <3>2. PICK s : s = contract'.shown
      OBVIOUS
    <3>3. WasProved(s)'
      <4>1. t = [id |-> s.id, action |-> "Set", checkpoint |-> s.checkpoint]
        BY <2>1, <2>5, <2>10, <3>2 DEF TransitionOf
      <4> QED BY <2>6, <4>1 DEF WasProved
    <3>4. ShownOK'
      BY <1>0, <2>9, <3>1, <3>2, <3>3 DEF ShownOK
    <3>5. contract' \in [ledger : Seq(Receipt), shown : Shown, cards : Seq(Shown)]
      BY <2>5, <2>7, <2>8, <3>1
    <3> QED BY <1>0, <1>3, <1>4, <2>0, <2>2, <2>3, <2>4, <2>5, <2>a, <3>4, <3>5, WriteKeeps
  <2>11. CASE a.action = "ResumeParent"
    <3>1. contract.cards # <<>>
      BY <1>0, <2>0, <2>11 DEF AttemptOK, ResumeRequired
    <3>2. /\ contract'.shown = contract.cards[Len(contract.cards)]
          /\ contract'.cards = SubSeq(contract.cards, 1, Len(contract.cards) - 1)
          /\ Len(contract.cards) \in Nat \ {0}
      BY <2>5, <2>7, <2>11, <3>1 DEF Last, Front
    <3>3. /\ contract'.shown \in Shown /\ contract'.cards \in Seq(Shown)
          /\ Len(contract.cards) \in DOMAIN contract.cards
          /\ \A i \in DOMAIN contract'.cards :
               i \in DOMAIN contract.cards /\ contract'.cards[i] = contract.cards[i]
      BY <2>7, <3>2
    <3>4. ShownOK'
      <4>1. WasProved(contract.cards[Len(contract.cards)])
        BY <1>0, <3>3 DEF ShownOK
      <4>2. PICK s : s = contract'.shown
        OBVIOUS
      <4>3. WasProved(s)'
        BY <2>9, <3>2, <4>1, <4>2
      <4>4. \A i \in DOMAIN contract'.cards : \E x : x = contract'.cards[i] /\ WasProved(x)'
        <5> TAKE i \in DOMAIN contract'.cards
        <5>1. PICK x : x = contract'.cards[i]
          OBVIOUS
        <5>2. WasProved(x)
          BY <1>0, <3>3, <5>1 DEF ShownOK
        <5> QED BY <2>9, <5>1, <5>2
      <4> QED BY <4>2, <4>3, <4>4 DEF ShownOK, WasProved, Happened
    <3>5. contract' \in [ledger : Seq(Receipt), shown : Shown, cards : Seq(Shown)]
      BY <2>5, <2>8, <3>3
    <3> QED BY <1>0, <1>3, <1>4, <2>0, <2>2, <2>3, <2>4, <2>5, <2>a, <3>4, <3>5, WriteKeeps
  <2> QED BY <1>0, <2>10, <2>11 DEF AuthorityProcess
<1> QED BY <1>5, <1>6

\* Another command starts a side branch: the parent's card is as it was shown.
LEMMA StartBranchKeeps ==
  ASSUME TurnIInv, StartBranch
  PROVE  TurnIInv'
<1>0. /\ TurnTypeOK /\ ShownOK /\ LedgerOK
      /\ contract \in [ledger : Seq(Receipt), shown : Shown, cards : Seq(Shown)]
      /\ Len(written) < MaxWritten /\ UNCHANGED <<mutationFiles, calls, attempts>>
  BY DEF TurnIInv, TurnTypeOK, StartBranch
<1> DEFINE other == [id |-> OtherId, action |-> "Set", checkpoint |-> NoCheckpoint]
<1>1. PICK t \in Receipt : t = other
  BY DEF Receipt
<1>2. /\ written' = Append(written, AskedFor(t, ContractRevision))
      /\ contract' = [After(t) EXCEPT !.cards = Append(@, contract.shown)]
  BY <1>1 DEF StartBranch
<1>3. TransitionOf(t) = t
  BY <1>1 DEF TransitionOf
<1>4. contract' = [ledger |-> LimitReceipts(contract.ledger, t),
                   shown |-> [checkpoint |-> NoCheckpoint, id |-> OtherId],
                   cards |-> Append(contract.cards, contract.shown)]
  <2>1. After(t) = [ledger |-> LimitReceipts(contract.ledger, t),
                    shown |-> [checkpoint |-> NoCheckpoint, id |-> OtherId],
                    cards |-> contract.cards]
    BY <1>1, <1>3 DEF After
  <2>2. PICK new : new = After(t)
    OBVIOUS
  <2>3. contract' = [new EXCEPT !.cards = Append(@, contract.shown)]
    BY Zenon, <1>2, <2>2
  <2>4. PICK ledger : ledger = LimitReceipts(contract.ledger, t)
    OBVIOUS
  <2>5. PICK shown : shown = [checkpoint |-> NoCheckpoint, id |-> OtherId]
    OBVIOUS
  <2>6. new = [ledger |-> ledger, shown |-> shown, cards |-> contract.cards]
    BY <2>1, <2>2, <2>4, <2>5
  <2>7. contract' = [ledger |-> ledger, shown |-> shown,
                     cards |-> Append(contract.cards, contract.shown)]
    BY <2>3, <2>6
  <2> QED BY <2>4, <2>5, <2>7
<1>5. LimitReceipts(contract.ledger, t) \in Seq(Receipt)
  BY <1>0, LimitIs DEF LedgerOK
<1>6. /\ contract'.ledger = LimitReceipts(contract.ledger, t)
      /\ contract'.shown = [checkpoint |-> NoCheckpoint, id |-> OtherId]
      /\ contract'.cards = Append(contract.cards, contract.shown)
  BY <1>4
<1>7. contract' \in [ledger : Seq(Receipt), shown : Shown, cards : Seq(Shown)]
  <2>1. [checkpoint |-> NoCheckpoint, id |-> OtherId] \in Shown
    BY DEF Shown
  <2>2. Append(contract.cards, contract.shown) \in Seq(Shown)
    BY <1>0
  <2> QED BY <1>4, <1>5, <2>1, <2>2
<1>8. ShownOK'
  <2>1. \A u : Happened(u) => Happened(u)'
    BY <1>0, <1>2, WrittenGrows
  <2>2. \A s : WasProved(s) => WasProved(s)'
    BY <2>1 DEF WasProved
  <2>3. \A i \in DOMAIN contract'.cards :
           \/ i \in DOMAIN contract.cards /\ contract'.cards[i] = contract.cards[i]
           \/ contract'.cards[i] = contract.shown
    BY <1>0, <1>6
  <2>4. \A i \in DOMAIN contract'.cards : \E x : x = contract'.cards[i] /\ WasProved(x)'
    <3> TAKE i \in DOMAIN contract'.cards
    <3>1. PICK x : x = contract'.cards[i]
      OBVIOUS
    <3>2. WasProved(x)
      BY <1>0, <2>3, <3>1 DEF ShownOK
    <3> QED BY <2>2, <3>1, <3>2
  <2>5. contract'.shown.id = OtherId
    BY <1>6
  <2> QED BY <2>4, <2>5 DEF ShownOK, WasProved, Happened
<1>9. t.action = "ResumeParent" => t.checkpoint = NoCheckpoint
  BY <1>1
<1>10. attempts' \subseteq AuthorityProcess /\ \A b \in attempts' : b \in attempts
  BY <1>0 DEF TurnTypeOK
<1> QED BY <1>0, <1>2, <1>6, <1>7, <1>8, <1>9, <1>10, WriteKeeps

\* Revisions are numbers up to the bound, and no call is of another command.
LEMMA RevisionIs ==
  ASSUME TurnTypeOK
  PROVE  /\ ContractRevision \in 0 .. MaxWritten + 1 /\ ContractRevision <= ContractRevision
         /\ MaxWritten \in Nat /\ NoCheckpoint \in Checkpoint \cup {NoCheckpoint}
         /\ OtherId \notin Id
BY TurnAssumption DEF TurnTypeOK, ContractRevision, Id

\* A call that changes only itself.
LEMMA CallKeeps ==
  ASSUME TurnIInv, UNCHANGED <<contract, written>>, NEW c \in Caller,
         NEW call \in CallRecord, Set(c, call),
         mutationFiles' \in [Id -> 0 .. MaxWritten + 1],
         attempts' \subseteq AuthorityProcess,
         \A b \in attempts' : b \in attempts \/ AttemptOK(b)',
         CallFollows(c)
  PROVE  TurnIInv'
<1>1. /\ calls' \in [Caller -> CallRecord]
      /\ \A d \in Caller : d # c => calls'[d] = calls[d]
  BY DEF TurnIInv, TurnTypeOK, Set
<1> QED BY <1>1, QuietKeeps

\* A checkpoint or a close begins on the contract as it is.
LEMMA BeginKeeps ==
  ASSUME TurnIInv, NEW c \in Caller,
         \/ \E cp \in Checkpoint, id \in Id : BeginCheckpoint(c, cp, id)
         \/ \E id \in TurnId : ResolveClose(c, id)
  PROVE  TurnIInv'
<1>0. /\ TurnTypeOK /\ calls \in [Caller -> CallRecord] /\ calls[c].pc = "idle"
      /\ UNCHANGED <<contract, attempts, written>> /\ attempts \subseteq AuthorityProcess
      /\ mutationFiles \in [Id -> 0 .. MaxWritten + 1]
  BY DEF TurnIInv, TurnTypeOK, BeginCheckpoint, ResolveClose
<1>1. ASSUME NEW cp \in Checkpoint, NEW id \in Id, BeginCheckpoint(c, cp, id)
      PROVE  TurnIInv'
  <2>1. PICK call : call = [Idle EXCEPT !.pc = "ready", !.id = id, !.checkpoint = cp,
                                       !.revision = ContractRevision, !.round = 1]
    OBVIOUS
  <2>a. call = [pc |-> "ready", action |-> "Set", id |-> id, parent |-> FALSE,
                checkpoint |-> cp, revision |-> ContractRevision, round |-> 1,
                channel |-> "warm", result |-> "none"]
    BY <2>1 DEF Idle
  <2>b. FALSE \in BOOLEAN
    BY Zenon
  <2>c. ContractRevision \in 0 .. MaxWritten + 1 /\ 1 \in 0 .. 2
    BY <1>0, RevisionIs
  <2> HIDE DEF ContractRevision
  <2>2. /\ call \in CallRecord /\ call.pc = "ready" /\ call.id = id /\ call.action = "Set"
        /\ call.revision = ContractRevision
    BY <2>a, <2>b, <2>c DEF CallRecord
  <2>3. Set(c, call) /\ calls'[c] = call
    BY <1>0, <1>1, <2>1 DEF BeginCheckpoint, Set
  <2>4. mutationFiles' \in [Id -> 0 .. MaxWritten + 1]
    BY <1>0, <1>1, RevisionIs DEF BeginCheckpoint, CanonicalMutation
  <2>5. CallFollows(c)
    BY <1>0, <2>2, <2>3, RevisionIs DEF CallFollows
  <2> QED BY <1>0, <2>2, <2>3, <2>4, <2>5, CallKeeps
<1>2. ASSUME NEW id \in TurnId, ResolveClose(c, id) PROVE TurnIInv'
  <2>1. PICK call : call = [Idle EXCEPT !.pc = "resolved", !.action = "ResumeParent",
                                       !.id = id, !.parent = ResumeRequired,
                                       !.revision = ContractRevision, !.round = 2]
    OBVIOUS
  <2>p. PICK parent \in BOOLEAN : parent = ResumeRequired
    BY Zenon DEF ResumeRequired
  <2>a. call = [pc |-> "resolved", action |-> "ResumeParent", id |-> id,
                parent |-> parent, checkpoint |-> NoCheckpoint,
                revision |-> ContractRevision, round |-> 2,
                channel |-> "warm", result |-> "none"]
    BY <2>1, <2>p DEF Idle
  <2>c. ContractRevision \in 0 .. MaxWritten + 1 /\ 2 \in 0 .. 2 /\ id \in Id
    BY <1>0, RevisionIs DEF Id
  <2>2. /\ call \in CallRecord /\ call.pc = "resolved" /\ call.id = id
        /\ call.action = "ResumeParent" /\ call.checkpoint = NoCheckpoint
        /\ call.revision = ContractRevision
    BY <2>a, <2>c DEF CallRecord
  <2>3. Set(c, call) /\ calls'[c] = call /\ UNCHANGED mutationFiles
    BY <1>0, <1>2, <2>1 DEF ResolveClose, Set
  <2>4. CallFollows(c)
    BY <1>0, <2>2, <2>3, RevisionIs DEF CallFollows, Id
  <2> QED BY <1>0, <2>2, <2>3, <2>4, CallKeeps
<1> QED BY <1>1, <1>2

\* A call that ends with a result it may report.
LEMMA FinishFollows ==
  ASSUME TurnIInv, UNCHANGED <<contract, written>>, NEW c \in Caller,
         calls[c].pc # "idle",
         NEW result \in {"refused", "unknown", "written", "reconciled", "replayed",
                         "policy", "resumed", "failed"},
         FinishCall(c, result),
         result \in {"written", "reconciled", "replayed"} => Happened(TransitionOf(calls[c]))
  PROVE  CallFollows(c) /\ \E call \in CallRecord : Set(c, call)
<1>0. TurnTypeOK /\ calls \in [Caller -> CallRecord] /\ CallsOK
  BY DEF TurnIInv, TurnTypeOK
<1>1. PICK call : call = [Idle EXCEPT !.pc = "done", !.id = calls[c].id,
                                     !.action = calls[c].action,
                                     !.checkpoint = calls[c].checkpoint,
                                     !.result = result]
  OBVIOUS
<1>a. call = [pc |-> "done", action |-> calls[c].action, id |-> calls[c].id,
              parent |-> FALSE, checkpoint |-> calls[c].checkpoint, revision |-> 0,
              round |-> 0, channel |-> "warm", result |-> result]
  BY <1>1 DEF Idle
<1>b. FALSE \in BOOLEAN
  BY Zenon
<1>c. 0 \in 0 .. MaxWritten + 1 /\ 0 \in 0 .. 2
  BY RevisionIs, <1>0
<1>d. /\ calls[c].action \in {"Set", "ResumeParent"}
      /\ calls[c].id \in Id \cup {OtherId}
      /\ calls[c].checkpoint \in Checkpoint \cup {NoCheckpoint}
  BY <1>0 DEF CallRecord
<1>2. /\ call \in CallRecord /\ call.pc = "done" /\ call.id = calls[c].id
      /\ call.action = calls[c].action /\ call.checkpoint = calls[c].checkpoint
      /\ call.revision = 0 /\ call.result = result
  BY <1>a, <1>b, <1>c, <1>d DEF CallRecord
<1>3. Set(c, call) /\ calls'[c] = call
  BY <1>0, <1>1 DEF FinishCall, Set
<1>4. TransitionOf(call) = TransitionOf(calls[c])
  BY <1>2 DEF TransitionOf
<1>5. CallFollows(c)
  BY <1>0, <1>2, <1>3, <1>4, RevisionIs DEF CallFollows, CallsOK
<1> QED BY <1>2, <1>3, <1>5

\* A call that goes on with the transition it began with.
LEMMA GoesOn ==
  ASSUME TurnIInv, UNCHANGED <<contract, written>>, NEW c \in Caller,
         calls[c].pc # "idle", NEW call \in CallRecord, Set(c, call),
         TransitionOf(call) = TransitionOf(calls[c]), call.pc \notin {"idle", "resolved", "done"},
         call.revision = calls[c].revision,
         call.pc = "unsure" => call.action = "Set" /\ call.result \in {"refused", "unknown"}
  PROVE  CallFollows(c)
<1>1. /\ CallsOK /\ calls'[c] = call
  BY DEF TurnIInv, TurnTypeOK, Set
<1>2. /\ call.id = calls[c].id /\ call.action = calls[c].action
      /\ call.checkpoint = calls[c].checkpoint
  BY DEF TransitionOf
<1> QED BY <1>1, <1>2 DEF CallFollows, CallsOK

\* A close that finds its receipt reports what happened; else it goes on.
LEMMA LookUpKeeps ==
  ASSUME TurnIInv, NEW c \in Caller, LookUpClose(c)
  PROVE  TurnIInv'
<1>0. /\ TurnTypeOK /\ calls \in [Caller -> CallRecord] /\ calls[c].pc = "resolved"
      /\ UNCHANGED <<contract, mutationFiles, attempts, written>>
      /\ attempts \subseteq AuthorityProcess
      /\ mutationFiles' \in [Id -> 0 .. MaxWritten + 1] /\ CallsOK
      /\ attempts' \subseteq AuthorityProcess /\ \A b \in attempts' : b \in attempts
  BY DEF TurnIInv, TurnTypeOK, LookUpClose
<1>1. ASSUME ReplayableClose(calls[c].id), FinishCall(c, "replayed") PROVE TurnIInv'
  <2>1. PICK id : id = calls[c].id
    OBVIOUS
  <2>2. /\ Happened(ReceiptOf(id)) /\ ReceiptOf(id) \in Receipt /\ ReceiptOf(id).id = id
        /\ ReceiptOf(id).action = "ResumeParent" => ReceiptOf(id).checkpoint = NoCheckpoint
    BY <1>1, <2>1, ReceiptHappened DEF ReplayableClose
  <2>3. PICK receipt : receipt = ReceiptOf(id)
    OBVIOUS
  <2>4. receipt \in Receipt /\ receipt.id = id /\ receipt.action = "ResumeParent"
        /\ receipt.checkpoint = NoCheckpoint /\ Happened(receipt)
    BY <1>1, <2>1, <2>2, <2>3 DEF ReplayableClose
  <2>5. /\ calls[c].action = "ResumeParent" /\ calls[c].checkpoint = NoCheckpoint
    BY <1>0 DEF CallsOK
  <2>6. receipt = TransitionOf(calls[c])
    BY <2>1, <2>4, <2>5 DEF Receipt, TransitionOf
  <2>7. CallFollows(c) /\ \E call \in CallRecord : Set(c, call)
    BY <1>0, <1>1, <2>4, <2>6, FinishFollows
  <2> QED BY <1>0, <2>7, CallKeeps
<1>2. ASSUME FinishCall(c, "policy") PROVE TurnIInv'
  <2>1. CallFollows(c) /\ \E call \in CallRecord : Set(c, call)
    BY <1>0, <1>2, FinishFollows
  <2> QED BY <1>0, <2>1, CallKeeps
<1>3. ASSUME Set(c, [calls[c] EXCEPT !.pc = "ready", !.parent = FALSE]) PROVE TurnIInv'
  <2>1. PICK call : call = [calls[c] EXCEPT !.pc = "ready", !.parent = FALSE]
    OBVIOUS
  <2>2. calls[c] \in CallRecord
    BY <1>0
  <2>3. /\ call \in CallRecord /\ TransitionOf(call) = TransitionOf(calls[c])
        /\ call.pc = "ready" /\ call.revision = calls[c].revision
    BY <2>1, <2>2 DEF CallRecord, TransitionOf
  <2>4. Set(c, call)
    BY <1>3, <2>1
  <2>5. CallFollows(c)
    BY <1>0, <2>3, <2>4, GoesOn
  <2> QED BY <1>0, <2>3, <2>4, <2>5, CallKeeps
<1> QED BY <1>1, <1>2, <1>3 DEF LookUpClose

\* A call is sent with the transition it has, to the worker or past it.
LEMMA InvokeKeeps ==
  ASSUME TurnIInv, NEW c \in Caller, NEW channel \in {"warm", "cold"}, Invoke(c, channel)
  PROVE  TurnIInv'
<1>0. /\ TurnTypeOK /\ calls \in [Caller -> CallRecord] /\ calls[c].pc = "ready"
      /\ UNCHANGED <<contract, mutationFiles, written>> /\ attempts \subseteq AuthorityProcess
      /\ mutationFiles' \in [Id -> 0 .. MaxWritten + 1] /\ CallsOK
  BY DEF TurnIInv, TurnTypeOK, Invoke
<1>1. PICK old : old = calls[c]
  OBVIOUS
<1>2. /\ old \in CallRecord /\ old.id \in Id /\ old.revision <= ContractRevision
  BY <1>0, <1>1 DEF CallsOK
<1>3. PICK b : b = [id |-> old.id, action |-> old.action, checkpoint |-> old.checkpoint,
                    caller |-> c, revision |-> old.revision, round |-> old.round,
                    channel |-> channel, stage |-> "sent", answer |-> "none"]
  OBVIOUS
<1>4. /\ b \in AuthorityProcess /\ TransitionOf(b) = TransitionOf(old) /\ b.caller = c
      /\ b.revision = old.revision /\ b.stage = "sent" /\ b.answer = "none"
  BY <1>2, <1>3 DEF AuthorityProcess, CallRecord, TransitionOf
<1>5. attempts' = attempts \cup {b}
  BY <1>1, <1>3 DEF Invoke
<1>6. PICK call : call = [old EXCEPT !.pc = "waiting", !.channel = channel]
  OBVIOUS
<1>7. /\ call \in CallRecord /\ TransitionOf(call) = TransitionOf(old)
      /\ call.pc = "waiting" /\ call.revision = old.revision
  BY <1>2, <1>6 DEF CallRecord, TransitionOf
<1>8. Set(c, call) /\ calls'[c] = call
  BY <1>0, <1>1, <1>6 DEF Invoke, Set
<1>9. CallFollows(c)
  BY <1>0, <1>1, <1>7, <1>8, GoesOn
<1>10. AttemptOK(b)'
  BY <1>0, <1>1, <1>2, <1>4, <1>7, <1>8 DEF AttemptOK, ContractRevision
<1>11. attempts' \subseteq AuthorityProcess /\ \A x \in attempts' : x \in attempts \/ AttemptOK(x)'
  BY <1>0, <1>4, <1>5, <1>10
<1> QED BY <1>0, <1>7, <1>8, <1>9, <1>11, CallKeeps

\* What is known of a call that waits for a process.
LEMMA AwaitedIs ==
  ASSUME TurnIInv, NEW c \in Caller, NEW a \in Awaited(c)
  PROVE  /\ a \in attempts /\ a \in AuthorityProcess /\ AttemptOK(a) /\ a.caller = c
         /\ calls[c] \in CallRecord /\ calls[c].pc = "waiting"
         /\ TransitionOf(a) = TransitionOf(calls[c]) /\ calls[c].action = a.action
<1>1. a \in attempts /\ a.caller = c /\ calls[c].pc = "waiting"
  BY DEF Awaited
<1>2. AttemptOK(a) /\ a \in AuthorityProcess /\ calls[c] \in CallRecord
  BY <1>1 DEF TurnIInv, AttemptsOK, TurnTypeOK
<1>3. TransitionOf(a) = TransitionOf(calls[c])
  BY <1>1, <1>2 DEF AttemptOK
<1> QED BY <1>1, <1>2, <1>3 DEF TransitionOf

\* Of a Set that was refused or not answered the caller does not know what became.
LEMMA UnsureFollows ==
  ASSUME TurnIInv, UNCHANGED <<contract, written>>, NEW c \in Caller,
         calls[c] \in CallRecord, calls[c].pc = "waiting", calls[c].action = "Set",
         NEW result \in {"refused", "unknown"},
         Set(c, [calls[c] EXCEPT !.pc = "unsure", !.result = result])
  PROVE  CallFollows(c) /\ \E call \in CallRecord : Set(c, call)
<1>1. PICK call : call = [calls[c] EXCEPT !.pc = "unsure", !.result = result]
  OBVIOUS
<1>2. /\ call \in CallRecord /\ TransitionOf(call) = TransitionOf(calls[c])
      /\ call.pc = "unsure" /\ call.revision = calls[c].revision /\ call.action = "Set"
      /\ call.result = result
  BY <1>1 DEF CallRecord, TransitionOf
<1>3. Set(c, call)
  BY <1>1
<1>4. CallFollows(c)
  BY <1>2, <1>3, GoesOn
<1> QED BY <1>2, <1>3, <1>4

\* An answer is taken for what it says: a well one to a Set comes from a transition that
\* was written.
LEMMA TakeAnswerKeeps ==
  ASSUME TurnIInv, NEW c \in Caller, TakeAnswer(c)
  PROVE  TurnIInv'
<1>0. /\ UNCHANGED <<contract, mutationFiles, written>> /\ TurnTypeOK
      /\ mutationFiles' \in [Id -> 0 .. MaxWritten + 1]
  BY DEF TakeAnswer, TurnIInv, TurnTypeOK
<1>1. PICK a \in Awaited(c) :
        /\ a.stage = "answered"
        /\ attempts' = attempts \ {a}
        /\ IF a.action = "ResumeParent"
             THEN FinishCall(c, IF a.answer = "refused" THEN "failed" ELSE "resumed")
           ELSE IF a.answer = "refused"
             THEN Set(c, [calls[c] EXCEPT !.pc = "unsure", !.result = "refused"])
           ELSE FinishCall(c, "written")
  BY DEF TakeAnswer
<1>2. /\ a \in AuthorityProcess /\ AttemptOK(a) /\ a.caller = c
      /\ calls[c] \in CallRecord /\ calls[c].pc = "waiting"
      /\ TransitionOf(a) = TransitionOf(calls[c]) /\ calls[c].action = a.action
  BY AwaitedIs
<1>3. attempts' \subseteq AuthorityProcess /\ \A b \in attempts' : b \in attempts
  BY <1>0, <1>1 DEF TurnTypeOK
<1>4. CallFollows(c) /\ \E call \in CallRecord : Set(c, call)
  <2>1. CASE a.action = "ResumeParent"
    <3>1. PICK result \in {"failed", "resumed"} : FinishCall(c, result)
      BY <1>1, <2>1
    <3> QED BY <1>0, <1>2, <3>1, FinishFollows
  <2>2. CASE a.action # "ResumeParent" /\ a.answer = "refused"
    <3>1. calls[c].action = "Set"
      BY <1>2, <2>2 DEF AuthorityProcess
    <3>2. Set(c, [calls[c] EXCEPT !.pc = "unsure", !.result = "refused"])
      BY <1>1, <2>2
    <3> QED BY <1>0, <1>2, <3>1, <3>2, UnsureFollows
  <2>3. CASE a.action # "ResumeParent" /\ a.answer # "refused"
    <3>1. FinishCall(c, "written")
      BY <1>1, <2>3
    <3>2. a.answer \in {"ok", "replay"}
      BY <1>1, <1>2, <2>3 DEF AttemptOK, AuthorityProcess
    <3>3. Happened(TransitionOf(calls[c]))
      <4>1. Happened(TransitionOf(a))
        BY <1>2, <3>2 DEF AttemptOK
      <4> QED BY <1>2, <4>1 DEF Happened
    <3> QED BY <1>0, <1>2, <3>1, <3>3, FinishFollows
  <2> QED BY <2>1, <2>2, <2>3
<1> QED BY <1>0, <1>3, <1>4, CallKeeps

\* A late worker is gone with the transition it may have held.
LEMMA WarmTimesOutKeeps ==
  ASSUME TurnIInv, NEW c \in Caller, WarmTimesOut(c)
  PROVE  TurnIInv'
<1>0. /\ UNCHANGED <<contract, mutationFiles, written>> /\ TurnTypeOK
      /\ mutationFiles' \in [Id -> 0 .. MaxWritten + 1]
      /\ Set(c, [calls[c] EXCEPT !.pc = "ready", !.channel = "cold"])
  BY DEF WarmTimesOut, TurnIInv, TurnTypeOK
<1>1. PICK a \in Awaited(c) : attempts' = attempts \ {a}
  BY DEF WarmTimesOut
<1>2. calls[c] \in CallRecord /\ calls[c].pc = "waiting"
  BY AwaitedIs
<1>3. attempts' \subseteq AuthorityProcess /\ \A b \in attempts' : b \in attempts
  BY <1>0, <1>1 DEF TurnTypeOK
<1>4. PICK call : call = [calls[c] EXCEPT !.pc = "ready", !.channel = "cold"]
  OBVIOUS
<1>5. /\ call \in CallRecord /\ TransitionOf(call) = TransitionOf(calls[c])
      /\ call.pc = "ready" /\ call.revision = calls[c].revision
  BY <1>2, <1>4 DEF CallRecord, TransitionOf
<1>6. Set(c, call)
  BY <1>0, <1>4
<1>7. CallFollows(c)
  BY <1>0, <1>2, <1>5, <1>6, GoesOn
<1> QED BY <1>0, <1>3, <1>5, <1>6, <1>7, CallKeeps

\* The store process of a late fresh one still holds its transition.
LEMMA ColdTimesOutKeeps ==
  ASSUME TurnIInv, NEW c \in Caller, ColdTimesOut(c)
  PROVE  TurnIInv'
<1>0. /\ UNCHANGED <<contract, mutationFiles, written>> /\ TurnTypeOK
      /\ mutationFiles' \in [Id -> 0 .. MaxWritten + 1]
  BY DEF ColdTimesOut, TurnIInv, TurnTypeOK
<1>1. PICK a \in Awaited(c) :
        /\ IF a.stage = "holding" THEN Step(a, "orphan", "none")
                                  ELSE attempts' = attempts \ {a}
        /\ IF a.action = "ResumeParent" THEN FinishCall(c, "failed")
           ELSE Set(c, [calls[c] EXCEPT !.pc = "unsure", !.result = "unknown"])
  BY DEF ColdTimesOut
<1>2. /\ a \in attempts /\ a \in AuthorityProcess /\ AttemptOK(a) /\ a.caller = c
      /\ calls[c] \in CallRecord /\ calls[c].pc = "waiting" /\ calls[c].action = a.action
  BY AwaitedIs
<1>3. CallFollows(c) /\ \E call \in CallRecord : Set(c, call)
  <2>1. CASE a.action = "ResumeParent"
    BY <1>0, <1>1, <1>2, <2>1, FinishFollows
  <2>2. CASE a.action # "ResumeParent"
    <3>1. calls[c].action = "Set"
      BY <1>2, <2>2 DEF AuthorityProcess
    <3>2. Set(c, [calls[c] EXCEPT !.pc = "unsure", !.result = "unknown"])
      BY <1>1, <2>2
    <3> QED BY <1>0, <1>2, <3>1, <3>2, UnsureFollows
  <2> QED BY <2>1, <2>2
<1>4. attempts' \subseteq AuthorityProcess /\ \A b \in attempts' : b \in attempts \/ AttemptOK(b)'
  <2>1. CASE a.stage # "holding"
    BY <1>0, <1>1, <2>1 DEF TurnTypeOK
  <2>2. CASE a.stage = "holding"
    <3>1. PICK b : b = [a EXCEPT !.stage = "orphan", !.answer = "none"]
      OBVIOUS
    <3>2. /\ b \in AuthorityProcess /\ TransitionOf(b) = TransitionOf(a)
          /\ b.stage = "orphan" /\ b.answer = "none" /\ b.action = a.action
          /\ b.caller = a.caller /\ b.revision = a.revision
      BY <1>2, <3>1 DEF AuthorityProcess, TransitionOf
    <3>3. attempts' = (attempts \ {a}) \cup {b}
      BY <1>1, <2>2, <3>1 DEF Step
    <3>4. /\ TransitionOf(calls'[c]) = TransitionOf(calls[c]) /\ calls'[c].pc # "idle"
      BY <1>2, <1>3 DEF CallFollows
    <3>5. AttemptOK(b)'
      BY <1>0, <1>2, <2>2, <3>2, <3>4 DEF AttemptOK, ContractRevision, ResumeRequired
    <3> QED BY <1>0, <3>2, <3>3, <3>5 DEF TurnTypeOK
  <2> QED BY <2>1, <2>2
<1> QED BY <1>0, <1>3, <1>4, CallKeeps

\* What a reader finds shown under a call's id is the call's, whoever recorded it.
LEMMA ReconcileKeeps ==
  ASSUME TurnIInv, NEW c \in Caller, Reconcile(c)
  PROVE  TurnIInv'
<1>0. /\ UNCHANGED <<contract, mutationFiles, attempts, written>>
      /\ TurnTypeOK /\ CallsOK /\ ShownOK
      /\ mutationFiles' \in [Id -> 0 .. MaxWritten + 1]
      /\ calls[c] \in CallRecord /\ calls[c].pc = "unsure" /\ attempts' \subseteq AuthorityProcess
      /\ \A b \in attempts' : b \in attempts
  BY DEF Reconcile, TurnIInv, TurnTypeOK
<1>1. calls[c].action = "Set" /\ calls[c].id \in Id /\ calls[c].id # OtherId
  BY <1>0, RevisionIs DEF CallsOK
<1>2. CallFollows(c) /\ \E call \in CallRecord : Set(c, call)
  <2>1. ASSUME Reconciled(calls[c]), FinishCall(c, "reconciled")
        PROVE  CallFollows(c) /\ \E call \in CallRecord : Set(c, call)
    <3>1. Happened([id |-> calls[c].id, action |-> "Set",
                    checkpoint |-> calls[c].checkpoint])
      <4>1. /\ contract.shown.id = calls[c].id
            /\ contract.shown.checkpoint = calls[c].checkpoint
        BY <2>1 DEF Reconciled
      <4>2. WasProved(contract.shown)
        BY <1>0 DEF ShownOK
      <4> QED BY <1>1, <4>1, <4>2 DEF WasProved
    <3>2. Happened(TransitionOf(calls[c]))
      BY <1>1, <3>1 DEF TransitionOf
    <3> QED BY <1>0, <2>1, <3>2, FinishFollows
  <2>2. ASSUME calls[c].result \in {"refused", "unknown"}, FinishCall(c, calls[c].result)
        PROVE  CallFollows(c) /\ \E call \in CallRecord : Set(c, call)
    BY <1>0, <2>2, FinishFollows
  <2>3. ASSUME Set(c, [calls[c] EXCEPT !.pc = "ready", !.round = 2, !.channel = "warm",
                                       !.result = "none"])
        PROVE  CallFollows(c) /\ \E call \in CallRecord : Set(c, call)
    <3>1. PICK call : call = [calls[c] EXCEPT !.pc = "ready", !.round = 2,
                                              !.channel = "warm", !.result = "none"]
      OBVIOUS
    <3>2. 2 \in 0 .. 2
      OBVIOUS
    <3>3. /\ call \in CallRecord /\ TransitionOf(call) = TransitionOf(calls[c])
          /\ call.pc = "ready" /\ call.revision = calls[c].revision
      BY <1>0, <3>1, <3>2 DEF CallRecord, TransitionOf
    <3>4. Set(c, call)
      BY <2>3, <3>1
    <3> QED BY <1>0, <3>3, <3>4, GoesOn
  <2>4. calls[c].result \in {"refused", "unknown"}
    BY <1>0 DEF CallsOK
  <2> QED BY <2>1, <2>2, <2>3, <2>4 DEF Reconcile
<1> QED BY <1>0, <1>2, CallKeeps

\* Nothing is written and no call has begun.
LEMMA TurnInitHolds == TurnInit => TurnIInv
<1> SUFFICES ASSUME TurnInit PROVE TurnIInv
  OBVIOUS
<1>0. MaxWritten \in Nat /\ LedgerSize \in Nat
  BY TurnAssumption
<1>1. /\ contract.ledger = <<>> /\ contract.cards = <<>> /\ written = <<>>
      /\ contract.shown = [checkpoint |-> NoCheckpoint, id |-> OtherId]
      /\ attempts = {} /\ Len(written) = 0
      /\ \A c \in Caller : calls[c] = Idle
  BY DEF TurnInit
<1>2. Idle \in CallRecord /\ Idle.pc = "idle" /\ Idle.action = "Set"
  <2>1. FALSE \in BOOLEAN
    BY Zenon
  <2>2. 0 \in 0 .. MaxWritten + 1 /\ 0 \in 0 .. 2
    BY <1>0
  <2> QED BY <2>1, <2>2 DEF Idle, CallRecord
<1> HIDE DEF Idle
<1>3. TurnTypeOK
  <2>1. [checkpoint |-> NoCheckpoint, id |-> OtherId] \in Shown
    BY DEF Shown
  <2>2. contract \in [ledger : Seq(Receipt), shown : Shown, cards : Seq(Shown)]
    BY <2>1 DEF TurnInit
  <2>3. mutationFiles \in [Id -> 0 .. MaxWritten + 1] /\ calls \in [Caller -> CallRecord]
    BY <1>0, <1>2 DEF TurnInit
  <2> QED BY <1>0, <1>1, <2>2, <2>3 DEF TurnTypeOK
<1>4. CallsOK /\ AttemptsOK
  BY <1>1, <1>2 DEF CallsOK, AttemptsOK
<1>5. LedgerOK /\ ShownOK
  BY <1>1 DEF LedgerOK, OneForAnId, ShownOK, WasProved
<1>6. TransitionsAreTrue
  BY <1>1, <1>2 DEF TransitionsAreTrue, ReportedTransitionHappened, Done,
                    NothingUnseenIsReplaced
<1> QED BY <1>3, <1>4, <1>5, <1>6 DEF TurnIInv

\* The invariant holds in every state of every turn.
THEOREM TurnInvariance == TurnSpec => []TurnIInv
<1>1. TurnIInv /\ [TurnNext]_turnVars => TurnIInv'
  <2> SUFFICES ASSUME TurnIInv, [TurnNext]_turnVars PROVE TurnIInv'
    OBVIOUS
  <2>1. CASE StartBranch
    BY <2>1, StartBranchKeeps
  <2>2. ASSUME NEW a \in attempts,
               DecideTurnClose(a) \/ EnterAuthority(a) \/ CommitContinuity(a)
        PROVE  TurnIInv'
    BY <2>2, EnterKeeps, CommitContinuityKeeps
  <2>3. ASSUME NEW c \in Caller,
               \/ \E cp \in Checkpoint, id \in Id : BeginCheckpoint(c, cp, id)
               \/ \E id \in TurnId : ResolveClose(c, id)
        PROVE  TurnIInv'
    BY <2>3, BeginKeeps
  <2>4. ASSUME NEW c \in Caller,
               \/ \E channel \in {"warm", "cold"} : Invoke(c, channel)
               \/ LookUpClose(c) \/ TakeAnswer(c) \/ WarmTimesOut(c) \/ ColdTimesOut(c)
               \/ Reconcile(c)
        PROVE  TurnIInv'
    BY <2>4, InvokeKeeps, LookUpKeeps, TakeAnswerKeeps, WarmTimesOutKeeps,
       ColdTimesOutKeeps, ReconcileKeeps
  <2>5. CASE UNCHANGED turnVars
    <3>1. /\ UNCHANGED <<contract, mutationFiles, calls, attempts, written>>
          /\ TurnTypeOK
      BY <2>5 DEF turnVars, TurnIInv
    <3> QED BY <3>1, QuietKeeps DEF TurnTypeOK
  <2> QED BY <2>1, <2>2, <2>3, <2>4, <2>5 DEF TurnNext
<1> QED BY <1>1, TurnInitHolds, PTL DEF TurnSpec

\* Contract, calls and processes keep their types.
THEOREM TurnTypeCorrect == TurnSpec => []TurnTypeOK
<1>1. TurnIInv => TurnTypeOK
  BY DEF TurnIInv
<1> QED BY <1>1, TurnInvariance, PTL

\* A transition reported was written with its content, and none replaced a revision its
\* caller had not read.
THEOREM TransitionsTrue == TurnSpec => []TransitionsAreTrue
<1>1. TurnIInv => TransitionsAreTrue
  BY DEF TurnIInv
<1> QED BY <1>1, TurnInvariance, PTL

----------------------------------------------------------------------------
(* The evidence of a turn.                                                 *)

Named == {telemetry.events[i] : i \in DOMAIN telemetry.events}
Files == {openReceipt, closeReceipt}
Writing(t) == turns[t].stage = "written"

\* Nothing is of a later contract than the contract, nor of a later stamp than was given.
EvidenceIsPast ==
  /\ activation # NoReceipt => activation.revision <= contractAt
  /\ openReceipt # NoReceipt => openReceipt.binding.revision <= contractAt
  /\ \A r \in (Files \ {NoReceipt}) \cup Named : r.stamp <= stamps
  /\ \A t \in Turn :
       /\ turns[t].revision <= contractAt
       /\ turns[t].stage = "bound" => turns[t].revision # 0
       /\ turns[t].stage \in {"activated", "written"} =>
            turns[t].binding # NoReceipt /\ turns[t].binding.revision <= contractAt
       /\ Writing(t) => turns[t].receipt # NoReceipt /\ turns[t].receipt.stamp <= stamps

\* As long as no turn crossed another, the one between its two files is alone there
\* and its receipt is in its file; the latest event is of a receipt that is in one.
TraceOK ==
  ~crossed =>
    /\ \A t \in Turn : Writing(t) => /\ turns[t].receipt \in Files
                                     /\ \A u \in Turn \ {t} : ~Writing(u)
    /\ ~torn => /\ (\A t \in Turn : ~Writing(t)) =>
                     Latest \in Files \/ (Latest = NoReceipt /\ Files = {NoReceipt})
                /\ \A t \in Turn : Writing(t) /\ turns[t].receipt \in Named =>
                     Latest \in Files

\* A capture holds an entry the contract has not yet left behind, or has; a journal that
\* is of the same write is the same; and what its last checks find stood at the first.
CaptureOK ==
  \A l \in Learner :
    LET c == learners[l]
    IN /\ c.stage \in {"entry", "asked", "contract", "telemetry"} =>
            c.entry # NoReceipt /\ c.entry.binding.revision <= contractAt
       /\ c.stage \in {"asked", "contract", "telemetry"} =>
            /\ c.telemetry.updatedAt <= telemetry.updatedAt
            /\ c.telemetry.updatedAt = telemetry.updatedAt => c.telemetry = telemetry
       /\ /\ \/ c.stage = "telemetry"
             \/ c.stage = "contract" /\ contractAt = c.entry.binding.revision
          /\ telemetry = c.telemetry /\ Latest = c.entry
          => c.stood

EvidenceIInv == /\ EvidenceTypeOK
                /\ EvidenceIsPast
                /\ TraceOK
                /\ CaptureOK /\ (\A c \in candidates : c.stood)

Turning == [kind: TurnKinds, intent: Intent, revision: 0..MaxContract,
            stage: {"rest", "bound", "activated", "written", "reopen"},
            binding: Activations \cup {NoReceipt}, receipt: EntryReceipts \cup {NoReceipt}]
Capturing == [stage: {"rest", "entry", "asked", "contract", "telemetry", "done"},
              entry: EntryReceipts \cup {NoReceipt}, telemetry: Journals, stood: BOOLEAN]

\* What a turn does to itself leaves the other turns as they are.
LEMMA HoldingIs ==
  ASSUME turns \in [Turn -> Turning], NEW t \in Turn, NEW x \in Turning, Holding(t, x)
  PROVE  /\ turns' \in [Turn -> Turning] /\ turns'[t] = x
         /\ \A u \in Turn \ {t} : turns'[u] = turns[u]
BY DEF Holding

\* A journal is what it was, or another write of it that names the receipt last.
LEMMA JournalIs ==
  ASSUME telemetry \in Journals, NEW r \in EntryReceipts, NEW j, j = Journal(r)
  PROVE  /\ j \in Journals
         /\ \/ j = telemetry /\ r \in Named
            \/ /\ r \notin Named
               /\ j.updatedAt = telemetry.updatedAt + 1
               /\ j.events # << >> /\ j.events[Len(j.events)] = r
               /\ \A i \in DOMAIN j.events : j.events[i] \in Named \cup {r}
<1> DEFINE e == telemetry.events
           k == Kept(e)
<1>1. e \in Seq(EntryReceipts) /\ Len(e) \in Nat /\ Len(e) <= TelemetrySize
      /\ telemetry.updatedAt \in Nat /\ TelemetrySize \in Nat \ {0, 1}
  BY EvidenceAssumption DEF Journals
<1>2. ToSet(e) = Named
  BY DEF ToSet, Named
<1>3. CASE r \in Named
  BY <1>2, <1>3 DEF Journal
<1>4. CASE r \notin Named
  <2>1. j = [events |-> Append(k, r), updatedAt |-> telemetry.updatedAt + 1]
    BY <1>2, <1>4 DEF Journal
  <2>2. /\ k \in Seq(EntryReceipts) /\ Len(k) \in Nat /\ Len(k) < TelemetrySize
        /\ \A i \in 1 .. Len(k) : k[i] \in Named
    <3> PICK a : a = (IF Len(e) < TelemetrySize THEN 1 ELSE 2)
      OBVIOUS
    <3>1. k = SubSeq(e, a, Len(e)) /\ a \in {1, 2}
      BY DEF Kept
    <3>2. \A i \in a .. Len(e) : e[i] \in EntryReceipts /\ e[i] \in Named
      BY <1>1, <3>1 DEF Named
    <3>3. k \in Seq(EntryReceipts)
      BY <1>1, <3>1
    <3>4. Len(k) = IF a <= Len(e) THEN Len(e) - a + 1 ELSE 0
      BY <1>1, <3>1
    <3>5. \A i \in 1 .. Len(k) : k[i] = e[a + i - 1]
      BY <1>1, <3>1, <3>4
    <3>6. \A i \in 1 .. Len(k) : k[i] \in Named
      BY <1>1, <3>1, <3>2, <3>4, <3>5
    <3> HIDE DEF e, k
    <3>7. Len(k) \in Nat /\ Len(k) < TelemetrySize
      BY <1>1, <3>1, <3>4
    <3> QED BY <3>3, <3>6, <3>7
  <2> HIDE DEF e, k
  <2> PICK q : q = Append(k, r)
    OBVIOUS
  <2>3. /\ q \in Seq(EntryReceipts) /\ Len(q) = Len(k) + 1 /\ q[Len(k) + 1] = r
        /\ DOMAIN q = 1 .. Len(k) + 1 /\ \A i \in 1 .. Len(k) : q[i] = k[i]
    BY <2>2
  <2>4. j.events = q /\ j.updatedAt = telemetry.updatedAt + 1
        /\ j \in [events: Seq(EntryReceipts), updatedAt: Nat]
    BY <1>1, <2>1, <2>3
  <2>5. j \in Journals
    BY <1>1, <2>2, <2>3, <2>4 DEF Journals
  <2>6. q # << >>
    BY <2>2, <2>3
  <2>7. \A i \in DOMAIN q : q[i] \in Named \cup {r}
    BY <2>2, <2>3
  <2> QED BY <1>4, <2>3, <2>4, <2>5, <2>6, <2>7
<1> QED BY <1>3, <1>4

\* What a capture holds is good for as long as it does nothing.
LEMMA CaptureWaits ==
  ASSUME EvidenceTypeOK, CaptureOK, learners' = learners,
         contractAt' \in Nat, contractAt' >= contractAt,
         telemetry' \in Journals,
         telemetry' = telemetry \/ telemetry'.updatedAt > telemetry.updatedAt
  PROVE  CaptureOK'
<1> SUFFICES ASSUME NEW l \in Learner,
                    NEW c \in Capturing, c = learners[l]
             PROVE  /\ c.stage \in {"entry", "asked", "contract", "telemetry"} =>
                         c.entry # NoReceipt /\ c.entry.binding.revision <= contractAt'
                    /\ c.stage \in {"asked", "contract", "telemetry"} =>
                         /\ c.telemetry.updatedAt <= telemetry'.updatedAt
                         /\ c.telemetry.updatedAt = telemetry'.updatedAt =>
                              c.telemetry = telemetry'
                    /\ /\ c.stage = "telemetry"
                          \/ (c.stage = "contract" /\ contractAt' = c.entry.binding.revision)
                       /\ telemetry' = c.telemetry /\ Latest' = c.entry
                       => c.stood
  BY DEF CaptureOK, EvidenceTypeOK, Capturing
<1>1. /\ c.stage \in {"entry", "asked", "contract", "telemetry"} =>
           c.entry # NoReceipt /\ c.entry.binding.revision <= contractAt
      /\ c.stage \in {"asked", "contract", "telemetry"} =>
           /\ c.telemetry.updatedAt <= telemetry.updatedAt
           /\ c.telemetry.updatedAt = telemetry.updatedAt => c.telemetry = telemetry
      /\ /\ c.stage = "telemetry" \/ (c.stage = "contract" /\ contractAt = c.entry.binding.revision)
         /\ telemetry = c.telemetry /\ Latest = c.entry
         => c.stood
  BY DEF CaptureOK
<1>2. /\ contractAt \in Nat /\ telemetry.updatedAt \in Nat /\ telemetry'.updatedAt \in Nat
      /\ c.telemetry.updatedAt \in Nat
  BY EvidenceAssumption DEF EvidenceTypeOK, Journals, Capturing
<1>3. c.entry # NoReceipt => c.entry.binding.revision \in Nat
  BY DEF Capturing, EntryReceipts, Activations
<1>4. telemetry' = telemetry => Latest' = Latest
  BY DEF Latest
<1>5. CASE telemetry' = telemetry
  BY <1>1, <1>2, <1>3, <1>4, <1>5
<1>6. CASE telemetry'.updatedAt > telemetry.updatedAt
  BY <1>1, <1>2, <1>3, <1>6
<1> QED BY <1>5, <1>6

\* A turn that does not come between its two files, and one that stops there.
LEMMA TurnAlone ==
  ASSUME EvidenceIInv, NEW t \in Turn, NEW x \in Turning, Holding(t, x),
         x.stage # "written", x.revision <= contractAt', x.stage = "bound" => x.revision # 0,
         x.stage = "activated" => x.binding # NoReceipt /\ x.binding.revision <= contractAt',
         contractAt' \in 1..MaxContract, contractAt' >= contractAt,
         begunTurns' \in 0..MaxTurns,
         stamps' \in 0..MaxStamps, stamps' >= stamps,
         activation' \in Activations \cup {NoReceipt},
         activation' # NoReceipt => activation'.revision <= contractAt',
         UNCHANGED <<openReceipt, closeReceipt, telemetry, learningVars, crossed>>,
         torn' \in BOOLEAN, torn \/ Writing(t) => torn'
  PROVE  EvidenceIInv'
<1>1. turns' \in [Turn -> Turning] /\ turns'[t] = x
      /\ \A u \in Turn \ {t} : turns'[u] = turns[u]
  BY HoldingIs DEF EvidenceIInv, EvidenceTypeOK, Turning
<1>2. /\ openReceipt' = openReceipt /\ closeReceipt' = closeReceipt
      /\ telemetry' = telemetry /\ learners' = learners /\ candidates' = candidates
      /\ crossed' = crossed
  BY DEF learningVars
<1>3. EvidenceTypeOK'
  BY <1>1, <1>2 DEF EvidenceIInv, EvidenceTypeOK, Turning
<1>4. /\ Named' = Named /\ Files' = Files /\ Latest' = Latest
      /\ ~Writing(t)' /\ \A u \in Turn \ {t} : Writing(u)' = Writing(u)
  BY <1>1, <1>2 DEF Named, Files, Latest, Writing
<1>5. /\ contractAt \in Nat /\ contractAt' \in Nat /\ stamps \in Nat /\ stamps' \in Nat
  BY EvidenceAssumption DEF EvidenceIInv, EvidenceTypeOK
<1>6. EvidenceIsPast'
  <2>1. openReceipt # NoReceipt => openReceipt.binding.revision <= contractAt'
    BY <1>5 DEF EvidenceIInv, EvidenceIsPast, EvidenceTypeOK, EntryReceipts, Activations
  <2>2. ASSUME NEW r \in (Files \ {NoReceipt}) \cup Named PROVE r.stamp <= stamps'
    <3>1. r \in EntryReceipts
      BY DEF EvidenceIInv, EvidenceTypeOK, Files, Named, Journals
    <3> QED BY <1>5, <3>1 DEF EvidenceIInv, EvidenceIsPast, EntryReceipts
  <2>3. ASSUME NEW u \in Turn \ {t}
        PROVE  /\ turns[u].revision <= contractAt'
               /\ turns[u].stage = "bound" => turns[u].revision # 0
               /\ turns[u].stage \in {"activated", "written"} =>
                    turns[u].binding # NoReceipt /\ turns[u].binding.revision <= contractAt'
               /\ Writing(u) =>
                    turns[u].receipt # NoReceipt /\ turns[u].receipt.stamp <= stamps'
    <3> PICK y \in Turning : y = turns[u]
      BY DEF EvidenceIInv, EvidenceTypeOK, Turning
    <3>1. y.revision \in Nat /\ (y.binding # NoReceipt => y.binding.revision \in Nat)
          /\ (y.receipt # NoReceipt => y.receipt.stamp \in Nat)
      BY DEF Turning, Activations, EntryReceipts
    <3> QED BY <1>5, <3>1 DEF EvidenceIInv, EvidenceIsPast
  <2> QED BY <1>1, <1>2, <1>4, <2>1, <2>2, <2>3 DEF EvidenceIsPast, Writing
<1>7. TraceOK'
  <2> SUFFICES ASSUME ~crossed
               PROVE  /\ \A u \in Turn : Writing(u)' =>
                           turns'[u].receipt \in Files /\ \A w \in Turn \ {u} : ~Writing(w)'
                      /\ ~torn' =>
                           /\ (\A u \in Turn : ~Writing(u)') =>
                                Latest \in Files \/ (Latest = NoReceipt /\ Files = {NoReceipt})
                           /\ \A u \in Turn : Writing(u)' /\ turns'[u].receipt \in Named =>
                                Latest \in Files
    BY <1>1, <1>2, <1>4 DEF TraceOK, Writing
  <2>1. /\ \A u \in Turn : Writing(u) =>
             turns[u].receipt \in Files /\ \A w \in Turn \ {u} : ~Writing(w)
        /\ ~torn =>
             /\ (\A u \in Turn : ~Writing(u)) =>
                  Latest \in Files \/ (Latest = NoReceipt /\ Files = {NoReceipt})
             /\ \A u \in Turn : Writing(u) /\ turns[u].receipt \in Named => Latest \in Files
    BY DEF EvidenceIInv, TraceOK
  <2> QED BY <1>1, <1>4, <2>1
<1>8. CaptureOK'
  BY <1>2, <1>5, CaptureWaits DEF EvidenceIInv, EvidenceTypeOK
<1>9. (\A c \in candidates : c.stood)'
  BY <1>2 DEF EvidenceIInv
<1> QED BY <1>3, <1>6, <1>7, <1>8, <1>9 DEF EvidenceIInv

\* A receipt is in its file, with a stamp of its own unless it was there before.
LEMMA ReceiptKeeps ==
  ASSUME EvidenceIInv, NEW t \in Turn, WriteReceipt(t)
  PROVE  EvidenceIInv'
<1> PICK a \in Turning : a = turns[t]
  BY DEF EvidenceIInv, EvidenceTypeOK, Turning
<1> PICK f : f = (IF a.kind = "closing" THEN closeReceipt' ELSE openReceipt')
  OBVIOUS
<1> PICK x : x = [a EXCEPT !.stage = "written", !.receipt = f]
  OBVIOUS
<1>1. /\ a.stage = "activated" /\ a.kind \notin {"checkpoint", "close"} /\ Written(a)
      /\ Holding(t, x)
      /\ crossed' = (crossed \/ \E u \in Turn \ {t} : turns[u].stage = "written")
      /\ contractAt' = contractAt /\ activation' = activation /\ telemetry' = telemetry
      /\ begunTurns' = begunTurns /\ learners' = learners /\ candidates' = candidates
      /\ torn' = torn
  BY DEF WriteReceipt, Persists, learningVars
<1>2. /\ contractAt \in Nat /\ stamps \in 0..MaxStamps /\ MaxStamps \in Nat
      /\ openReceipt \in EntryReceipts \cup {NoReceipt}
      /\ closeReceipt \in EntryReceipts \cup {NoReceipt}
      /\ telemetry \in Journals
  BY EvidenceAssumption DEF EvidenceIInv, EvidenceTypeOK
<1>3. /\ a.binding \in Activations /\ a.binding.revision <= contractAt
      /\ a.revision <= contractAt
  <2>1. a.binding # NoReceipt /\ a.binding.revision <= contractAt /\ a.revision <= contractAt
    BY <1>1 DEF EvidenceIInv, EvidenceIsPast
  <2> QED BY <2>1 DEF Turning
<1>4. ASSUME NEW r \in Named PROVE r \in EntryReceipts /\ r.stamp \in Nat /\ r.stamp <= stamps
  <2>1. r \in EntryReceipts
    BY <1>2 DEF Named, Journals
  <2>2. r.stamp <= stamps
    BY DEF EvidenceIInv, EvidenceIsPast
  <2> QED BY <2>1, <2>2 DEF EntryReceipts
<1>5. ASSUME NEW r \in Files, r # NoReceipt
      PROVE  r \in EntryReceipts /\ r.stamp \in Nat /\ r.stamp <= stamps
  <2>1. r \in EntryReceipts
    BY <1>2, <1>5 DEF Files
  <2>2. r.stamp <= stamps
    BY <1>5 DEF EvidenceIInv, EvidenceIsPast
  <2> QED BY <2>1, <2>2 DEF EntryReceipts
\* What there is afterwards.
<1>6. /\ stamps' \in 0..MaxStamps /\ stamps' >= stamps
      /\ f \in EntryReceipts /\ f.stamp <= stamps' /\ f.binding.revision <= contractAt
      /\ openReceipt' \in {openReceipt, f} /\ closeReceipt' \in {closeReceipt, f}
      /\ f \in {openReceipt', closeReceipt'}
      /\ \/ openReceipt' = openReceipt /\ closeReceipt' = closeReceipt
         \/ f \notin Named
  <2>1. CASE Reused(a)
    <3>1. /\ a.kind # "closing" /\ openReceipt # NoReceipt /\ openReceipt.binding = a.binding
          /\ stamps' = stamps /\ openReceipt' = openReceipt /\ closeReceipt' = closeReceipt
      BY <1>1, <2>1 DEF Reused, Written
    <3>2. f = openReceipt
      BY <3>1
    <3>3. openReceipt \in EntryReceipts /\ openReceipt.stamp <= stamps
      BY <1>5, <3>1 DEF Files
    <3> QED BY <1>2, <1>3, <3>1, <3>2, <3>3
  <2>2. CASE ~Reused(a)
    <3> PICK p : p = (IF a.kind = "closing" THEN "close" ELSE "open")
      OBVIOUS
    <3>1. /\ stamps < MaxStamps /\ stamps' = stamps + 1
          /\ f = [phase |-> p, binding |-> a.binding, stamp |-> stamps']
          /\ openReceipt' \in {openReceipt, f} /\ closeReceipt' \in {closeReceipt, f}
      BY <1>1, <2>2 DEF Written
    <3>2. stamps' \in 1..MaxStamps /\ stamps' \in 0..MaxStamps /\ stamps' > stamps
          /\ stamps \in Nat
      BY <1>2, <3>1
    <3>3. f \in EntryReceipts /\ f.stamp = stamps' /\ f.binding = a.binding
      BY <1>3, <3>1, <3>2 DEF EntryReceipts
    <3>4. f \notin Named
      BY <1>4, <3>2, <3>3
    <3>5. f \in {openReceipt', closeReceipt'}
      OBVIOUS
    <3> QED BY <1>3, <3>1, <3>2, <3>3, <3>4, <3>5
  <2> QED BY <2>1, <2>2
<1>7. /\ x \in Turning /\ x.stage = "written" /\ x.receipt = f /\ x.binding = a.binding
      /\ x.revision = a.revision
  <2>1. x = [a EXCEPT !.stage = "written", !.receipt = f]
    OBVIOUS
  <2> QED BY <1>6, <2>1 DEF Turning
<1>8. turns' \in [Turn -> Turning] /\ turns'[t] = x
      /\ \A u \in Turn \ {t} : turns'[u] = turns[u]
  <2>1. turns \in [Turn -> Turning]
    BY DEF EvidenceIInv, EvidenceTypeOK, Turning
  <2> QED BY <1>1, <1>7, <2>1, HoldingIs
<1>9. /\ Named' = Named /\ Latest' = Latest /\ Files' = {openReceipt', closeReceipt'}
      /\ Writing(t)' /\ ~Writing(t) /\ \A u \in Turn \ {t} : Writing(u)' = Writing(u)
  BY <1>1, <1>7, <1>8 DEF Named, Files, Latest, Writing
<1>10. EvidenceTypeOK'
  <2>1. /\ openReceipt' \in EntryReceipts \cup {NoReceipt}
        /\ closeReceipt' \in EntryReceipts \cup {NoReceipt}
    BY <1>2, <1>6
  <2>2. crossed' \in BOOLEAN
    BY <1>1, Zenon DEF EvidenceIInv, EvidenceTypeOK
  <2> QED BY <1>1, <1>6, <1>8, <2>1, <2>2 DEF EvidenceIInv, EvidenceTypeOK, Turning
<1>11. EvidenceIsPast'
  <2>1. openReceipt' # NoReceipt => openReceipt'.binding.revision <= contractAt
    BY <1>6 DEF EvidenceIInv, EvidenceIsPast
  <2>2. ASSUME NEW r \in (Files' \ {NoReceipt}) \cup Named PROVE r.stamp <= stamps'
    <3>1. CASE r = f
      BY <1>6, <3>1
    <3>2. CASE r # f
      <4>1. r \in Named \/ (r \in Files /\ r # NoReceipt)
        BY <1>6, <1>9, <2>2, <3>2 DEF Files
      <4>2. r.stamp \in Nat /\ r.stamp <= stamps
        BY <1>4, <1>5, <4>1
      <4> QED BY <1>2, <1>6, <4>2
    <3> QED BY <3>1, <3>2
  <2>3. ASSUME NEW u \in Turn \ {t}
        PROVE  /\ turns[u].revision <= contractAt
               /\ turns[u].stage = "bound" => turns[u].revision # 0
               /\ turns[u].stage \in {"activated", "written"} =>
                    turns[u].binding # NoReceipt /\ turns[u].binding.revision <= contractAt
               /\ Writing(u) =>
                    turns[u].receipt # NoReceipt /\ turns[u].receipt.stamp <= stamps'
    <3> PICK y \in Turning : y = turns[u]
      BY DEF EvidenceIInv, EvidenceTypeOK, Turning
    <3>1. y.receipt # NoReceipt => y.receipt.stamp \in Nat
      BY DEF Turning, EntryReceipts
    <3> QED BY <1>2, <1>6, <3>1 DEF EvidenceIInv, EvidenceIsPast
  <2>4. x.binding # NoReceipt /\ x.receipt # NoReceipt
    BY <1>3, <1>6, <1>7, NoneIsNoReceipt
  <2>5. activation' # NoReceipt => activation'.revision <= contractAt
    BY <1>1 DEF EvidenceIInv, EvidenceIsPast
  <2>6. ASSUME NEW u \in Turn
        PROVE  /\ turns'[u].revision <= contractAt'
               /\ turns'[u].stage = "bound" => turns'[u].revision # 0
               /\ turns'[u].stage \in {"activated", "written"} =>
                    turns'[u].binding # NoReceipt /\ turns'[u].binding.revision <= contractAt'
               /\ turns'[u].stage = "written" =>
                    turns'[u].receipt # NoReceipt /\ turns'[u].receipt.stamp <= stamps'
    <3>1. CASE u = t
      BY <1>1, <1>3, <1>6, <1>7, <1>8, <2>4, <3>1
    <3>2. CASE u # t
      BY <1>1, <1>8, <2>3, <3>2 DEF Writing
    <3> QED BY <3>1, <3>2
  <2>7. \A r \in (Files' \ {NoReceipt}) \cup Named' : r.stamp <= stamps'
    BY <1>9, <2>2
  <2> QED BY <1>1, <2>1, <2>5, <2>6, <2>7 DEF EvidenceIsPast, Writing
<1>12. TraceOK'
  <2> SUFFICES ASSUME ~crossed'
               PROVE  /\ \A u \in Turn : Writing(u)' =>
                           turns'[u].receipt \in Files' /\ \A w \in Turn \ {u} : ~Writing(w)'
                      /\ ~torn' =>
                           /\ (\A u \in Turn : ~Writing(u)') =>
                                Latest' \in Files' \/ (Latest' = NoReceipt /\ Files' = {NoReceipt})
                           /\ \A u \in Turn : Writing(u)' /\ turns'[u].receipt \in Named' =>
                                Latest' \in Files'
    BY DEF TraceOK, Writing
  <2>1. ~crossed /\ \A u \in Turn \ {t} : ~Writing(u)
    BY <1>1 DEF Writing
  <2>2. \A u \in Turn : Writing(u)' => u = t
    BY <1>9, <2>1
  <2>3. turns'[t].receipt = f /\ f \in Files'
    BY <1>6, <1>7, <1>8, <1>9
  <2>4. ASSUME ~torn, f \in Named PROVE Latest \in Files'
    <3>1. Latest \in Files \/ (Latest = NoReceipt /\ Files = {NoReceipt})
      BY <1>9, <2>1, <2>4 DEF EvidenceIInv, TraceOK
    <3>2. Files' = Files
      BY <1>6, <1>9, <2>4 DEF Files
    <3> QED BY <1>6, <1>9, <3>1, <3>2, NoneIsNoReceipt
  <2> QED BY <1>1, <1>9, <2>2, <2>3, <2>4
<1>13. CaptureOK'
  BY <1>1, <1>2, CaptureWaits DEF EvidenceIInv
<1>14. (\A c \in candidates : c.stood)'
  BY <1>1 DEF EvidenceIInv
<1> QED BY <1>10, <1>11, <1>12, <1>13, <1>14 DEF EvidenceIInv

\* A turn begins at rest.
LEMMA AtRestIs == AtRest \in Turning /\ AtRest.stage = "rest" /\ AtRest.revision = 0
<1>1. (CHOOSE i \in Intent : TRUE) \in Intent /\ MaxContract \in Nat
  BY EvidenceAssumption
<1> QED BY <1>1 DEF AtRest, Turning, TurnKinds

\* The journal names a receipt once it is in its file, unless it names it already.
LEMMA RecordKeeps ==
  ASSUME EvidenceIInv, NEW t \in Turn, RecordTelemetry(t)
  PROVE  EvidenceIInv'
<1> PICK a \in Turning : a = turns[t]
  BY DEF EvidenceIInv, EvidenceTypeOK, Turning
<1> PICK f : f = a.receipt
  OBVIOUS
<1> PICK x : x = (IF a.kind = "postopen" /\ a.revision = contractAt
                    THEN [a EXCEPT !.kind = "closing", !.stage = "bound"] ELSE AtRest)
  OBVIOUS
<1>1. /\ a.stage = "written" /\ telemetry' = Journal(f)
      /\ torn' = (torn /\ telemetry' = telemetry)
      /\ Holding(t, x)
      /\ contractAt' = contractAt /\ stamps' = stamps /\ activation' = activation
      /\ openReceipt' = openReceipt /\ closeReceipt' = closeReceipt
      /\ begunTurns' = begunTurns /\ learners' = learners /\ candidates' = candidates
      /\ crossed' = crossed
  BY DEF RecordTelemetry, learningVars
<1>2. /\ contractAt \in Nat /\ contractAt # 0 /\ stamps \in Nat
      /\ telemetry \in Journals
  BY EvidenceAssumption DEF EvidenceIInv, EvidenceTypeOK
<1>3. /\ f \in EntryReceipts /\ f.stamp <= stamps /\ a.revision <= contractAt
  <2>1. f # NoReceipt /\ f.stamp <= stamps /\ a.revision <= contractAt
    BY <1>1 DEF EvidenceIInv, EvidenceIsPast, Writing
  <2> QED BY <2>1 DEF Turning
<1>4. /\ x \in Turning /\ x.stage \in {"bound", "rest"} /\ x.revision <= contractAt
      /\ x.stage = "bound" => x.revision # 0
  <2>1. CASE a.kind = "postopen" /\ a.revision = contractAt
    <3>1. x = [a EXCEPT !.kind = "closing", !.stage = "bound"]
      BY <2>1
    <3> QED BY <1>2, <1>3, <2>1, <3>1 DEF Turning, TurnKinds
  <2>2. CASE ~(a.kind = "postopen" /\ a.revision = contractAt)
    BY <1>2, <2>2, AtRestIs
  <2> QED BY <2>1, <2>2
<1>5. turns' \in [Turn -> Turning] /\ turns'[t] = x
      /\ \A u \in Turn \ {t} : turns'[u] = turns[u]
  <2>1. turns \in [Turn -> Turning]
    BY DEF EvidenceIInv, EvidenceTypeOK, Turning
  <2> QED BY <1>1, <1>4, <2>1, HoldingIs
<1>6. /\ Writing(t) /\ ~Writing(t)' /\ \A u \in Turn \ {t} : Writing(u)' = Writing(u)
      /\ Files' = Files
  BY <1>1, <1>4, <1>5 DEF Writing, Files
<1> PICK j : j = telemetry'
  OBVIOUS
<1>7. /\ j \in Journals
      /\ \/ j = telemetry /\ f \in Named
         \/ /\ f \notin Named
            /\ j.updatedAt = telemetry.updatedAt + 1
            /\ j.events # << >> /\ j.events[Len(j.events)] = f
            /\ \A i \in DOMAIN j.events : j.events[i] \in Named \cup {f}
  BY <1>1, <1>2, <1>3, JournalIs
<1>8. Named' \subseteq Named \cup {f}
  BY <1>7 DEF Named
<1>9. EvidenceTypeOK'
  <2>1. torn' \in BOOLEAN
    BY <1>1, Zenon DEF EvidenceIInv, EvidenceTypeOK
  <2> QED BY <1>1, <1>5, <1>7, <2>1 DEF EvidenceIInv, EvidenceTypeOK, Turning
<1>10. EvidenceIsPast'
  <2>1. /\ activation' # NoReceipt => activation'.revision <= contractAt'
        /\ openReceipt' # NoReceipt => openReceipt'.binding.revision <= contractAt'
    BY <1>1 DEF EvidenceIInv, EvidenceIsPast
  <2>2. \A r \in (Files' \ {NoReceipt}) \cup Named' : r.stamp <= stamps'
    BY <1>1, <1>3, <1>6, <1>8 DEF EvidenceIInv, EvidenceIsPast
  <2>3. ASSUME NEW u \in Turn
        PROVE  /\ turns'[u].revision <= contractAt'
               /\ turns'[u].stage = "bound" => turns'[u].revision # 0
               /\ turns'[u].stage \in {"activated", "written"} =>
                    turns'[u].binding # NoReceipt /\ turns'[u].binding.revision <= contractAt'
               /\ turns'[u].stage = "written" =>
                    turns'[u].receipt # NoReceipt /\ turns'[u].receipt.stamp <= stamps'
    <3>1. CASE u = t
      BY <1>1, <1>4, <1>5, <3>1
    <3>2. CASE u # t
      BY <1>1, <1>5, <3>2 DEF EvidenceIInv, EvidenceIsPast, Writing
    <3> QED BY <3>1, <3>2
  <2> QED BY <2>1, <2>2, <2>3 DEF EvidenceIsPast, Writing
<1>11. TraceOK'
  <2> SUFFICES ASSUME ~crossed
               PROVE  /\ \A u \in Turn : Writing(u)' =>
                           turns'[u].receipt \in Files' /\ \A w \in Turn \ {u} : ~Writing(w)'
                      /\ ~torn' =>
                           /\ (\A u \in Turn : ~Writing(u)') =>
                                Latest' \in Files' \/ (Latest' = NoReceipt /\ Files' = {NoReceipt})
                           /\ \A u \in Turn : Writing(u)' /\ turns'[u].receipt \in Named' =>
                                Latest' \in Files'
    BY <1>1 DEF TraceOK, Writing
  <2>1. /\ f \in Files /\ \A u \in Turn : ~Writing(u)'
    BY <1>6 DEF EvidenceIInv, TraceOK
  <2>2. ASSUME ~torn' PROVE Latest' \in Files'
    <3>1. CASE j = telemetry /\ f \in Named
      <4>1. ~torn /\ Latest' = Latest
        BY <1>1, <2>2, <3>1 DEF Latest
      <4> QED BY <1>6, <3>1, <4>1 DEF EvidenceIInv, TraceOK
    <3>2. CASE j.events # << >> /\ j.events[Len(j.events)] = f
      BY <1>6, <2>1, <3>2 DEF Latest, Last
    <3> QED BY <1>7, <3>1, <3>2
  <2> QED BY <2>1, <2>2
<1>12. CaptureOK'
  <2>1. j = telemetry \/ j.updatedAt > telemetry.updatedAt
    BY <1>2, <1>7 DEF Journals
  <2> QED BY <1>1, <1>2, <1>7, <2>1, CaptureWaits DEF EvidenceIInv
<1>13. (\A c \in candidates : c.stood)'
  BY <1>1 DEF EvidenceIInv
<1> QED BY <1>9, <1>10, <1>11, <1>12, <1>13 DEF EvidenceIInv

\* A turn reads, decides, sets the contract or stops.
LEMMA TurnKeeps ==
  ASSUME EvidenceIInv, NEW t \in Turn,
         \/ ReadContext(t) \/ EnsureActivation(t) \/ CheckpointSet(t)
         \/ DispatchKeeps(t) \/ DispatchMoves(t) \/ TurnStops(t)
  PROVE  EvidenceIInv'
<1> PICK a \in Turning : a = turns[t]
  BY DEF EvidenceIInv, EvidenceTypeOK, Turning
<1>1. /\ contractAt \in 1..MaxContract /\ MaxContract \in Nat
      /\ contractAt \in 0..MaxContract /\ contractAt >= contractAt
      /\ stamps \in 0..MaxStamps /\ MaxStamps \in Nat /\ stamps >= stamps
      /\ begunTurns \in 0..MaxTurns /\ MaxTurns \in Nat
      /\ activation \in Activations \cup {NoReceipt}
      /\ torn \in BOOLEAN
      /\ activation # NoReceipt => activation.revision <= contractAt
      /\ a.revision <= contractAt
      /\ a.stage \in {"activated", "written"} =>
           a.binding # NoReceipt /\ a.binding.revision <= contractAt
      /\ a.stage = "bound" => a.revision # 0
      /\ contractAt # 0
  BY EvidenceAssumption DEF EvidenceIInv, EvidenceTypeOK, EvidenceIsPast
<1>2. CASE ReadContext(t)
  <2>1. /\ contractAt' = contractAt /\ stamps' = stamps /\ activation' = activation
        /\ UNCHANGED <<openReceipt, closeReceipt, telemetry, learningVars, crossed>>
        /\ torn' = torn
    BY <1>2 DEF ReadContext, fileVarsOfTurns, historyVars
  <2>2. PICK x : /\ Holding(t, x) /\ x \in Turning /\ x.stage = "bound"
                 /\ x.revision = contractAt /\ begunTurns' \in 0..MaxTurns /\ ~Writing(t)
    <3>1. CASE a.stage = "rest"
      <4>1. PICK i \in Intent, k \in {"open", "checkpoint", "close"} :
              Holding(t, [AtRest EXCEPT !.kind = k, !.stage = "bound", !.intent = i,
                                        !.revision = contractAt])
        BY <1>2, <3>1 DEF ReadContext
      <4> PICK r \in Turning : r = AtRest
        BY AtRestIs
      <4> PICK x : x = [r EXCEPT !.kind = k, !.stage = "bound", !.intent = i,
                                 !.revision = contractAt]
        OBVIOUS
      <4>2. x \in Turning /\ x.stage = "bound" /\ x.revision = contractAt
        BY <1>1 DEF Turning, TurnKinds
      <4>3. begunTurns < MaxTurns /\ begunTurns' = begunTurns + 1
        BY <1>2, <3>1 DEF ReadContext
      <4>4. begunTurns' \in 0..MaxTurns
        BY <1>1, <4>3
      <4> QED BY <3>1, <4>1, <4>2, <4>4 DEF Writing
    <3>2. CASE a.stage = "reopen"
      <4> PICK x : x = [a EXCEPT !.stage = "bound", !.revision = contractAt]
        OBVIOUS
      <4>1. x \in Turning /\ x.stage = "bound" /\ x.revision = contractAt
        BY <1>1 DEF Turning
      <4>2. Holding(t, x) /\ begunTurns' \in 0..MaxTurns
        BY <1>1, <1>2, <3>2 DEF ReadContext
      <4> QED BY <3>2, <4>1, <4>2 DEF Writing
    <3> QED BY <1>2, <3>1, <3>2 DEF ReadContext
  <2> QED BY <1>1, <2>1, <2>2, TurnAlone
<1>3. CASE EnsureActivation(t)
  <2> PICK b : b = activation'
    OBVIOUS
  <2> PICK x : x = [a EXCEPT !.stage = "activated", !.binding = b]
    OBVIOUS
  <2>1. /\ a.stage = "bound" /\ Holding(t, x) /\ ~Writing(t)
        /\ contractAt' = contractAt /\ begunTurns' = begunTurns /\ torn' = torn
        /\ UNCHANGED <<openReceipt, closeReceipt, telemetry, learningVars, crossed>>
    BY <1>3 DEF EnsureActivation, historyVars, Writing
  <2>2. b \in Activations /\ b.revision <= contractAt
        /\ stamps' \in 0..MaxStamps /\ stamps' >= stamps
    <3>1. CASE Serves(a)
      <4>1. stamps' = stamps /\ b = activation /\ activation # NoReceipt
        BY <1>3, <3>1 DEF EnsureActivation, Serves
      <4> QED BY <1>1, <4>1
    <3>2. CASE ~Serves(a)
      <4>1. /\ stamps < MaxStamps /\ stamps' = stamps + 1
            /\ b = [intent |-> a.intent, revision |-> a.revision, stamp |-> stamps']
        BY <1>3, <3>2 DEF EnsureActivation
      <4>2. a.stage = "bound" => a.revision \in 1..MaxContract
        BY <1>1 DEF Turning
      <4>3. stamps' \in 1..MaxStamps /\ stamps' \in 0..MaxStamps /\ stamps' >= stamps
        BY <1>1, <4>1
      <4> QED BY <1>1, <2>1, <4>1, <4>2, <4>3 DEF Activations, Turning
    <3> QED BY <3>1, <3>2
  <2>3. b # NoReceipt
    BY <2>2, NoneIsNoReceipt
  <2>4. /\ x \in Turning /\ x.stage = "activated" /\ x.binding = b /\ x.revision <= contractAt
    BY <1>1, <2>2 DEF Turning
  <2> QED BY <1>1, <2>1, <2>2, <2>3, <2>4, TurnAlone
<1>4. CASE CheckpointSet(t)
  <2> PICK x : x = [a EXCEPT !.kind = "open", !.stage = "reopen"]
    OBVIOUS
  <2>1. /\ contractAt' \in 1..MaxContract /\ contractAt' >= contractAt /\ a.revision <= contractAt'
    BY <1>1, <1>4 DEF CheckpointSet, Turning
  <2>2. /\ Holding(t, x) /\ ~Writing(t) /\ stamps' = stamps /\ activation' = activation
        /\ begunTurns' = begunTurns /\ torn' = torn
        /\ UNCHANGED <<openReceipt, closeReceipt, telemetry, learningVars, crossed>>
    BY <1>4 DEF CheckpointSet, fileVarsOfTurns, historyVars, Writing
  <2>3. x \in Turning /\ x.stage = "reopen" /\ x.revision = a.revision
    BY DEF Turning, TurnKinds
  <2>4. activation # NoReceipt => activation.revision <= contractAt'
    BY <1>1, <2>1 DEF Activations
  <2> QED BY <1>1, <2>1, <2>2, <2>3, <2>4, TurnAlone
<1>5. CASE DispatchKeeps(t)
  <2> PICK x : x = [a EXCEPT !.kind = "closing"]
    OBVIOUS
  <2>1. /\ Holding(t, x) /\ a.stage = "activated" /\ ~Writing(t)
        /\ contractAt' = contractAt /\ stamps' = stamps /\ activation' = activation
        /\ begunTurns' = begunTurns /\ torn' = torn
        /\ UNCHANGED <<openReceipt, closeReceipt, telemetry, learningVars, crossed>>
    BY <1>5 DEF DispatchKeeps, fileVarsOfTurns, historyVars, Writing
  <2>2. /\ x \in Turning /\ x.stage = a.stage /\ x.revision = a.revision
        /\ x.binding = a.binding
    BY DEF Turning, TurnKinds
  <2> QED BY <1>1, <2>1, <2>2, TurnAlone
<1>6. CASE DispatchMoves(t)
  <2> PICK x : x = [a EXCEPT !.kind = "postopen", !.stage = "reopen"]
    OBVIOUS
  <2>1. /\ contractAt' \in 1..MaxContract /\ contractAt' >= contractAt /\ a.revision <= contractAt'
    BY <1>1, <1>6 DEF DispatchMoves, Turning
  <2>2. /\ Holding(t, x) /\ ~Writing(t) /\ stamps' = stamps /\ activation' = activation
        /\ begunTurns' = begunTurns /\ torn' = torn
        /\ UNCHANGED <<openReceipt, closeReceipt, telemetry, learningVars, crossed>>
    BY <1>6 DEF DispatchMoves, fileVarsOfTurns, historyVars, Writing
  <2>3. x \in Turning /\ x.stage = "reopen" /\ x.revision = a.revision
    BY DEF Turning, TurnKinds
  <2>4. activation # NoReceipt => activation.revision <= contractAt'
    BY <1>1, <2>1 DEF Activations
  <2> QED BY <1>1, <2>1, <2>2, <2>3, <2>4, TurnAlone
<1>7. CASE TurnStops(t)
  <2>1. /\ Holding(t, AtRest) /\ torn' = (torn \/ turns[t].stage = "written")
        /\ contractAt' = contractAt /\ stamps' = stamps /\ activation' = activation
        /\ begunTurns' = begunTurns
        /\ UNCHANGED <<openReceipt, closeReceipt, telemetry, learningVars, crossed>>
    BY <1>7 DEF TurnStops, fileVarsOfTurns
  <2>2. torn' \in BOOLEAN /\ (torn \/ Writing(t) => torn')
    BY <1>1, <2>1, Zenon DEF Writing
  <2>3. AtRest.revision <= contractAt
    BY <1>1, AtRestIs
  <2> QED BY <1>1, <2>1, <2>2, <2>3, AtRestIs, TurnAlone
<1> QED BY <1>2, <1>3, <1>4, <1>5, <1>6, <1>7

\* A capture that reads, checks, stages or stops leaves the turns alone.
LEMMA CaptureMoves ==
  ASSUME EvidenceIInv, NEW l \in Learner, NEW x \in Capturing, Learning(l, x),
         x.stage \in {"entry", "asked", "contract", "telemetry"} =>
           x.entry # NoReceipt /\ x.entry.binding.revision <= contractAt,
         x.stage \in {"asked", "contract", "telemetry"} =>
           /\ x.telemetry.updatedAt <= telemetry.updatedAt
           /\ x.telemetry.updatedAt = telemetry.updatedAt => x.telemetry = telemetry,
         /\ x.stage = "telemetry" \/ (x.stage = "contract" /\ contractAt = x.entry.binding.revision)
         /\ telemetry = x.telemetry /\ Latest = x.entry
         => x.stood,
         candidates' \subseteq [entry: EntryReceipts, telemetry: Journals, stood: BOOLEAN],
         \A c \in candidates' : c.stood
  PROVE  EvidenceIInv'
<1>1. /\ contractAt' = contractAt /\ stamps' = stamps /\ activation' = activation
      /\ openReceipt' = openReceipt /\ closeReceipt' = closeReceipt
      /\ telemetry' = telemetry /\ begunTurns' = begunTurns /\ turns' = turns
      /\ crossed' = crossed /\ torn' = torn
  BY DEF Learning, fileVarsOfTurns, historyVars
<1>2. learners \in [Learner -> Capturing]
  BY DEF EvidenceIInv, EvidenceTypeOK, Capturing
<1>3. /\ learners' \in [Learner -> Capturing] /\ learners'[l] = x
      /\ \A k \in Learner \ {l} : learners'[k] = learners[k]
  BY <1>2 DEF Learning
<1>4. EvidenceTypeOK'
  BY <1>1, <1>3 DEF EvidenceIInv, EvidenceTypeOK, Capturing
<1>5. EvidenceIsPast' /\ TraceOK'
  <2>1. /\ Named' = Named /\ Files' = Files /\ Latest' = Latest
        /\ \A t \in Turn : Writing(t)' = Writing(t)
    BY <1>1 DEF Named, Files, Latest, Writing
  <2>2. EvidenceIsPast'
    BY <1>1, <2>1 DEF EvidenceIInv, EvidenceIsPast, Writing
  <2>3. TraceOK'
    BY <1>1, <2>1 DEF EvidenceIInv, TraceOK, Writing
  <2> QED BY <2>2, <2>3
<1>6. CaptureOK'
  <2> SUFFICES ASSUME NEW k \in Learner, NEW c \in Capturing, c = learners'[k]
               PROVE  /\ c.stage \in {"entry", "asked", "contract", "telemetry"} =>
                           c.entry # NoReceipt /\ c.entry.binding.revision <= contractAt
                      /\ c.stage \in {"asked", "contract", "telemetry"} =>
                           /\ c.telemetry.updatedAt <= telemetry.updatedAt
                           /\ c.telemetry.updatedAt = telemetry.updatedAt =>
                                c.telemetry = telemetry
                      /\ /\ c.stage = "telemetry"
                            \/ (c.stage = "contract" /\ contractAt = c.entry.binding.revision)
                         /\ telemetry = c.telemetry /\ Latest = c.entry
                         => c.stood
    BY <1>1, <1>3 DEF CaptureOK, Latest
  <2>1. CASE k = l
    BY <1>3, <2>1
  <2>2. CASE k # l
    BY <1>3, <2>2 DEF EvidenceIInv, CaptureOK
  <2> QED BY <2>1, <2>2
<1>7. (\A c \in candidates : c.stood)'
  OBVIOUS
<1> QED BY <1>4, <1>5, <1>6, <1>7 DEF EvidenceIInv

\* A capture reads, checks, stages or stops.
LEMMA CaptureKeeps ==
  ASSUME EvidenceIInv, NEW l \in Learner,
         \/ CollectEntry(l) \/ CollectTelemetry(l) \/ CheckEntry(l) \/ CheckContract(l)
         \/ StageCandidate(l) \/ LearnerStops(l)
  PROVE  EvidenceIInv'
<1> PICK c \in Capturing : c = learners[l]
  BY DEF EvidenceIInv, EvidenceTypeOK, Capturing
<1>1. /\ contractAt \in Nat /\ telemetry \in Journals /\ telemetry.updatedAt \in Nat
      /\ openReceipt \in EntryReceipts \cup {NoReceipt}
      /\ openReceipt # NoReceipt => openReceipt.binding.revision <= contractAt
      /\ candidates \subseteq [entry: EntryReceipts, telemetry: Journals, stood: BOOLEAN]
      /\ \A d \in candidates : d.stood
  BY EvidenceAssumption DEF EvidenceIInv, EvidenceTypeOK, EvidenceIsPast, Journals
<1>2. /\ c.stage \in {"entry", "asked", "contract", "telemetry"} =>
           c.entry # NoReceipt /\ c.entry.binding.revision <= contractAt
      /\ c.stage \in {"asked", "contract", "telemetry"} =>
           /\ c.telemetry.updatedAt <= telemetry.updatedAt
           /\ c.telemetry.updatedAt = telemetry.updatedAt => c.telemetry = telemetry
      /\ /\ c.stage = "telemetry" \/ (c.stage = "contract" /\ contractAt = c.entry.binding.revision)
         /\ telemetry = c.telemetry /\ Latest = c.entry
         => c.stood
  BY DEF EvidenceIInv, CaptureOK
<1> PICK n : n = NotLearning
  OBVIOUS
<1>3. NoJournal \in Journals /\ n \in Capturing
  <2>1. TRUE \in BOOLEAN /\ FALSE \in BOOLEAN
    BY Zenon
  <2>2. NoJournal \in Journals
    <3>1. << >> \in Seq(EntryReceipts) /\ Len(<< >>) = 0
      OBVIOUS
    <3> QED BY <3>1, EvidenceAssumption DEF NoJournal, Journals
  <2> QED BY <2>1, <2>2 DEF NotLearning, Capturing
<1>4. CASE CollectEntry(l)
  <2> PICK x : x = [n EXCEPT !.stage = "entry", !.entry = openReceipt]
    OBVIOUS
  <2>1. /\ openReceipt # NoReceipt /\ Learning(l, x) /\ candidates' = candidates
    BY <1>4 DEF CollectEntry
  <2>2. x \in Capturing /\ x.stage = "entry" /\ x.entry = openReceipt
    BY <1>1, <1>3 DEF Capturing
  <2> QED BY <1>1, <2>1, <2>2, CaptureMoves
<1>5. CASE CollectTelemetry(l)
  <2> PICK x : x = [c EXCEPT !.stage = "asked", !.telemetry = telemetry]
    OBVIOUS
  <2>1. /\ c.stage = "entry" /\ Learning(l, x) /\ candidates' = candidates
    BY <1>5 DEF CollectTelemetry
  <2>2. /\ x \in Capturing /\ x.stage = "asked" /\ x.entry = c.entry
        /\ x.telemetry = telemetry
    BY <1>1 DEF Capturing
  <2>3. x.telemetry.updatedAt <= telemetry.updatedAt
    BY <1>1, <2>2
  <2>4. x.entry # NoReceipt /\ x.entry.binding.revision <= contractAt
    BY <1>2, <2>1, <2>2
  <2> QED BY <1>1, <1>2, <2>1, <2>2, <2>3, <2>4, CaptureMoves
<1>6. CASE CheckEntry(l)
  <2> PICK s \in BOOLEAN : s = (/\ contractAt = c.entry.binding.revision
                                /\ telemetry = c.telemetry
                                /\ Latest = c.entry)
    BY Zenon
  <2> PICK x : x = [c EXCEPT !.stage = "contract", !.stood = s]
    OBVIOUS
  <2>1. /\ c.stage = "asked" /\ Learning(l, x) /\ candidates' = candidates
    BY <1>6 DEF CheckEntry
  <2>2. /\ x \in Capturing /\ x.stage = "contract" /\ x.entry = c.entry
        /\ x.telemetry = c.telemetry /\ x.stood = s
    BY DEF Capturing
  <2>3. /\ contractAt = x.entry.binding.revision
        /\ telemetry = x.telemetry /\ Latest = x.entry
        => x.stood
    BY <2>2
  <2> QED BY <1>1, <1>2, <2>1, <2>2, <2>3, CaptureMoves
<1>7. CASE CheckContract(l)
  <2> PICK x : x = [c EXCEPT !.stage = "telemetry"]
    OBVIOUS
  <2>1. /\ c.stage = "contract" /\ contractAt = c.entry.binding.revision
        /\ Learning(l, x) /\ candidates' = candidates
    BY <1>7 DEF CheckContract
  <2>2. /\ x \in Capturing /\ x.stage = "telemetry" /\ x.entry = c.entry
        /\ x.telemetry = c.telemetry /\ x.stood = c.stood
    BY DEF Capturing
  <2> QED BY <1>1, <1>2, <2>1, <2>2, CaptureMoves
<1>8. CASE StageCandidate(l)
  <2> PICK x : x = [n EXCEPT !.stage = "done"]
    OBVIOUS
  <2> PICK d : d = [entry |-> c.entry, telemetry |-> c.telemetry, stood |-> c.stood]
    OBVIOUS
  <2>1. /\ c.stage = "telemetry" /\ telemetry = c.telemetry /\ Latest = c.entry
        /\ Learning(l, x) /\ candidates' \in {candidates, candidates \cup {d}}
    BY <1>8 DEF StageCandidate, TelemetryCurrent, NamesEntry
  <2>2. x \in Capturing /\ x.stage = "done"
    BY <1>3 DEF Capturing
  <2>3. c.stood /\ c.entry # NoReceipt
    BY <1>2, <2>1
  <2>4. d \in [entry: EntryReceipts, telemetry: Journals, stood: BOOLEAN] /\ d.stood
    BY <2>3 DEF Capturing
  <2>5. /\ candidates' \subseteq [entry: EntryReceipts, telemetry: Journals, stood: BOOLEAN]
        /\ \A e \in candidates' : e.stood
    BY <1>1, <2>1, <2>4
  <2> QED BY <1>1, <2>1, <2>2, <2>5, CaptureMoves
<1>9. CASE LearnerStops(l)
  <2> PICK x : x = [n EXCEPT !.stage = "done"]
    OBVIOUS
  <2>1. Learning(l, x) /\ candidates' = candidates
    BY <1>9 DEF LearnerStops
  <2>2. x \in Capturing /\ x.stage = "done"
    BY <1>3 DEF Capturing
  <2> QED BY <1>1, <2>1, <2>2, CaptureMoves
<1> QED BY <1>4, <1>5, <1>6, <1>7, <1>8, <1>9

\* At first there is no turn and no candidate.
LEMMA EvidenceInitHolds == EvidenceInit => EvidenceIInv
<1> SUFFICES ASSUME EvidenceInit PROVE EvidenceIInv
  OBVIOUS
<1>1. /\ NoJournal \in Journals /\ NoJournal.events = << >> /\ NoJournal.updatedAt = 0
      /\ NotLearning \in Capturing
  <2>1. TRUE \in BOOLEAN /\ FALSE \in BOOLEAN
    BY Zenon
  <2>2. << >> \in Seq(EntryReceipts) /\ Len(<< >>) = 0
    OBVIOUS
  <2>3. NoJournal \in Journals
    BY <2>2, EvidenceAssumption DEF NoJournal, Journals
  <2> QED BY <2>1, <2>3 DEF NotLearning, Capturing, NoJournal
<1>2. /\ contractAt = 1 /\ stamps = 0 /\ begunTurns = 0
      /\ activation = NoReceipt /\ openReceipt = NoReceipt /\ closeReceipt = NoReceipt
      /\ telemetry = NoJournal /\ candidates = {} /\ crossed = FALSE /\ torn = FALSE
      /\ turns \in [Turn -> Turning] /\ learners \in [Learner -> Capturing]
      /\ \A t \in Turn : turns[t] = AtRest
      /\ \A l \in Learner : learners[l].stage = "rest"
  BY <1>1, AtRestIs DEF EvidenceInit, NotLearning
<1>3. /\ contractAt \in 1..MaxContract /\ stamps \in 0..MaxStamps /\ begunTurns \in 0..MaxTurns
  BY <1>2, EvidenceAssumption
<1>4. crossed \in BOOLEAN /\ torn \in BOOLEAN
  BY <1>2, Zenon
<1>5. EvidenceTypeOK
  BY <1>1, <1>2, <1>3, <1>4 DEF EvidenceTypeOK, Turning, Capturing
<1>6. Named = {} /\ Files = {NoReceipt} /\ Latest = NoReceipt /\ \A t \in Turn : ~Writing(t)
  BY <1>1, <1>2, AtRestIs DEF Named, Files, Latest, Writing
<1>7. EvidenceIsPast
  BY <1>2, <1>6, AtRestIs DEF EvidenceIsPast
<1>8. TraceOK /\ CaptureOK /\ \A c \in candidates : c.stood
  BY <1>2, <1>6 DEF TraceOK, CaptureOK
<1> QED BY <1>5, <1>7, <1>8 DEF EvidenceIInv

\* Whatever the turns and captures of a scope do in whatever order, receipts are of the
\* past, one turn at a time is between its files, and a capture's checks still hold.
THEOREM EvidenceInvariance == EvidenceSpec => []EvidenceIInv
<1>1. ASSUME EvidenceIInv, [EvidenceNext]_evidenceVars PROVE EvidenceIInv'
  <2>1. CASE EvidenceNext
    <3>1. ASSUME NEW t \in Turn,
                 \/ ReadContext(t) \/ EnsureActivation(t)
                 \/ WriteReceipt(t) \/ RecordTelemetry(t)
                 \/ CheckpointSet(t) \/ DispatchKeeps(t) \/ DispatchMoves(t)
                 \/ TurnStops(t)
          PROVE  EvidenceIInv'
      BY <1>1, <3>1, TurnKeeps, ReceiptKeeps, RecordKeeps
    <3>2. ASSUME NEW l \in Learner,
                 \/ CollectEntry(l) \/ CollectTelemetry(l)
                 \/ CheckEntry(l) \/ CheckContract(l)
                 \/ StageCandidate(l) \/ LearnerStops(l)
          PROVE  EvidenceIInv'
      BY <1>1, <3>2, CaptureKeeps
    <3> QED BY <2>1, <3>1, <3>2 DEF EvidenceNext
  <2>2. CASE UNCHANGED evidenceVars
    <3>1. /\ contractAt' = contractAt /\ stamps' = stamps /\ activation' = activation
          /\ openReceipt' = openReceipt /\ closeReceipt' = closeReceipt
          /\ telemetry' = telemetry /\ begunTurns' = begunTurns /\ turns' = turns
          /\ learners' = learners /\ candidates' = candidates
          /\ crossed' = crossed /\ torn' = torn
      BY <2>2 DEF evidenceVars, fileVarsOfTurns, learningVars, historyVars
    <3>2. EvidenceTypeOK'
      BY <1>1, <3>1 DEF EvidenceIInv, EvidenceTypeOK
    <3>3. EvidenceIsPast'
      BY <1>1, <3>1 DEF EvidenceIInv, EvidenceIsPast, Files, Named, Writing
    <3>4. TraceOK'
      BY <1>1, <3>1 DEF EvidenceIInv, TraceOK, Files, Named, Writing, Latest
    <3>5. CaptureOK'
      BY <1>1, <3>1 DEF EvidenceIInv, CaptureOK, Latest
    <3> QED BY <1>1, <3>1, <3>2, <3>3, <3>4, <3>5 DEF EvidenceIInv
  <2> QED BY <1>1, <2>1, <2>2
<1> QED BY <1>1, EvidenceInitHolds, PTL DEF EvidenceSpec

\* Contract, receipts, journal, turns and captures keep their types; the journal its limit.
THEOREM EvidenceTypeCorrect == EvidenceSpec => []EvidenceTypeOK
<1>1. EvidenceIInv => EvidenceTypeOK
  BY DEF EvidenceIInv
<1> QED BY <1>1, EvidenceInvariance, PTL

\* The latest event names a receipt in its file as long as no turn crossed another's two
\* writes or stopped between them, and a candidate cites what stood together at one moment.
THEOREM EvidenceTraceable == EvidenceSpec => []EvidenceIsTraceable
<1>1. EvidenceIInv => EvidenceIsTraceable
  BY DEF EvidenceIInv, TraceOK, Writing, Files, EvidenceIsTraceable
<1> QED BY <1>1, EvidenceInvariance, PTL

----------------------------------------------------------------------------
(* The turn: it rests on one revision.                                     *)

\* Where a call works from a view it holds; where it has none, or only a workline.
Sees(x) ==
    \/ x.pc \in {"scope", "progress", "bind", "rescope", "bound", "judge", "authorize",
                 "guard", "record", "set", "refresh", "dispatch", "resolve", "return",
                 "settle", "closeout"}
    \/ x.pc = "opened" /\ x.answer \in {"fit", "proof", "visible", "reply", "reconcile"}
SeesNone(x) == x.pc = "read" \/ (x.pc = "opened" /\ x.answer = "no_task")

\* A call that goes on from an open that found the contract fit; one that an open is
\* about to find so; one that was answered so.
Continues(x) ==
    \/ x.pc = "closeout" \/ (x.pc = "opened" /\ x.answer = "fit")
    \/ x.pc \in {"dispatch", "resolve", "return", "settle"} /\ x.bundle
    \/ x.pc \in {"bind", "rescope", "bound"} /\ x.why \in {"fast", "after"}
Judged(x) == x.pc \in {"authorize", "guard"} \/ Continues(x)
IsAnswered(x) ==
    x.pc = "done" /\ x.answer \in {"ready", "checkpointed", "closed"} /\ x.view # NoView
Holds(x) == Sees(x) \/ IsAnswered(x)

\* Progress an assistant showed, with nothing pending.
Sound(v) == v.seen = "assistant" /\ ~v.c.pending
Revision(v) == <<v.line, v.c.rev>>

\* An open that read the contract and the project, and is to read the contract again: only
\* if that is still what it was, one instant had both.
Unsure(x, cs) ==
    x.pc = "bind" /\ x.why = "open" /\ cs[x.view.line].rev # x.view.c.rev

\* What a call of an acting intent has in view was on file at some instant of the call;
\* what it saw an assistant show was proved by the files at some instant; for a plan
\* both at one; and an open found fit what the broker projects.
RestsOn(x, S, cs) ==
    /\ Sees(x) => x.view \in Views
    /\ SeesNone(x) => x.view = NoView
    /\ x.pc = "contract" => x.view \in LineViews
    /\ x.intent \in {"continuity", "plan"} =>
         /\ Holds(x) =>
              /\ x.view \in Views /\ Revision(x.view) \in S.filed
              /\ x.view.seen = "assistant" =>
                   x.view.c.shown = "assistant" /\ x.view.c.proof \in S.files
              /\ x.intent = "plan" /\ Sound(x.view) /\ ~Unsure(x, cs) =>
                   Revision(x.view) \in S.fit
         /\ Judged(x) \/ IsAnswered(x) => Sound(x.view)
         /\ Continues(x) \/ IsAnswered(x) => Revision(x.view) \in S.projected

\* A contract only moves by gaining a revision: the one in view is the one on file, or older.
Remembers(x, cs) ==
    x.view \in Views =>
      LET c == x.view.c
          d == cs[x.view.line]
      IN  c = d \/ c.rev < d.rev

LifecycleIInv ==
    /\ LifecycleTypeOK /\ StageLeftClosed
    /\ RestsOn(turn, stood, contracts) /\ Remembers(turn, contracts)

Pcs == {"idle", "lease", "read", "contract", "scope", "progress", "bind", "rescope",
        "bound", "judge", "authorize", "guard", "opened", "record", "set", "refresh",
        "dispatch", "resolve", "return", "settle", "closeout", "done"}
Purposes == {"turn", "checkpoint", "close", "closing", "reopen", "after"}
Answers == {"none", "withheld", "direct", "unsaved", "context_only", "no_task", "proof",
            "visible", "reply", "reconcile", "fit", "ready", "error", "failed",
            "checkpointed", "partial", "attested", "observe", "closed"}
Dispatches == {"none", "fast", "policy", "replay", "resumed", "failed"}
Askers == {"none", "open", "repair", "fast", "after"}
AnyView == Views \cup LineViews \cup {NoView}

\* The fields a step may replace, with their types.
Fields == {"view", "purpose", "packet", "nested", "bundle", "base", "why", "dispatch",
           "answer"}
WellTyped(f) ==
    /\ DOMAIN f \subseteq Fields
    /\ "view" \in DOMAIN f => f["view"] \in AnyView
    /\ "purpose" \in DOMAIN f => f["purpose"] \in Purposes
    /\ "packet" \in DOMAIN f => f["packet"] \in Packets \cup {NoPacket}
    /\ "nested" \in DOMAIN f => f["nested"] \in BOOLEAN
    /\ "bundle" \in DOMAIN f => f["bundle"] \in BOOLEAN
    /\ "base" \in DOMAIN f => f["base"] \in 0 .. MaxTaskRevisions
    /\ "why" \in DOMAIN f => f["why"] \in Askers
    /\ "dispatch" \in DOMAIN f => f["dispatch"] \in Dispatches
    /\ "answer" \in DOMAIN f => f["answer"] \in Answers

\* What a call is after it went on.
LEMMA GoesIs ==
  ASSUME turn \in TurnCalls, NEW pc \in Pcs, NEW f, Goes(pc, f), WellTyped(f),
         NEW y, y = turn'
  PROVE  /\ y \in TurnCalls /\ y.pc = pc /\ y.intent = turn.intent
         /\ y.view = IF "view" \in DOMAIN f THEN f["view"] ELSE turn.view
         /\ y.bundle = IF "bundle" \in DOMAIN f THEN f["bundle"] ELSE turn.bundle
         /\ y.why = IF "why" \in DOMAIN f THEN f["why"] ELSE turn.why
         /\ y.answer = IF "answer" \in DOMAIN f THEN f["answer"] ELSE turn.answer
<1>1. DOMAIN turn = {"pc", "calls", "op", "intent", "recovery", "purpose", "packet", "taken",
                     "nested", "view", "bundle", "base", "why", "dispatch", "answer"}
  BY DEF TurnCalls
<1>2. y = [k \in DOMAIN turn |-> IF k = "pc" THEN pc
                                 ELSE IF k \in DOMAIN f THEN f[k] ELSE turn[k]]
  BY DEF Goes
<1> HIDE DEF Goes
<1>3. /\ y.pc = pc /\ y.intent = turn.intent /\ y.calls = turn.calls /\ y.op = turn.op
      /\ y.recovery = turn.recovery /\ y.taken = turn.taken
  BY <1>1, <1>2 DEF WellTyped, Fields
<1>4. /\ y.view = IF "view" \in DOMAIN f THEN f["view"] ELSE turn.view
      /\ y.purpose = IF "purpose" \in DOMAIN f THEN f["purpose"] ELSE turn.purpose
      /\ y.packet = IF "packet" \in DOMAIN f THEN f["packet"] ELSE turn.packet
      /\ y.nested = IF "nested" \in DOMAIN f THEN f["nested"] ELSE turn.nested
      /\ y.bundle = IF "bundle" \in DOMAIN f THEN f["bundle"] ELSE turn.bundle
  BY <1>1, <1>2
<1>5. /\ y.base = IF "base" \in DOMAIN f THEN f["base"] ELSE turn.base
      /\ y.why = IF "why" \in DOMAIN f THEN f["why"] ELSE turn.why
      /\ y.dispatch = IF "dispatch" \in DOMAIN f THEN f["dispatch"] ELSE turn.dispatch
      /\ y.answer = IF "answer" \in DOMAIN f THEN f["answer"] ELSE turn.answer
  BY <1>1, <1>2
<1>6. /\ turn.view \in AnyView /\ turn.purpose \in Purposes
      /\ turn.packet \in Packets \cup {NoPacket} /\ turn.nested \in BOOLEAN
      /\ turn.bundle \in BOOLEAN
  BY DEF TurnCalls, Purposes, AnyView
<1>7. /\ turn.base \in 0 .. MaxTaskRevisions /\ turn.why \in Askers
      /\ turn.dispatch \in Dispatches /\ turn.answer \in Answers
  BY DEF TurnCalls, Askers, Dispatches, Answers
<1>8. /\ y.view \in AnyView /\ y.purpose \in Purposes
      /\ y.packet \in Packets \cup {NoPacket} /\ y.nested \in BOOLEAN
      /\ y.bundle \in BOOLEAN
  BY <1>4, <1>6 DEF WellTyped
<1>9. /\ y.base \in 0 .. MaxTaskRevisions /\ y.why \in Askers
      /\ y.dispatch \in Dispatches /\ y.answer \in Answers
  BY <1>5, <1>7 DEF WellTyped
<1>10. /\ turn.calls \in 0 .. MaxTurnCalls /\ turn.op \in {"open", "checkpoint", "close"}
       /\ turn.intent \in TurnIntent /\ turn.recovery \in {"none", "resume", "parent_return"}
       /\ turn.taken \in 0 .. MaxVersions
  BY DEF TurnCalls
<1>11. y = [pc |-> y.pc, calls |-> y.calls, op |-> y.op, intent |-> y.intent,
            recovery |-> y.recovery, purpose |-> y.purpose, packet |-> y.packet,
            taken |-> y.taken, nested |-> y.nested, view |-> y.view, bundle |-> y.bundle,
            base |-> y.base, why |-> y.why, dispatch |-> y.dispatch, answer |-> y.answer]
  BY <1>1, <1>2
<1>12. y \in TurnCalls
  <2> PICK z : z = y
    OBVIOUS
  <2>1. z.pc \in Pcs /\ z.calls \in 0 .. MaxTurnCalls /\ z.op \in {"open", "checkpoint", "close"}
        /\ z.intent \in TurnIntent /\ z.recovery \in {"none", "resume", "parent_return"}
        /\ z.taken \in 0 .. MaxVersions
    BY <1>3, <1>10
  <2> QED BY <1>8, <1>9, <1>11, <2>1
          DEF TurnCalls, Pcs, Purposes, AnyView, Askers, Dispatches, Answers
<1> QED BY <1>3, <1>4, <1>5, <1>12

\* The forms in which the steps go on: with a new base, a bundle, an asker, an outcome of
\* the dispatch, or nothing new.
LEMMA BasedIs ==
  ASSUME turn \in TurnCalls, NEW pc \in Pcs, NEW n \in 0 .. MaxTaskRevisions,
         Goes(pc, [base |-> n]), NEW y, y = turn'
  PROVE  /\ y \in TurnCalls /\ y.pc = pc /\ y.intent = turn.intent /\ y.view = turn.view
         /\ y.bundle = turn.bundle /\ y.why = turn.why
<1> PICK f : f = [base |-> n]
  OBVIOUS
<1>1. DOMAIN f = {"base"} /\ f["base"] = n /\ Goes(pc, f)
  OBVIOUS
<1> QED BY <1>1, GoesIs DEF WellTyped, Fields

LEMMA BundledIs ==
  ASSUME turn \in TurnCalls, NEW pc \in Pcs, NEW b \in BOOLEAN, Goes(pc, [bundle |-> b]),
         NEW y, y = turn'
  PROVE  /\ y \in TurnCalls /\ y.pc = pc /\ y.intent = turn.intent /\ y.view = turn.view
         /\ y.bundle = b /\ y.why = turn.why
<1> PICK f : f = [bundle |-> b]
  OBVIOUS
<1>1. DOMAIN f = {"bundle"} /\ f["bundle"] = b /\ Goes(pc, f)
  OBVIOUS
<1> QED BY <1>1, GoesIs DEF WellTyped, Fields

LEMMA AskedIs ==
  ASSUME turn \in TurnCalls, NEW pc \in Pcs, NEW w \in Askers, Goes(pc, [why |-> w]),
         NEW y, y = turn'
  PROVE  /\ y \in TurnCalls /\ y.pc = pc /\ y.intent = turn.intent /\ y.view = turn.view
         /\ y.bundle = turn.bundle /\ y.why = w
<1> PICK f : f = [why |-> w]
  OBVIOUS
<1>1. DOMAIN f = {"why"} /\ f["why"] = w /\ Goes(pc, f)
  OBVIOUS
<1> QED BY <1>1, GoesIs DEF WellTyped, Fields

LEMMA DispatchedIs ==
  ASSUME turn \in TurnCalls, NEW d \in Dispatches, Goes("settle", [dispatch |-> d]),
         NEW y, y = turn'
  PROVE  /\ y \in TurnCalls /\ y.pc = "settle" /\ y.intent = turn.intent
         /\ y.view = turn.view /\ y.bundle = turn.bundle
<1> PICK f : f = [dispatch |-> d]
  OBVIOUS
<1>1. DOMAIN f = {"dispatch"} /\ f["dispatch"] = d /\ Goes("settle", f)
  OBVIOUS
<1> QED BY <1>1, GoesIs DEF WellTyped, Fields, Pcs

LEMMA UnchangedIs ==
  ASSUME turn \in TurnCalls, NEW pc \in Pcs, Goes(pc, NoChange), NEW y, y = turn'
  PROVE  /\ y \in TurnCalls /\ y.pc = pc /\ y.intent = turn.intent /\ y.view = turn.view
         /\ y.bundle = turn.bundle /\ y.why = turn.why
<1>1. DOMAIN NoChange = {}
  BY DEF NoChange
<1> QED BY <1>1, GoesIs DEF WellTyped, Fields

\* An open that is told how it ended; one that reads again has seen nothing.
LEMMA OpenedIs ==
  ASSUME turn \in TurnCalls, NEW code \in Answers, Opened(code), NEW y, y = turn'
  PROVE  /\ y \in TurnCalls /\ y.pc = "opened" /\ y.answer = code
         /\ y.intent = turn.intent /\ y.view = turn.view
<1> PICK f : f = [answer |-> code]
  OBVIOUS
<1>1. DOMAIN f = {"answer"} /\ f["answer"] = code /\ Goes("opened", f)
  BY DEF Opened
<1> QED BY <1>1, GoesIs DEF WellTyped, Fields, Pcs

LEMMA ReopensIs ==
  ASSUME turn \in TurnCalls, NEW purpose \in Purposes, Reopens(purpose), NEW y, y = turn'
  PROVE  y \in TurnCalls /\ y.pc = "read" /\ y.intent = turn.intent /\ y.view = NoView
<1> PICK no \in BOOLEAN : no = FALSE
  BY Zenon
<1> PICK f : f = [purpose |-> purpose, view |-> NoView, bundle |-> no]
  OBVIOUS
<1>1. /\ DOMAIN f = {"purpose", "view", "bundle"} /\ f["purpose"] = purpose
      /\ f["view"] = NoView /\ f["bundle"] = no /\ Goes("read", f)
  BY DEF Reopens
<1>2. WellTyped(f)
  BY <1>1 DEF WellTyped, Fields, AnyView
<1> QED BY <1>1, <1>2, GoesIs DEF Pcs

\* An answered call is typed and keeps at most its view.
LEMMA AnswerIs ==
  ASSUME turn \in TurnCalls, NEW code \in Answers, Answer(code), NEW y, y = turn'
  PROVE  /\ y \in TurnCalls /\ y.pc = "done" /\ y.answer = code /\ y.intent = turn.intent
         /\ y.view = turn.view \/ y.view = NoView
<1> PICK v \in AnyView :
           v = (IF Acts THEN turn.view ELSE NoView) /\ (v = turn.view \/ v = NoView)
  <2>1. turn.view \in AnyView
    BY DEF TurnCalls, AnyView
  <2> QED BY <2>1 DEF AnyView
<1>1. y = [NoCall EXCEPT !.pc = "done", !.calls = turn.calls, !.intent = turn.intent,
                         !.answer = code, !.view = v]
  BY DEF Answer
<1>2. FALSE \in BOOLEAN
  BY Zenon
<1>3. y = [pc |-> "done", calls |-> turn.calls, op |-> "open", intent |-> turn.intent,
           recovery |-> "none", purpose |-> "turn", packet |-> NoPacket,
           taken |-> 0, nested |-> FALSE, view |-> v, bundle |-> FALSE,
           base |-> 0, why |-> "none", dispatch |-> "none", answer |-> code]
  BY <1>1 DEF NoCall
<1>4. turn.calls \in 0 .. MaxTurnCalls /\ turn.intent \in TurnIntent
  BY DEF TurnCalls
<1> QED BY <1>2, <1>3, <1>4, LifecycleAssumption DEF TurnCalls, Answers, AnyView

----------------------------------------------------------------------------

\* What is noted of one instant, and that nothing noted is forgotten.
Noted(S, cs, p, l) ==
    /\ \A m \in TaskLine : <<m, cs[m].rev>> \in S.filed
    /\ <<l.line, l.rev>> \in S.projected /\ p \in S.files
    /\ \A m \in TaskLine : ~cs[m].pending /\ cs[m].shown = "assistant" /\ cs[m].proof = p
                             => <<m, cs[m].rev>> \in S.fit
Grows(S, T) ==
    /\ S.filed \subseteq T.filed /\ S.projected \subseteq T.projected
    /\ S.files \subseteq T.files /\ S.fit \subseteq T.fit
Instants == [filed: SUBSET LineRevisions, projected: SUBSET LineRevisions,
             files: SUBSET (1 .. MaxVersions), fit: SUBSET LineRevisions]

\* What an instant is noted as.
LEMMA StandsIs ==
  ASSUME contracts' \in [TaskLine -> TaskContracts], project' \in 1 .. MaxVersions,
         paired' \in [line: TaskLine \cup {NoLine}, rev: 0 .. MaxTaskRevisions]
  PROVE  StandsNow' \in Instants /\ Noted(StandsNow', contracts', project', paired')
<1> DEFINE filed == {<<l, contracts'[l].rev>> : l \in TaskLine}
           fit == {<<l, contracts'[l].rev>> : l \in {m \in TaskLine : Fit(m)'}}
           at == {<<paired'.line, paired'.rev>>}
           files == {project'}
<1>1. StandsNow' = [filed |-> filed, projected |-> at, files |-> files, fit |-> fit]
  BY DEF StandsNow, RevisionsOf
<1>2. \A l \in TaskLine : contracts'[l].rev \in 0 .. MaxTaskRevisions
  BY LifecycleAssumption DEF TaskContracts
<1>3. filed \in SUBSET LineRevisions /\ fit \in SUBSET LineRevisions
  BY <1>2 DEF LineRevisions
<1>4. at \in SUBSET LineRevisions /\ files \in SUBSET (1 .. MaxVersions)
  BY DEF LineRevisions
<1>5. \A l \in TaskLine : <<l, contracts'[l].rev>> \in filed
  OBVIOUS
<1>6. <<paired'.line, paired'.rev>> \in at /\ project' \in files
  OBVIOUS
<1>7. ASSUME NEW l \in TaskLine, ~contracts'[l].pending, contracts'[l].shown = "assistant",
             contracts'[l].proof = project'
      PROVE  <<l, contracts'[l].rev>> \in fit
  BY <1>7 DEF Fit, Eligible, Visible, ProofCurrent
<1> HIDE DEF filed, fit, at, files
<1> PICK S : S = StandsNow'
  OBVIOUS
<1>8. S.filed = filed /\ S.projected = at /\ S.files = files /\ S.fit = fit
  BY <1>1
<1>9. S \in Instants
  BY <1>1, <1>3, <1>4 DEF Instants
<1> QED BY <1>5, <1>6, <1>7, <1>8, <1>9 DEF Noted

\* What stands is noted, and nothing noted is forgotten, while a call runs that means to act.
LEMMA NotesIs ==
  ASSUME LifecycleTypeOK, Notes(FALSE), contracts' \in [TaskLine -> TaskContracts],
         project' \in 1 .. MaxVersions,
         paired' \in [line: TaskLine \cup {NoLine}, rev: 0 .. MaxTaskRevisions],
         turn'.intent = turn.intent
  PROVE  /\ stood' \in Instants
         /\ Acts => Grows(stood, stood') /\ Noted(stood', contracts', project', paired')
<1> PICK N \in Instants : N = StandsNow' /\ Noted(N, contracts', project', paired')
  BY StandsIs
<1> PICK S \in Instants : S = stood
  BY DEF LifecycleTypeOK, Instants
<1> PICK T : T = stood'
  OBVIOUS
<1>1. T = IF Acts' THEN [f \in DOMAIN S |-> S[f] \cup N[f]] ELSE NothingStood
  BY DEF Notes
<1>2. Acts' = Acts
  BY DEF Acts
<1>3. NothingStood \in Instants
  BY DEF NothingStood, Instants
<1>4. DOMAIN S = {"filed", "projected", "files", "fit"}
  BY DEF Instants
<1>5. ASSUME Acts
      PROVE  /\ T.filed = S.filed \cup N.filed /\ T.projected = S.projected \cup N.projected
             /\ T.files = S.files \cup N.files /\ T.fit = S.fit \cup N.fit
             /\ T = [filed |-> T.filed, projected |-> T.projected, files |-> T.files,
                     fit |-> T.fit]
  BY <1>1, <1>2, <1>4, <1>5
<1>6. ASSUME Acts PROVE T \in Instants
  BY <1>5, <1>6 DEF Instants
<1>7. ASSUME Acts PROVE Grows(S, T) /\ Noted(T, contracts', project', paired')
  BY <1>5, <1>7 DEF Grows, Noted
<1> QED BY <1>1, <1>2, <1>3, <1>6, <1>7


----------------------------------------------------------------------------

\* A step that takes along what the call has in view, or drops it: it goes on from a view
\* only where the call had one, and judges nothing anew.
Carries(x) ==
    /\ x.view = turn.view \/ x.view = NoView
    /\ Sees(x) => Sees(turn) /\ x.view = turn.view /\ ~Unsure(turn, contracts)
    /\ SeesNone(x) => x.view = NoView
    /\ x.pc # "contract"
    /\ Acts /\ IsAnswered(x) => Continues(turn)
    /\ Acts /\ Judged(x) => Judged(turn)
    /\ Acts /\ Continues(x) => Continues(turn)

\* What is carried along still rests on what it rested on.
LEMMA Carried ==
  ASSUME RestsOn(turn, stood, contracts), NEW x, x.intent = turn.intent, Carries(x),
         NEW S, Acts => Grows(stood, S), NEW cs
  PROVE  RestsOn(x, S, cs)
<1>1. Continues(turn) => Sees(turn) /\ ~Unsure(turn, contracts)
  BY DEF Continues, Sees, Unsure
<1>2. Acts /\ Holds(x) => Sees(turn) /\ x.view = turn.view /\ ~Unsure(turn, contracts)
  BY <1>1 DEF Carries, Holds, IsAnswered
<1>3. Acts /\ (Judged(x) \/ IsAnswered(x)) => (Judged(turn) \/ IsAnswered(turn))
  BY DEF Carries, Judged
<1>4. Judged(x) => Holds(x)
  BY DEF Judged, Continues, Holds, Sees
<1>5. ASSUME Acts
      PROVE  /\ Holds(x) =>
                  /\ x.view \in Views /\ Revision(x.view) \in S.filed
                  /\ x.view.seen = "assistant" =>
                       x.view.c.shown = "assistant" /\ x.view.c.proof \in S.files
                  /\ x.intent = "plan" /\ Sound(x.view) => Revision(x.view) \in S.fit
             /\ Judged(x) \/ IsAnswered(x) => Sound(x.view)
             /\ Continues(x) \/ IsAnswered(x) => Revision(x.view) \in S.projected
  <2>1. CASE Holds(x)
    <3>1. /\ x.view = turn.view /\ turn.view \in Views /\ Revision(turn.view) \in stood.filed
          /\ turn.view.seen = "assistant" =>
               turn.view.c.shown = "assistant" /\ turn.view.c.proof \in stood.files
          /\ turn.intent = "plan" /\ Sound(turn.view) => Revision(turn.view) \in stood.fit
      BY <1>2, <1>5, <2>1 DEF RestsOn, Holds, Acts
    <3>2. Judged(x) \/ IsAnswered(x) => Sound(turn.view)
      BY <1>3, <1>5 DEF RestsOn, Acts
    <3>3. Continues(x) \/ IsAnswered(x) => Revision(turn.view) \in stood.projected
      BY <1>5 DEF RestsOn, Acts, Carries
    <3> QED BY <1>5, <3>1, <3>2, <3>3 DEF Grows
  <2>2. CASE ~Holds(x)
    BY <1>4, <2>2 DEF Holds, Judged
  <2> QED BY <2>1, <2>2
<1>6. Sees(x) => x.view \in Views
  BY DEF Carries, RestsOn
<1> QED BY <1>5, <1>6 DEF RestsOn, Carries, Acts

\* What the invariant says of everything but the call.
LEMMA Rest ==
  ASSUME LifecycleIInv
  PROVE  /\ contracts \in [TaskLine -> TaskContracts] /\ project \in 1 .. MaxVersions
         /\ paired \in [line: TaskLine \cup {NoLine}, rev: 0 .. MaxTaskRevisions]
         /\ closeouts \subseteq TaskLine \X Formal \X (1 .. MaxTaskRevisions)
         /\ stages \subseteq closeouts /\ turn \in TurnCalls /\ outside \in 0 .. MaxOutside
BY DEF LifecycleIInv, LifecycleTypeOK, StageLeftClosed

\* A call that works from a view has one, of a workline, and what it read there.
LEMMA Viewed ==
  ASSUME LifecycleIInv, Sees(turn)
  PROVE  /\ turn.view \in Views /\ turn.view # NoView
         /\ turn.view.line \in TaskLine /\ turn.view.c \in TaskContracts
<1>1. turn.view \in Views
  BY DEF LifecycleIInv, RestsOn
<1> QED BY <1>1, LifecycleAssumption DEF Views, NoView

\* What a write makes of a contract.
Later(c, d) == c = d \/ c.rev < d.rev

\* A contract in view stays the one on file, or an older one.
LEMMA StillRemembers ==
  ASSUME LifecycleTypeOK, Remembers(turn, contracts), contracts' \in [TaskLine -> TaskContracts],
         \A l \in TaskLine : Later(contracts[l], contracts'[l]),
         NEW x, x.view = turn.view \/ x.view = NoView
  PROVE  Remembers(x, contracts')
<1> SUFFICES ASSUME x.view \in Views PROVE Remembers(x, contracts')
  BY DEF Remembers
<1>1. x.view = turn.view
  BY LifecycleAssumption DEF Views, NoView
<1> PICK v \in Views : v = x.view /\ v = turn.view
  BY <1>1
<1> PICK c \in TaskContracts, d \in TaskContracts :
       c = contracts[v.line] /\ d = contracts'[v.line]
  BY DEF LifecycleTypeOK, Views
<1>2. v.line \in TaskLine /\ v.c \in TaskContracts
  BY DEF Views
<1>3. v.c = c \/ v.c.rev < c.rev
  BY DEF Remembers
<1>4. c = d \/ c.rev < d.rev
  BY <1>2 DEF Later
<1>5. v.c = d \/ v.c.rev < d.rev
  BY <1>2, <1>3, <1>4 DEF TaskContracts
<1> QED BY <1>5 DEF Remembers

\* The rest of the invariant, for any step of a call.
LEMMA CallMoves ==
  ASSUME LifecycleIInv, Notes(FALSE), NEW x \in TurnCalls, turn' = x, x.intent = turn.intent,
         contracts' \in [TaskLine -> TaskContracts], project' \in 1 .. MaxVersions,
         paired' \in [line: TaskLine \cup {NoLine}, rev: 0 .. MaxTaskRevisions],
         closeouts' \subseteq TaskLine \X Formal \X (1 .. MaxTaskRevisions),
         closeouts \subseteq closeouts', stages' \subseteq closeouts',
         outside' \in 0 .. MaxOutside, RestsOn(x, stood', contracts'),
         Remembers(x, contracts')
  PROVE  LifecycleIInv'
<1>1. stood' \in Instants
  BY NotesIs DEF LifecycleIInv
<1>2. LifecycleTypeOK'
  BY <1>1 DEF LifecycleTypeOK, Instants
<1>3. RestsOn(turn, stood, contracts)'
  BY DEF RestsOn, Sees, SeesNone, Holds, Judged, Continues, IsAnswered, Unsure, Revision, Sound
<1>4. Remembers(turn, contracts)'
  BY DEF Remembers
<1> QED BY <1>2, <1>3, <1>4 DEF LifecycleIInv, StageLeftClosed

\* A step that only reads.
LEMMA CallReads ==
  ASSUME LifecycleIInv, Notes(FALSE), Reads, outside' = outside,
         NEW x \in TurnCalls, turn' = x, x.intent = turn.intent,
         RestsOn(x, stood', contracts), Remembers(x, contracts)
  PROVE  LifecycleIInv'
<1>1. /\ contracts' = contracts /\ project' = project /\ paired' = paired
      /\ closeouts' = closeouts /\ stages' = stages
  BY DEF Reads
<1>2. RestsOn(x, stood', contracts') /\ Remembers(x, contracts')
  BY <1>1
<1> QED BY <1>1, <1>2, CallMoves, Rest

\* What a step that only reads notes.
LEMMA ReadsNote ==
  ASSUME LifecycleIInv, Notes(FALSE), Reads, turn'.intent = turn.intent, Acts
  PROVE  Grows(stood, stood') /\ Noted(stood', contracts, project, paired)
<1>1. contracts' = contracts /\ project' = project /\ paired' = paired
  BY DEF Reads
<1>2. Noted(stood', contracts', project', paired') => Noted(stood', contracts, project, paired)
  BY <1>1
<1> QED BY <1>1, <1>2, NotesIs, Rest DEF LifecycleIInv

\* A step that writes, and carries along what the call has in view.
LEMMA CallWrites ==
  ASSUME LifecycleIInv, Notes(FALSE), outside' = outside, project' = project,
         NEW x \in TurnCalls, turn' = x, x.intent = turn.intent, Carries(x),
         contracts' \in [TaskLine -> TaskContracts],
         \A l \in TaskLine : Later(contracts[l], contracts'[l]),
         paired' \in [line: TaskLine \cup {NoLine}, rev: 0 .. MaxTaskRevisions],
         closeouts' \subseteq TaskLine \X Formal \X (1 .. MaxTaskRevisions),
         closeouts \subseteq closeouts', stages' \subseteq closeouts'
  PROVE  LifecycleIInv'
<1>1. project' \in 1 .. MaxVersions /\ outside' \in 0 .. MaxOutside
  BY Rest
<1>2. Acts => Grows(stood, stood')
  BY <1>1, NotesIs DEF LifecycleIInv
<1>3. RestsOn(x, stood', contracts')
  BY <1>2, Carried DEF LifecycleIInv
<1>4. Remembers(x, contracts')
  BY StillRemembers DEF LifecycleIInv, Carries
<1> QED BY <1>1, <1>3, <1>4, CallMoves

\* A step that only reads, and carries along what the call has in view.
LEMMA CallKeepsView ==
  ASSUME LifecycleIInv, Notes(FALSE), Reads, outside' = outside,
         NEW x \in TurnCalls, turn' = x, x.intent = turn.intent, Carries(x)
  PROVE  LifecycleIInv'
BY CallWrites, Rest DEF Reads, Later

\* A call is answered: as a turn to act on only where it could go on to act.
LEMMA Ended ==
  ASSUME turn \in TurnCalls, NEW code \in Answers, Answer(code), NEW x, x = turn',
         Acts /\ code \in {"ready", "checkpointed", "closed"} =>
           Continues(turn) \/ turn.view = NoView
  PROVE  x \in TurnCalls /\ x.intent = turn.intent /\ Carries(x)
<1>1. /\ x \in TurnCalls /\ x.pc = "done" /\ x.answer = code /\ x.intent = turn.intent
      /\ x.view = turn.view \/ x.view = NoView
  BY AnswerIs
<1>2. ~Sees(x) /\ ~SeesNone(x) /\ ~Judged(x) /\ ~Continues(x)
  BY <1>1 DEF Sees, SeesNone, Judged, Continues
<1>3. Acts /\ IsAnswered(x) => Continues(turn)
  BY <1>1 DEF IsAnswered
<1> QED BY <1>1, <1>2, <1>3 DEF Carries

LEMMA Ends ==
  ASSUME LifecycleIInv, Notes(FALSE), Reads, outside' = outside,
         NEW code \in Answers, Answer(code),
         Acts /\ code \in {"ready", "checkpointed", "closed"} =>
           Continues(turn) \/ turn.view = NoView
  PROVE  LifecycleIInv'
<1> PICK x : x = turn'
  OBVIOUS
<1>1. x \in TurnCalls /\ x.intent = turn.intent /\ Carries(x)
  BY Ended, Rest
<1> QED BY <1>1, CallKeepsView

\* An open is told how it ended.
LEMMA Opens ==
  ASSUME LifecycleIInv, Notes(FALSE), Reads, outside' = outside,
         NEW code \in Answers \ {"fit", "no_task"}, Opened(code),
         code \in {"proof", "visible", "reply", "reconcile"} =>
           Sees(turn) /\ turn.pc # "bind"
  PROVE  LifecycleIInv'
<1> PICK x : x = turn'
  OBVIOUS
<1>1. /\ x \in TurnCalls /\ x.pc = "opened" /\ x.answer = code /\ x.intent = turn.intent
      /\ x.view = turn.view
  BY OpenedIs, Rest
<1>2. Carries(x)
  BY <1>1 DEF Carries, Sees, SeesNone, IsAnswered, Judged, Continues, Unsure
<1> QED BY <1>1, <1>2, CallKeepsView

\* A call goes on with the view it has.
LEMMA GoneOn ==
  ASSUME Sees(turn), ~Unsure(turn, contracts), NEW x, x.view = turn.view,
         x.pc \in {"progress", "bind", "rescope", "bound", "authorize", "guard", "record",
                   "set", "refresh", "dispatch", "resolve", "return", "settle", "closeout"},
         Acts /\ Judged(x) => Judged(turn), Acts /\ Continues(x) => Continues(turn)
  PROVE  Carries(x)
BY DEF Carries, SeesNone, IsAnswered

LEMMA CallGoesOn ==
  ASSUME LifecycleIInv, Notes(FALSE), Reads, outside' = outside,
         Sees(turn), ~Unsure(turn, contracts),
         NEW x \in TurnCalls, turn' = x, x.intent = turn.intent, x.view = turn.view,
         x.pc \in {"progress", "bind", "rescope", "bound", "authorize", "guard", "record",
                   "set", "refresh", "dispatch", "resolve", "return", "settle", "closeout"},
         Acts /\ Judged(x) => Judged(turn), Acts /\ Continues(x) => Continues(turn)
  PROVE  LifecycleIInv'
BY GoneOn, CallKeepsView

----------------------------------------------------------------------------
(* Its steps, one by one: what an open reads.                              *)

\* A call that takes a view keeps all else; with or without a new asker.
LEMMA ViewedIs ==
  ASSUME turn \in TurnCalls, NEW pc \in Pcs, NEW v \in AnyView, Goes(pc, [view |-> v]),
         NEW y, y = turn'
  PROVE  y \in TurnCalls /\ y.pc = pc /\ y.intent = turn.intent /\ y.view = v
<1> PICK f : f = [view |-> v]
  OBVIOUS
<1>1. DOMAIN f = {"view"} /\ f["view"] = v /\ Goes(pc, f)
  OBVIOUS
<1> QED BY <1>1, GoesIs DEF WellTyped, Fields

LEMMA ViewedForIs ==
  ASSUME turn \in TurnCalls, NEW pc \in Pcs, NEW v \in AnyView, NEW w \in Askers,
         Goes(pc, [view |-> v, why |-> w]), NEW y, y = turn'
  PROVE  /\ y \in TurnCalls /\ y.pc = pc /\ y.intent = turn.intent /\ y.view = v
         /\ y.why = w
<1> PICK f : f = [view |-> v, why |-> w]
  OBVIOUS
<1>1. DOMAIN f = {"view", "why"} /\ f["view"] = v /\ f["why"] = w /\ Goes(pc, f)
  OBVIOUS
<1> QED BY <1>1, GoesIs DEF WellTyped, Fields

\* TakeLease keeps the invariant: what was read before the lease is dropped.
LEMMA LeaseKeeps ==
  ASSUME LifecycleIInv, TakeLease, Notes(FALSE)
  PROVE  LifecycleIInv'
<1>1. Reads /\ outside' = outside
  BY DEF TakeLease, TurnAt
<1>2. CASE Goes("read", [view |-> NoView])
  <2> PICK x : x = turn'
    OBVIOUS
  <2>1. x \in TurnCalls /\ x.pc = "read" /\ x.intent = turn.intent /\ x.view = NoView
    BY <1>2, ViewedIs, Rest DEF Pcs, AnyView
  <2>2. Carries(x)
    BY <2>1 DEF Carries, Sees, IsAnswered, Judged, Continues
  <2> QED BY <1>1, <2>1, <2>2, CallKeepsView
<1>3. CASE Answer("withheld")
  BY <1>1, <1>3, Ends DEF Answers
<1> QED BY <1>2, <1>3 DEF TakeLease

\* ReadTurnContext keeps the invariant: it takes the workline of the channel.
LEMMA ContextKeeps ==
  ASSUME LifecycleIInv, ReadTurnContext, Notes(FALSE)
  PROVE  LifecycleIInv'
<1>1. Reads /\ outside' = outside /\ turn.pc = "read"
  BY DEF ReadTurnContext, TurnAt
<1>2. ASSUME NEW code \in {"direct", "unsaved", "context_only"}, Opened(code)
      PROVE  LifecycleIInv'
  BY <1>1, <1>2, Opens DEF Answers
<1>3. CASE paired.line # NoLine /\ Goes("contract", [view |-> [line |-> paired.line]])
  <2> PICK v : v = [line |-> paired.line]
    OBVIOUS
  <2>1. v \in LineViews /\ v \in AnyView
    BY <1>3, Rest DEF LineViews, AnyView
  <2> PICK x : x = turn'
    OBVIOUS
  <2>2. x \in TurnCalls /\ x.pc = "contract" /\ x.intent = turn.intent /\ x.view = v
    BY <1>3, <2>1, ViewedIs, Rest DEF Pcs
  <2>3. RestsOn(x, stood', contracts)
    BY <2>1, <2>2 DEF RestsOn, Sees, SeesNone, Holds, Judged, Continues, IsAnswered
  <2>4. x.view \notin Views
    BY <2>1, <2>2 DEF LineViews, Views
  <2>5. Remembers(x, contracts)
    BY <2>4 DEF Remembers
  <2> QED BY <1>1, <2>2, <2>3, <2>5, CallReads
<1> QED BY <1>2, <1>3 DEF ReadTurnContext, ContextOnly

\* ReadTurnContract keeps the invariant: what it reads is on file at that instant.
LEMMA ContractKeeps ==
  ASSUME LifecycleIInv, ReadTurnContract, Notes(FALSE)
  PROVE  LifecycleIInv'
<1>1. Reads /\ outside' = outside /\ turn.pc = "contract"
  BY DEF ReadTurnContract, TurnAt
<1>2. turn.view \in LineViews
  BY <1>1 DEF LifecycleIInv, RestsOn
<1> PICK l \in TaskLine : l = turn.view.line
  BY <1>2 DEF LineViews
<1> PICK c \in TaskContracts : c = contracts[l]
  BY Rest
<1> PICK no \in BOOLEAN : no = FALSE
  BY Zenon
<1> PICK v : v = [line |-> l, c |-> c, seen |-> "none", fresh |-> no]
  OBVIOUS
<1>3. v \in Views /\ v.line = l /\ v.c = c /\ v.seen = "none"
  BY DEF Views, ShownBy
<1> PICK x : x = turn'
  OBVIOUS
<1>4. CASE Goes("scope", [view |-> v])
  <2>1. x \in TurnCalls /\ x.pc = "scope" /\ x.intent = turn.intent /\ x.view = v
    BY <1>3, <1>4, ViewedIs, Rest DEF Pcs, AnyView
  <2>2. Acts => Revision(v) \in stood'.filed
    BY <1>1, <1>3, <2>1, ReadsNote DEF Noted, Revision
  <2>3. ~SeesNone(x) /\ ~Judged(x) /\ ~Continues(x) /\ ~IsAnswered(x) /\ ~Sound(v)
    BY <1>3, <2>1 DEF SeesNone, Judged, Continues, IsAnswered, Sound
  <2>4. RestsOn(x, stood', contracts)
    BY <1>3, <2>1, <2>2, <2>3 DEF RestsOn, Acts
  <2>5. Remembers(x, contracts)
    BY <1>3, <2>1 DEF Remembers
  <2> QED BY <1>1, <2>1, <2>4, <2>5, CallReads
<1>5. CASE NothingToResume
  <2> PICK code \in {"no_task", "withheld"} :
             Goes("opened", [view |-> NoView, answer |-> code])
    BY <1>5 DEF NothingToResume
  <2> PICK f : f = [view |-> NoView, answer |-> code]
    OBVIOUS
  <2>1. /\ DOMAIN f = {"view", "answer"} /\ f["view"] = NoView /\ f["answer"] = code
        /\ Goes("opened", f)
    OBVIOUS
  <2>2. /\ x \in TurnCalls /\ x.pc = "opened" /\ x.intent = turn.intent /\ x.view = NoView
        /\ x.answer = code
    BY <2>1, GoesIs, Rest DEF WellTyped, Fields, Pcs, AnyView, Answers
  <2>3. Carries(x)
    BY <2>2 DEF Carries, Sees, IsAnswered, Judged, Continues
  <2> QED BY <1>1, <2>2, <2>3, CallKeepsView
<1>6. Goes("scope", [view |-> v]) \/ NothingToResume
  BY DEF ReadTurnContract
<1> QED BY <1>4, <1>5, <1>6

\* CompareScope keeps the invariant: it looks at the broker and takes nothing along.
LEMMA CompareKeeps ==
  ASSUME LifecycleIInv, CompareScope, Notes(FALSE)
  PROVE  LifecycleIInv'
<1>1. /\ Reads /\ outside' = outside /\ turn.pc = "scope" /\ Sees(turn)
      /\ ~Unsure(turn, contracts)
  BY DEF CompareScope, TurnAt, Sees, Unsure
<1>2. CASE Goes("progress", NoChange)
  <2> PICK x : x = turn'
    OBVIOUS
  <2>1. x \in TurnCalls /\ x.pc = "progress" /\ x.intent = turn.intent /\ x.view = turn.view
    BY <1>2, UnchangedIs, Rest DEF Pcs
  <2>2. ~Judged(x) /\ ~Continues(x)
    BY <2>1 DEF Judged, Continues
  <2> QED BY <1>1, <2>1, <2>2, CallGoesOn
<1>3. CASE Opened("withheld")
  BY <1>1, <1>3, Opens DEF Answers
<1> QED BY <1>2, <1>3 DEF CompareScope

\* ReadProgress keeps the invariant: progress it takes for proved is proved by the files at
\* that instant, and if the contract still is what was read it is fit.
LEMMA ProgressKeeps ==
  ASSUME LifecycleIInv, ReadProgress, Notes(FALSE)
  PROVE  LifecycleIInv'
<1>1. /\ Reads /\ outside' = outside /\ turn.pc = "progress" /\ Sees(turn)
  BY DEF ReadProgress, TurnAt, Sees
<1> PICK b \in Views : b = turn.view
  BY <1>1, Viewed
<1>2. b.c \in TaskContracts /\ b.line \in TaskLine
  BY DEF Views
<1> PICK seen \in ShownBy : seen = IF Proved(b.c) THEN b.c.shown ELSE "none"
  BY <1>2 DEF TaskContracts, ShownBy
<1>3. Proved(b.c) \in BOOLEAN
  BY Zenon DEF Proved
<1> PICK fresh \in BOOLEAN : fresh = Proved(b.c)
  BY <1>3
<1> PICK v : v = [b EXCEPT !.seen = seen, !.fresh = fresh]
  OBVIOUS
<1>4. v \in Views /\ v.line = b.line /\ v.c = b.c /\ v.seen = seen
  BY DEF Views
<1> PICK pc \in {"judge", "bind"}, why \in {"none", "open"} :
          /\ Goes(pc, [view |-> v, why |-> why])
          /\ Snapshot \/ (pc = "bind" /\ why = "open")
          /\ pc = "bind" => why = "open"
  <2>1. CASE Snapshot
    BY <2>1 DEF ReadProgress
  <2>2. CASE ~Snapshot
    BY <2>2 DEF ReadProgress
  <2> QED BY <2>1, <2>2
<1> PICK x : x = turn'
  OBVIOUS
<1>5. /\ x \in TurnCalls /\ x.pc = pc /\ x.intent = turn.intent /\ x.view = v
      /\ x.why = why
  <2>1. v \in AnyView /\ pc \in Pcs /\ why \in Askers /\ turn \in TurnCalls
    BY <1>4, Rest DEF Pcs, AnyView, Askers
  <2>2. Goes(pc, [view |-> v, why |-> why])
    OBVIOUS
  <2> QED BY <2>1, <2>2, ViewedForIs
<1>6. Remembers(x, contracts)
  BY <1>4, <1>5 DEF Remembers, LifecycleIInv
<1>7. ~SeesNone(x) /\ ~Judged(x) /\ ~Continues(x) /\ ~IsAnswered(x)
  BY <1>5 DEF SeesNone, Judged, Continues, IsAnswered
<1>8. ASSUME Acts
      PROVE  /\ Revision(v) \in stood'.filed
             /\ v.seen = "assistant" => v.c.shown = "assistant" /\ v.c.proof \in stood'.files
             /\ x.intent = "plan" /\ Sound(v) /\ ~Unsure(x, contracts) =>
                  Revision(v) \in stood'.fit
  <2>1. Grows(stood, stood') /\ Noted(stood', contracts, project, paired)
    BY <1>1, <1>5, <1>8, ReadsNote
  <2>2. Revision(v) \in stood'.filed
    BY <1>1, <1>4, <1>8, <2>1 DEF LifecycleIInv, RestsOn, Holds, Acts, Grows, Revision
  <2>3. v.seen = "assistant" => v.c.shown = "assistant" /\ v.c.proof = project
    BY <1>4 DEF Proved, ProofCurrent
  <2>4. ASSUME x.intent = "plan", Sound(v), ~Unsure(x, contracts)
        PROVE  Revision(v) \in stood'.fit
    <3>1. x.pc = "bind" /\ x.why = "open"
      BY <1>5, <2>4 DEF Snapshot
    <3>2. contracts[v.line].rev = v.c.rev
      BY <1>5, <2>4, <3>1 DEF Unsure
    <3>3. contracts[v.line] = v.c
      <4>1. v.c = contracts[v.line] \/ v.c.rev < contracts[v.line].rev
        BY <1>4, <1>5, <1>6 DEF Remembers
      <4> QED BY <1>2, <1>4, <3>2, <4>1 DEF TaskContracts
    <3> QED BY <1>2, <1>4, <2>1, <2>3, <2>4, <3>3 DEF Noted, Sound, Revision
  <2> QED BY <2>1, <2>2, <2>3, <2>4 DEF Noted
<1>9. RestsOn(x, stood', contracts)
  BY <1>4, <1>5, <1>7, <1>8 DEF RestsOn, Acts
<1> QED BY <1>1, <1>5, <1>6, <1>9, CallReads

----------------------------------------------------------------------------
(* What binds the contract again.                                          *)

\* Where the binding fails, the open is withheld, the close leaves the fast way, or the
\* call is.
LEMMA UnboundKeeps ==
  ASSUME LifecycleIInv, Unbound, Notes(FALSE), Reads, outside' = outside,
         turn.pc \in {"bind", "rescope"}
  PROVE  LifecycleIInv'
<1> PICK x : x = turn'
  OBVIOUS
<1>1. CASE Goes("opened", [answer |-> "withheld", why |-> "none"])
  <2> PICK f : f = [answer |-> "withheld", why |-> "none"]
    OBVIOUS
  <2>1. /\ DOMAIN f = {"answer", "why"} /\ f["answer"] = "withheld" /\ f["why"] = "none"
        /\ Goes("opened", f)
    BY <1>1
  <2>2. /\ x \in TurnCalls /\ x.pc = "opened" /\ x.intent = turn.intent
        /\ x.view = turn.view /\ x.answer = "withheld"
    BY <2>1, GoesIs, Rest DEF WellTyped, Fields, Pcs, Answers, Askers
  <2>3. Carries(x)
    BY <2>2 DEF Carries, Sees, SeesNone, IsAnswered, Judged, Continues
  <2> QED BY <2>2, <2>3, CallKeepsView
<1>2. CASE turn.why = "fast" /\ Goes("resolve", [why |-> "none"])
  <2>1. x \in TurnCalls /\ x.pc = "resolve" /\ x.intent = turn.intent /\ x.view = turn.view
    BY <1>2, AskedIs, Rest DEF Pcs, Askers
  <2>2. Sees(turn) /\ Continues(turn) /\ Judged(turn) /\ ~Unsure(turn, contracts)
    BY <1>2 DEF Sees, Judged, Continues, Unsure
  <2> QED BY <2>1, <2>2, CallGoesOn
<1>3. CASE Answer("withheld")
  BY <1>3, Ends DEF Answers
<1> QED BY <1>1, <1>2, <1>3 DEF Unbound

\* Bind keeps the invariant: an open goes on only from a contract that is still on file.
LEMMA BindKeeps ==
  ASSUME LifecycleIInv, Bind, Notes(FALSE)
  PROVE  LifecycleIInv'
<1>1. Reads /\ outside' = outside /\ turn.pc = "bind" /\ Sees(turn)
  BY DEF Bind, TurnAt, Sees
<1>2. CASE contracts[turn.view.line].rev = turn.view.c.rev /\ Goes("rescope", NoChange)
  <2> PICK x : x = turn'
    OBVIOUS
  <2>1. /\ x \in TurnCalls /\ x.pc = "rescope" /\ x.intent = turn.intent
        /\ x.view = turn.view /\ x.why = turn.why
    BY <1>2, UnchangedIs, Rest DEF Pcs
  <2>2. ~Unsure(turn, contracts)
    BY <1>2 DEF Unsure
  <2>3. (Judged(x) => Judged(turn)) /\ (Continues(x) => Continues(turn))
    BY <1>1, <2>1 DEF Judged, Continues
  <2> QED BY <1>1, <2>1, <2>2, <2>3, CallGoesOn
<1>3. CASE Unbound
  BY <1>1, <1>3, UnboundKeeps
<1> QED BY <1>2, <1>3 DEF Bind

\* Rescope keeps the invariant: it looks at the broker and takes nothing along.
LEMMA RescopeKeeps ==
  ASSUME LifecycleIInv, Rescope, Notes(FALSE)
  PROVE  LifecycleIInv'
<1>1. /\ Reads /\ outside' = outside /\ turn.pc = "rescope" /\ Sees(turn)
      /\ ~Unsure(turn, contracts)
  BY DEF Rescope, TurnAt, Sees, Unsure
<1>2. CASE Goes("bound", NoChange)
  <2> PICK x : x = turn'
    OBVIOUS
  <2>1. /\ x \in TurnCalls /\ x.pc = "bound" /\ x.intent = turn.intent
        /\ x.view = turn.view /\ x.why = turn.why
    BY <1>2, UnchangedIs, Rest DEF Pcs
  <2>2. (Judged(x) => Judged(turn)) /\ (Continues(x) => Continues(turn))
    BY <1>1, <2>1 DEF Judged, Continues
  <2> QED BY <1>1, <2>1, <2>2, CallGoesOn
<1>3. CASE Unbound
  BY <1>1, <1>3, UnboundKeeps
<1> QED BY <1>2, <1>3 DEF Rescope

\* BoundOpen keeps the invariant: it looks at the proof again, and at nothing else.
LEMMA BoundOpenKeeps ==
  ASSUME LifecycleIInv, BoundOpen, Notes(FALSE)
  PROVE  LifecycleIInv'
<1>1. /\ Reads /\ outside' = outside /\ turn.pc = "bound" /\ Sees(turn)
      /\ ~Unsure(turn, contracts)
  BY DEF BoundOpen, TurnAt, Sees, Unsure
<1> PICK b \in Views : b = turn.view
  BY <1>1, Viewed
<1>2. Proved(b.c) \in BOOLEAN
  BY Zenon DEF Proved
<1> PICK p \in BOOLEAN : p = Proved(b.c)
  BY <1>2
<1> PICK v : v = [b EXCEPT !.fresh = p]
  OBVIOUS
<1>3. v \in Views /\ v.line = b.line /\ v.c = b.c /\ v.seen = b.seen
  BY DEF Views
<1> PICK x : x = turn'
  OBVIOUS
<1>4. Goes("judge", [view |-> v, why |-> "none"])
  BY DEF BoundOpen
<1>5. x \in TurnCalls /\ x.pc = "judge" /\ x.intent = turn.intent /\ x.view = v
  <2>1. v \in AnyView /\ "judge" \in Pcs /\ "none" \in Askers /\ turn \in TurnCalls
    BY <1>3, Rest DEF Pcs, AnyView, Askers
  <2> QED BY <1>4, <2>1, ViewedForIs
<1>6. ~SeesNone(x) /\ ~Judged(x) /\ ~Continues(x) /\ ~IsAnswered(x)
  BY <1>5 DEF SeesNone, Judged, Continues, IsAnswered
<1>7. ASSUME Acts
      PROVE  /\ Revision(v) \in stood'.filed
             /\ v.seen = "assistant" => v.c.shown = "assistant" /\ v.c.proof \in stood'.files
             /\ x.intent = "plan" /\ Sound(v) => Revision(v) \in stood'.fit
  <2>1. Grows(stood, stood')
    BY <1>1, <1>5, <1>7, ReadsNote
  <2>2. /\ Revision(b) \in stood.filed
        /\ b.seen = "assistant" => b.c.shown = "assistant" /\ b.c.proof \in stood.files
        /\ turn.intent = "plan" /\ Sound(b) => Revision(b) \in stood.fit
    BY <1>1, <1>7 DEF LifecycleIInv, RestsOn, Holds, Acts
  <2> QED BY <1>3, <1>5, <2>1, <2>2 DEF Grows, Revision, Sound
<1>8. RestsOn(x, stood', contracts)
  BY <1>3, <1>5, <1>6, <1>7 DEF RestsOn, Acts
<1>9. Remembers(x, contracts)
  BY <1>3, <1>5 DEF Remembers, LifecycleIInv
<1> QED BY <1>1, <1>5, <1>8, <1>9, CallReads

\* What has the contract bound for something else goes on from there.
LEMMA BoundKeeps ==
  ASSUME LifecycleIInv, Repair \/ FastClose \/ ConfirmPost, Notes(FALSE)
  PROVE  LifecycleIInv'
<1>1. /\ Reads /\ outside' = outside /\ turn.pc = "bound" /\ Sees(turn)
      /\ ~Unsure(turn, contracts)
  BY DEF Repair, FastClose, ConfirmPost, TurnAt, Sees, Unsure
<1> PICK x : x = turn'
  OBVIOUS
<1>2. ASSUME NEW pc \in {"record", "resolve", "closeout"}, Goes(pc, [why |-> "none"]),
             pc = "record" \/ turn.why \in {"fast", "after"}
      PROVE  LifecycleIInv'
  <2>1. x \in TurnCalls /\ x.pc = pc /\ x.intent = turn.intent /\ x.view = turn.view
    BY <1>2, AskedIs, Rest DEF Pcs, Askers
  <2>2. (Judged(x) => Judged(turn)) /\ (Continues(x) => Continues(turn))
    BY <1>1, <1>2, <2>1 DEF Judged, Continues
  <2> QED BY <1>1, <2>1, <2>2, CallGoesOn
<1>3. CASE turn.why = "fast" /\ Goes("closeout", [dispatch |-> "fast", why |-> "none"])
  <2> PICK f : f = [dispatch |-> "fast", why |-> "none"]
    OBVIOUS
  <2>1. /\ DOMAIN f = {"dispatch", "why"} /\ f["dispatch"] = "fast" /\ f["why"] = "none"
        /\ Goes("closeout", f)
    BY <1>3
  <2>2. x \in TurnCalls /\ x.pc = "closeout" /\ x.intent = turn.intent /\ x.view = turn.view
    BY <2>1, GoesIs, Rest DEF WellTyped, Fields, Pcs, Dispatches, Askers
  <2>3. Judged(turn) /\ Continues(turn)
    BY <1>1, <1>3 DEF Judged, Continues
  <2> QED BY <1>1, <2>2, <2>3, CallGoesOn
<1>4. CASE Answer("withheld")
  BY <1>1, <1>4, Ends DEF Answers
<1> QED BY <1>2, <1>3, <1>4 DEF Repair, FastClose, ConfirmPost

----------------------------------------------------------------------------
(* What judges the view, and what an open leads to.                        *)

\* Judge keeps the invariant: a call that acts goes on only from a view it found sound.
LEMMA JudgeKeeps ==
  ASSUME LifecycleIInv, Judge, Notes(FALSE)
  PROVE  LifecycleIInv'
<1>1. /\ Reads /\ outside' = outside /\ turn.pc = "judge" /\ Sees(turn)
      /\ ~Unsure(turn, contracts)
  BY DEF Judge, TurnAt, Sees, Unsure
<1>2. CASE Objection # "none"
  <2> PICK code : code = Objection
    OBVIOUS
  <2>1. code \in {"reconcile", "proof", "visible", "reply", "withheld"}
    BY <1>2 DEF Objection
  <2>2. Opened(code)
    BY <1>2 DEF Judge
  <2> QED BY <1>1, <2>1, <2>2, Opens DEF Answers
<1>3. CASE Objection = "none"
  <2> PICK pc \in {"authorize", "guard"} : Goes(pc, [base |-> 0])
    BY <1>3 DEF Judge
  <2>1. 0 \in 0 .. MaxTaskRevisions
    BY LifecycleAssumption
  <2> PICK x : x = turn'
    OBVIOUS
  <2>2. x \in TurnCalls /\ x.pc = pc /\ x.intent = turn.intent /\ x.view = turn.view
    BY <2>1, BasedIs, Rest DEF Pcs
  <2>3. ~SeesNone(x) /\ ~IsAnswered(x) /\ ~Continues(x)
    BY <2>2 DEF SeesNone, IsAnswered, Continues
  <2>4. Acts => Sound(turn.view)
    BY <1>3 DEF Objection, Strict, RequiresProof, Sound
  <2>5. ASSUME Acts
        PROVE  /\ x.view \in Views /\ Revision(x.view) \in stood'.filed
               /\ x.view.seen = "assistant" =>
                    x.view.c.shown = "assistant" /\ x.view.c.proof \in stood'.files
               /\ x.intent = "plan" /\ Sound(x.view) => Revision(x.view) \in stood'.fit
    <3>1. Grows(stood, stood')
      BY <1>1, <2>2, <2>5, ReadsNote
    <3>2. /\ turn.view \in Views /\ Revision(turn.view) \in stood.filed
          /\ turn.view.seen = "assistant" =>
               turn.view.c.shown = "assistant" /\ turn.view.c.proof \in stood.files
          /\ turn.intent = "plan" /\ Sound(turn.view) => Revision(turn.view) \in stood.fit
      BY <1>1, <2>5 DEF LifecycleIInv, RestsOn, Holds, Acts
    <3> QED BY <2>2, <3>1, <3>2 DEF Grows
  <2>6. turn.view \in Views
    BY <1>1, Viewed
  <2>7. RestsOn(x, stood', contracts)
    BY <2>2, <2>3, <2>4, <2>5, <2>6 DEF RestsOn, Acts
  <2>8. Remembers(x, contracts)
    BY <2>2 DEF Remembers, LifecycleIInv
  <2> QED BY <1>1, <2>2, <2>7, <2>8, CallReads
<1> QED BY <1>2, <1>3

\* AuthorizeWrite keeps the invariant: it takes nothing along.
LEMMA AuthorizeKeeps ==
  ASSUME LifecycleIInv, AuthorizeWrite, Notes(FALSE)
  PROVE  LifecycleIInv'
<1>1. /\ Reads /\ outside' = outside /\ turn.pc = "authorize" /\ Sees(turn) /\ Judged(turn)
      /\ ~Unsure(turn, contracts)
  BY DEF AuthorizeWrite, TurnAt, Sees, Judged, Unsure
<1>2. CASE Goes("guard", [base |-> 0])
  <2>1. 0 \in 0 .. MaxTaskRevisions
    BY LifecycleAssumption
  <2> PICK x : x = turn'
    OBVIOUS
  <2>2. x \in TurnCalls /\ x.pc = "guard" /\ x.intent = turn.intent /\ x.view = turn.view
    BY <1>2, <2>1, BasedIs, Rest DEF Pcs
  <2>3. ~Continues(x)
    BY <2>2 DEF Continues
  <2> QED BY <1>1, <2>2, <2>3, CallGoesOn
<1>3. CASE Opened("withheld")
  BY <1>1, <1>3, Opens DEF Answers
<1> QED BY <1>2, <1>3 DEF AuthorizeWrite

\* GuardScope keeps the invariant: what it finds fit, the broker projects at that instant.
LEMMA GuardKeeps ==
  ASSUME LifecycleIInv, GuardScope, Notes(FALSE)
  PROVE  LifecycleIInv'
<1>1. /\ Reads /\ outside' = outside /\ turn.pc = "guard" /\ Sees(turn) /\ Judged(turn)
  BY DEF GuardScope, TurnAt, Sees, Judged
<1> PICK x : x = turn'
  OBVIOUS
<1>2. CASE Opened("withheld")
  BY <1>1, <1>2, Opens DEF Answers
<1>3. CASE paired = [line |-> turn.view.line, rev |-> turn.view.c.rev] /\ Opened("fit")
  <2>1. /\ x \in TurnCalls /\ x.pc = "opened" /\ x.answer = "fit" /\ x.intent = turn.intent
        /\ x.view = turn.view
    BY <1>3, OpenedIs, Rest DEF Answers
  <2>2. ~SeesNone(x) /\ ~IsAnswered(x)
    BY <2>1 DEF SeesNone, IsAnswered
  <2>3. turn.view \in Views
    BY <1>1, Viewed
  <2>4. ASSUME Acts
        PROVE  /\ Revision(x.view) \in stood'.filed
               /\ x.view.seen = "assistant" =>
                    x.view.c.shown = "assistant" /\ x.view.c.proof \in stood'.files
               /\ x.intent = "plan" /\ Sound(x.view) => Revision(x.view) \in stood'.fit
               /\ Sound(x.view) /\ Revision(x.view) \in stood'.projected
    <3>1. Grows(stood, stood') /\ Noted(stood', contracts, project, paired)
      BY <1>1, <2>1, <2>4, ReadsNote
    <3>2. /\ Revision(turn.view) \in stood.filed
          /\ turn.view.seen = "assistant" =>
               turn.view.c.shown = "assistant" /\ turn.view.c.proof \in stood.files
          /\ turn.intent = "plan" /\ Sound(turn.view) => Revision(turn.view) \in stood.fit
          /\ Sound(turn.view)
      BY <1>1, <2>4 DEF LifecycleIInv, RestsOn, Holds, Acts, Unsure
    <3>3. paired.line = turn.view.line /\ paired.rev = turn.view.c.rev
      BY <1>3
    <3> QED BY <2>1, <3>1, <3>2, <3>3 DEF Grows, Noted, Revision
  <2>5. RestsOn(x, stood', contracts)
    BY <2>1, <2>2, <2>3, <2>4 DEF RestsOn, Acts
  <2>6. Remembers(x, contracts)
    BY <2>1 DEF Remembers, LifecycleIInv
  <2> QED BY <1>1, <2>1, <2>5, <2>6, CallReads
<1> QED BY <1>2, <1>3 DEF GuardScope

\* AnswerOpen keeps the invariant: a turn is ready only if its open was fit.
LEMMA AnswerOpenKeeps ==
  ASSUME LifecycleIInv, AnswerOpen, Notes(FALSE)
  PROVE  LifecycleIInv'
<1>1. Reads /\ outside' = outside /\ turn.pc = "opened"
  BY DEF AnswerOpen, TurnAt
<1> PICK code : code = IF turn.answer = "fit" THEN "ready"
                       ELSE IF turn.answer \in {"direct", "context_only", "unsaved", "no_task"}
                            THEN turn.answer ELSE "withheld"
  OBVIOUS
<1>2. Answer(code)
  BY DEF AnswerOpen
<1>3. code \in Answers /\ (code \in {"ready", "checkpointed", "closed"} => turn.answer = "fit")
  BY DEF Answers
<1> QED BY <1>1, <1>2, <1>3, Ends DEF Continues

\* A call whose open was fit goes on to bind, record or dispatch; it carries its view along.
LEMMA FitGoesOn ==
  ASSUME LifecycleIInv, Notes(FALSE), Reads, outside' = outside,
         turn.pc = "opened", turn.answer = "fit",
         NEW x \in TurnCalls, turn' = x, x.intent = turn.intent, x.view = turn.view,
         x.pc \in {"bind", "record", "dispatch"}
  PROVE  LifecycleIInv'
<1>1. Sees(turn) /\ Judged(turn) /\ Continues(turn) /\ ~Unsure(turn, contracts)
  BY DEF Sees, Judged, Continues, Unsure
<1> QED BY <1>1, CallGoesOn

\* CheckpointOpened keeps the invariant: it goes on only from a contract it has in view.
LEMMA CheckpointKeeps ==
  ASSUME LifecycleIInv, CheckpointOpened, Notes(FALSE)
  PROVE  LifecycleIInv'
<1>1. Reads /\ outside' = outside /\ turn.pc = "opened"
  BY DEF CheckpointOpened, TurnAt
<1> PICK x : x = turn'
  OBVIOUS
<1>2. CASE turn.answer = "fit" /\ Goes("record", [bundle |-> TRUE])
  <2> PICK b \in BOOLEAN : b = TRUE
    BY Zenon
  <2>1. Goes("record", [bundle |-> b])
    BY <1>2
  <2>2. x \in TurnCalls /\ x.pc = "record" /\ x.intent = turn.intent /\ x.view = turn.view
    <3>1. turn \in TurnCalls /\ "record" \in Pcs
      BY Rest DEF Pcs
    <3> QED BY <2>1, <3>1, BundledIs
  <2> QED BY <1>1, <1>2, <2>2, FitGoesOn
<1>3. CASE Repairable /\ Goes("bind", [bundle |-> FALSE, why |-> "repair"])
  <2> PICK b \in BOOLEAN : b = FALSE
    BY Zenon
  <2> PICK f : f = [bundle |-> b, why |-> "repair"]
    OBVIOUS
  <2>1. /\ DOMAIN f = {"bundle", "why"} /\ f["bundle"] = b /\ f["why"] = "repair"
        /\ Goes("bind", f)
    BY <1>3
  <2>2. /\ x \in TurnCalls /\ x.pc = "bind" /\ x.intent = turn.intent /\ x.view = turn.view
        /\ x.why = "repair"
    BY <2>1, GoesIs, Rest DEF WellTyped, Fields, Pcs, Askers
  <2>3. Sees(turn) /\ ~Unsure(turn, contracts)
    BY <1>1, <1>3 DEF Sees, Repairable, Unsure
  <2>4. ~Judged(x) /\ ~Continues(x)
    BY <2>2 DEF Judged, Continues
  <2> QED BY <1>1, <2>2, <2>3, <2>4, CallGoesOn
<1>4. CASE Answer(Lost(turn.answer))
  <2> PICK code : code = Lost(turn.answer)
    OBVIOUS
  <2>1. code \in {"error", "no_task", "withheld"} /\ Answer(code)
    BY <1>4 DEF Lost
  <2> QED BY <1>1, <2>1, Ends DEF Answers
<1> QED BY <1>2, <1>3, <1>4 DEF CheckpointOpened

\* Record keeps the invariant: its base is a revision.
LEMMA RecordStepKeeps ==
  ASSUME LifecycleIInv, Record, Notes(FALSE)
  PROVE  LifecycleIInv'
<1>1. Reads /\ outside' = outside /\ Sees(turn) /\ ~Unsure(turn, contracts)
  BY DEF Record, TurnAt, Sees, Unsure
<1> PICK c : c = IF Hinted THEN turn.view.c ELSE contracts[turn.view.line]
  OBVIOUS
<1>2. c.rev \in 0 .. MaxTaskRevisions
  <2>1. c \in TaskContracts
    BY <1>1, Viewed, Rest
  <2> QED BY <2>1, LifecycleAssumption DEF TaskContracts
<1>3. Answer("failed") \/ Goes("set", [base |-> c.rev])
  BY DEF Record
<1>4. CASE Answer("failed")
  BY <1>1, <1>4, Ends DEF Answers
<1>5. CASE Goes("set", [base |-> c.rev])
  <2> PICK n \in 0 .. MaxTaskRevisions : n = c.rev
    BY <1>2
  <2> PICK x : x = turn'
    OBVIOUS
  <2>1. x \in TurnCalls /\ x.pc = "set" /\ x.intent = turn.intent /\ x.view = turn.view
    BY <1>5, BasedIs, Rest DEF Pcs
  <2>2. ~Judged(x) /\ ~Continues(x)
    BY <2>1 DEF Judged, Continues
  <2> QED BY <1>1, <2>1, <2>2, CallGoesOn
<1> QED BY <1>3, <1>4, <1>5

\* Reopened keeps the invariant: the checkpoint is answered, or the close dispatched, only
\* on what the open found fit.
LEMMA ReopenedKeeps ==
  ASSUME LifecycleIInv, Reopened, Notes(FALSE)
  PROVE  LifecycleIInv'
<1>1. Reads /\ outside' = outside /\ turn.pc = "opened"
  BY DEF Reopened, TurnAt
<1>2. ASSUME NEW code \in {"error", "no_task", "attested", "withheld"}, Answer(code)
      PROVE  LifecycleIInv'
  BY <1>1, <1>2, Ends DEF Answers
<1>3. CASE turn.answer \in {"fit", "no_task"} /\ Answer("checkpointed")
  <2>1. turn.answer = "fit" => Continues(turn)
    BY <1>1 DEF Continues
  <2>2. turn.answer = "no_task" => turn.view = NoView
    BY <1>1 DEF LifecycleIInv, RestsOn, SeesNone
  <2> QED BY <1>1, <1>3, <2>1, <2>2, Ends DEF Answers
<1>4. CASE turn.answer = "fit" /\ Goes("dispatch", [purpose |-> "close", packet |-> NoPacket])
  <2> PICK f : f = [purpose |-> "close", packet |-> NoPacket]
    OBVIOUS
  <2>1. /\ DOMAIN f = {"purpose", "packet"} /\ f["purpose"] = "close"
        /\ f["packet"] = NoPacket /\ Goes("dispatch", f)
    BY <1>4
  <2> PICK x : x = turn'
    OBVIOUS
  <2>2. x \in TurnCalls /\ x.pc = "dispatch" /\ x.intent = turn.intent /\ x.view = turn.view
    BY <2>1, GoesIs, Rest DEF WellTyped, Fields, Pcs, Purposes
  <2> QED BY <1>1, <1>4, <2>2, FitGoesOn
<1>5. \/ \E code \in {"error", "no_task", "attested", "withheld"} : Answer(code)
      \/ turn.answer \in {"fit", "no_task"} /\ Answer("checkpointed")
      \/ turn.answer = "fit" /\ Goes("dispatch", [purpose |-> "close", packet |-> NoPacket])
  <2>1. CASE turn.answer \in {"fit", "no_task"}
    BY <2>1 DEF Reopened
  <2>2. CASE turn.answer \in {"direct", "context_only"}
    BY <2>2 DEF Reopened
  <2>3. CASE turn.answer \notin {"fit", "no_task", "direct", "context_only"}
    BY <2>3 DEF Reopened
  <2> QED BY <2>1, <2>2, <2>3
<1> QED BY <1>2, <1>3, <1>4, <1>5

\* CloseOpened keeps the invariant: it records or dispatches only what the open found fit.
LEMMA CloseOpenedKeeps ==
  ASSUME LifecycleIInv, CloseOpened, Notes(FALSE)
  PROVE  LifecycleIInv'
<1>1. Reads /\ outside' = outside /\ turn.pc = "opened"
  BY DEF CloseOpened, TurnAt
<1> PICK x : x = turn'
  OBVIOUS
<1> PICK b \in BOOLEAN : b = TRUE
  BY Zenon
<1>2. ASSUME turn.answer = "fit", NEW pc \in {"record", "dispatch"},
             Goes(pc, [bundle |-> b])
      PROVE  LifecycleIInv'
  <2>1. x \in TurnCalls /\ x.pc = pc /\ x.intent = turn.intent /\ x.view = turn.view
    <3>1. turn \in TurnCalls /\ pc \in Pcs
      BY Rest DEF Pcs
    <3> QED BY <1>2, <3>1, BundledIs
  <2> QED BY <1>1, <1>2, <2>1, FitGoesOn
<1>3. CASE Goes("lease", [purpose |-> "checkpoint", nested |-> b])
  <2> PICK f : f = [purpose |-> "checkpoint", nested |-> b]
    OBVIOUS
  <2>1. /\ DOMAIN f = {"purpose", "nested"} /\ f["purpose"] = "checkpoint"
        /\ f["nested"] = b /\ Goes("lease", f)
    BY <1>3
  <2>2. x \in TurnCalls /\ x.pc = "lease" /\ x.intent = turn.intent /\ x.view = turn.view
    <3>1. turn \in TurnCalls /\ "lease" \in Pcs /\ WellTyped(f) /\ "view" \notin DOMAIN f
      BY <2>1, Rest DEF WellTyped, Fields, Pcs, Purposes
    <3> QED BY <2>1, <3>1, GoesIs
  <2>3. Carries(x)
    BY <2>2 DEF Carries, Sees, SeesNone, Judged, Continues, IsAnswered
  <2> QED BY <1>1, <2>2, <2>3, CallKeepsView
<1>4. CASE Answer(Lost(turn.answer))
  <2> PICK code : code = Lost(turn.answer)
    OBVIOUS
  <2>1. code \in {"error", "no_task", "withheld"} /\ Answer(code)
    BY <1>4 DEF Lost
  <2> QED BY <1>1, <2>1, Ends DEF Answers
<1>5. \/ turn.answer = "fit" /\ \E pc \in {"record", "dispatch"} : Goes(pc, [bundle |-> TRUE])
      \/ Goes("lease", [purpose |-> "checkpoint", nested |-> TRUE])
      \/ Answer(Lost(turn.answer))
  BY Zenon DEF CloseOpened
<1> QED BY <1>2, <1>3, <1>4, <1>5

\* DispatchTurn keeps the invariant: a close with its bundle rests on an open found fit.
LEMMA DispatchTurnKeeps ==
  ASSUME LifecycleIInv, DispatchTurn, Notes(FALSE)
  PROVE  LifecycleIInv'
<1>1. /\ Reads /\ outside' = outside /\ turn.pc = "dispatch" /\ Sees(turn)
      /\ ~Unsure(turn, contracts) /\ (turn.bundle => Judged(turn) /\ Continues(turn))
  BY DEF DispatchTurn, TurnAt, Sees, Unsure, Judged, Continues
<1> PICK x : x = turn'
  OBVIOUS
<1>2. CASE turn.bundle /\ Goes("bind", [why |-> "fast"])
  <2>1. x \in TurnCalls /\ x.pc = "bind" /\ x.intent = turn.intent /\ x.view = turn.view
    <3>1. turn \in TurnCalls /\ "bind" \in Pcs /\ "fast" \in Askers
      BY Rest DEF Pcs, Askers
    <3> QED BY <1>2, <3>1, AskedIs
  <2> QED BY <1>1, <1>2, <2>1, CallGoesOn
<1>3. CASE ~turn.bundle /\ Goes("resolve", NoChange)
  <2>1. /\ x \in TurnCalls /\ x.pc = "resolve" /\ x.intent = turn.intent
        /\ x.view = turn.view /\ x.bundle = turn.bundle
    BY <1>3, UnchangedIs, Rest DEF Pcs
  <2>2. ~Judged(x) /\ ~Continues(x)
    BY <1>3, <2>1 DEF Judged, Continues
  <2> QED BY <1>1, <2>1, <2>2, CallGoesOn
<1> QED BY <1>2, <1>3 DEF DispatchTurn

\* ResolveDispatch keeps the invariant: it only looks the contract up.
LEMMA ResolveKeeps ==
  ASSUME LifecycleIInv, ResolveDispatch, Notes(FALSE)
  PROVE  LifecycleIInv'
<1>1. /\ Reads /\ outside' = outside /\ turn.pc = "resolve" /\ Sees(turn)
      /\ ~Unsure(turn, contracts) /\ (turn.bundle => Judged(turn) /\ Continues(turn))
  BY DEF ResolveDispatch, TurnAt, Sees, Unsure, Judged, Continues
<1> PICK x : x = turn'
  OBVIOUS
<1>2. ASSUME x \in TurnCalls, x.pc \in {"settle", "return"}, x.intent = turn.intent,
             x.view = turn.view, x.bundle = turn.bundle
      PROVE  LifecycleIInv'
  <2>1. (Judged(x) => Judged(turn)) /\ (Continues(x) => Continues(turn))
    BY <1>1, <1>2 DEF Judged, Continues
  <2> QED BY <1>1, <1>2, <2>1, CallGoesOn
<1>3. ASSUME NEW d \in {"policy", "replay"}, Goes("settle", [dispatch |-> d])
      PROVE  LifecycleIInv'
  <2>1. /\ x \in TurnCalls /\ x.pc = "settle" /\ x.intent = turn.intent
        /\ x.view = turn.view /\ x.bundle = turn.bundle
    BY <1>3, DispatchedIs, Rest DEF Dispatches
  <2> QED BY <1>2, <2>1
<1>4. CASE Goes("return", [base |-> contracts[turn.view.line].rev])
  <2> PICK n : n = contracts[turn.view.line].rev
    OBVIOUS
  <2>1. n \in 0 .. MaxTaskRevisions
    <3>1. contracts[turn.view.line] \in TaskContracts
      BY <1>1, Viewed, Rest
    <3> QED BY <3>1, LifecycleAssumption DEF TaskContracts
  <2>2. Goes("return", [base |-> n])
    BY <1>4
  <2>3. /\ x \in TurnCalls /\ x.pc = "return" /\ x.intent = turn.intent
        /\ x.view = turn.view /\ x.bundle = turn.bundle
    BY <2>1, <2>2, BasedIs, Rest DEF Pcs
  <2> QED BY <1>2, <2>3
<1> QED BY <1>3, <1>4 DEF ResolveDispatch

\* PostOpened keeps the invariant: it confirms only what the open found fit.
LEMMA PostKeeps ==
  ASSUME LifecycleIInv, PostOpened, Notes(FALSE)
  PROVE  LifecycleIInv'
<1>1. Reads /\ outside' = outside /\ turn.pc = "opened"
  BY DEF PostOpened, TurnAt
<1>2. CASE turn.answer = "fit" /\ Goes("bind", [why |-> "after"])
  <2> PICK x : x = turn'
    OBVIOUS
  <2>1. x \in TurnCalls /\ x.pc = "bind" /\ x.intent = turn.intent /\ x.view = turn.view
    BY <1>2, AskedIs, Rest DEF Pcs, Askers
  <2> QED BY <1>1, <1>2, <2>1, FitGoesOn
<1>3. ASSUME NEW code \in {"withheld", "observe"}, Answer(code)
      PROVE  LifecycleIInv'
  BY <1>1, <1>3, Ends DEF Answers
<1> QED BY <1>2, <1>3 DEF PostOpened

----------------------------------------------------------------------------
(* What writes.                                                            *)

\* How a call goes on from a write: it is answered with a failure, it is opened again, or
\* it steps to where nothing is concluded from what it saw.
LEMMA AfterWrite ==
  ASSUME LifecycleIInv, Sees(turn), ~Unsure(turn, contracts), NEW x, x = turn',
         turn.bundle => Continues(turn) \/ turn.pc = "set",
         \/ \E code \in {"failed", "partial", "withheld"} : Answer(code)
         \/ \E purpose \in Purposes : Reopens(purpose)
         \/ Goes("refresh", [base |-> 0])
         \/ turn.pc # "set" /\ \E d \in {"resumed", "failed"} : Goes("settle", [dispatch |-> d])
         \/ Continues(turn) /\ Goes("closeout", [base |-> 0])
  PROVE  x \in TurnCalls /\ x.intent = turn.intent /\ Carries(x)
<1>1. turn \in TurnCalls
  BY Rest
<1>2. ASSUME NEW code \in {"failed", "partial", "withheld"}, Answer(code)
      PROVE  x \in TurnCalls /\ x.intent = turn.intent /\ Carries(x)
  BY <1>1, <1>2, Ended DEF Answers
<1>3. ASSUME NEW purpose \in Purposes, Reopens(purpose)
      PROVE  x \in TurnCalls /\ x.intent = turn.intent /\ Carries(x)
  <2>1. x \in TurnCalls /\ x.pc = "read" /\ x.intent = turn.intent /\ x.view = NoView
    BY <1>1, <1>3, ReopensIs
  <2> QED BY <2>1 DEF Carries, Sees, Judged, Continues, IsAnswered
<1>4. ASSUME NEW pc \in {"refresh", "closeout"}, Goes(pc, [base |-> 0]),
             pc = "closeout" => Continues(turn)
      PROVE  x \in TurnCalls /\ x.intent = turn.intent /\ Carries(x)
  <2>1. 0 \in 0 .. MaxTaskRevisions
    BY LifecycleAssumption
  <2>2. x \in TurnCalls /\ x.pc = pc /\ x.intent = turn.intent /\ x.view = turn.view
    BY <1>1, <1>4, <2>1, BasedIs DEF Pcs
  <2>3. (Judged(x) => Judged(turn)) /\ (Continues(x) => Continues(turn))
    BY <1>4, <2>2 DEF Judged, Continues
  <2> QED BY <2>2, <2>3, GoneOn
<1>5. ASSUME turn.pc # "set", NEW d \in {"resumed", "failed"}, Goes("settle", [dispatch |-> d])
      PROVE  x \in TurnCalls /\ x.intent = turn.intent /\ Carries(x)
  <2>1. /\ x \in TurnCalls /\ x.pc = "settle" /\ x.intent = turn.intent
        /\ x.view = turn.view /\ x.bundle = turn.bundle
    BY <1>1, <1>5, DispatchedIs DEF Dispatches
  <2>2. (Judged(x) => Judged(turn)) /\ (Continues(x) => Continues(turn))
    BY <1>5, <2>1 DEF Judged, Continues
  <2> QED BY <2>1, <2>2, GoneOn
<1> QED BY <1>2, <1>3, <1>4, <1>5

\* SetProgress keeps the invariant: a formal stage is left only with its closeout on file.
LEMMA SetKeeps ==
  ASSUME LifecycleIInv, SetProgress, Notes(FALSE)
  PROVE  LifecycleIInv'
<1>1. /\ Sees(turn) /\ ~Unsure(turn, contracts) /\ turn.pc = "set" /\ outside' = outside
      /\ project' = project /\ paired' = paired /\ closeouts' = closeouts
  BY DEF SetProgress, TurnAt, Sees, Unsure
<1> PICK l \in TaskLine : l = turn.view.line
  BY <1>1, Viewed
<1> PICK c \in TaskContracts : c = contracts[l]
  BY Rest
<1>2. c.rev < MaxTaskRevisions
  BY DEF SetProgress
<1> PICK x : x = turn'
  OBVIOUS
<1>3. CASE SetAdmits(c)
  <2> PICK d : d = WithProgress(c)
    OBVIOUS
  <2>1. d \in TaskContracts /\ d.rev = c.rev + 1
    <3>1. turn.packet \in Packets \cup {NoPacket} /\ project \in 1 .. MaxVersions
      BY Rest DEF TurnCalls
    <3>2. turn.packet.phase \in Phase /\ turn.packet.source \in ShownBy
      BY <3>1, LifecycleAssumption DEF NoPacket, Phase, ShownBy
    <3>3. (c.pending /\ ~turn.packet.instructs) \in BOOLEAN
      BY Zenon
    <3> PICK p \in BOOLEAN : p = (c.pending /\ ~turn.packet.instructs)
      BY <3>3
    <3>4. c.rev + 1 \in 1 .. MaxTaskRevisions /\ project \in 0 .. MaxVersions
      BY <1>2, <3>1, LifecycleAssumption DEF TaskContracts
    <3>5. d = [c EXCEPT !.rev = c.rev + 1, !.phase = turn.packet.phase,
                        !.shown = turn.packet.source, !.proof = project, !.pending = p]
      BY DEF WithProgress
    <3> QED BY <3>2, <3>4, <3>5 DEF TaskContracts
  <2>2. /\ contracts' = [contracts EXCEPT ![l] = d]
        /\ stages' = IF Forward(c.phase, turn.packet.phase)
                     THEN stages \cup {<<l, c.phase, c.rev>>} ELSE stages
    BY <1>3 DEF SetProgress
  <2>3. contracts' \in [TaskLine -> TaskContracts]
    BY <2>1, <2>2, Rest
  <2>4. \A m \in TaskLine : Later(contracts[m], contracts'[m])
    BY <2>1, <2>2, Rest DEF Later, TaskContracts
  <2>5. stages' \subseteq closeouts'
    BY <1>1, <1>3, <2>2, Rest DEF SetAdmits, ExactCloseout
  <2>6. \/ \E purpose \in Purposes : Reopens(purpose)
        \/ Goes("refresh", [base |-> 0])
    BY <1>3 DEF SetProgress, Purposes
  <2>7. x \in TurnCalls /\ x.intent = turn.intent /\ Carries(x)
    BY <1>1, <2>6, AfterWrite
  <2> QED BY <1>1, <2>3, <2>4, <2>5, <2>7, CallWrites, Rest
<1>4. CASE ~SetAdmits(c)
  <2>1. Answer("failed") /\ contracts' = contracts /\ stages' = stages
    BY <1>4 DEF SetProgress
  <2>2. x \in TurnCalls /\ x.intent = turn.intent /\ Carries(x)
    BY <1>1, <2>1, AfterWrite
  <2> QED BY <1>1, <2>1, <2>2, CallWrites, Rest DEF Later
<1> QED BY <1>3, <1>4

\* RefreshScope and SettleDispatch keep the invariant: the broker takes a revision on file,
\* and without a change the call goes on from its bundle.
LEMMA RefreshesTyped ==
  ASSUME LifecycleIInv, NEW l \in TaskLine, contracts' = contracts,
         paired' = paired \/ Refreshes(l)
  PROVE  paired' \in [line: TaskLine \cup {NoLine}, rev: 0 .. MaxTaskRevisions]
<1>1. contracts[l].rev \in 0 .. MaxTaskRevisions
  BY Rest, LifecycleAssumption DEF TaskContracts
<1> QED BY <1>1, Rest DEF Refreshes

LEMMA RefreshKeeps ==
  ASSUME LifecycleIInv, RefreshScope, Notes(FALSE)
  PROVE  LifecycleIInv'
<1>1. /\ Sees(turn) /\ ~Unsure(turn, contracts) /\ turn.pc = "refresh" /\ outside' = outside
      /\ contracts' = contracts /\ project' = project /\ stages' = stages
      /\ closeouts' = closeouts
  BY DEF RefreshScope, TurnAt, Sees, Unsure
<1> PICK l \in TaskLine : l = turn.view.line
  BY <1>1, Viewed
<1>2. paired' = paired \/ Refreshes(l)
  BY DEF RefreshScope
<1> PICK x : x = turn'
  OBVIOUS
<1>3. ASSUME NEW code \in {"partial", "withheld"}, Answer(code)
      PROVE  x \in TurnCalls /\ x.intent = turn.intent /\ Carries(x)
  BY <1>3, Ended, Rest DEF Answers
<1>4. ASSUME NEW purpose \in Purposes, Reopens(purpose)
      PROVE  x \in TurnCalls /\ x.intent = turn.intent /\ Carries(x)
  <2>1. x \in TurnCalls /\ x.pc = "read" /\ x.intent = turn.intent /\ x.view = NoView
    BY <1>4, ReopensIs, Rest
  <2> QED BY <2>1 DEF Carries, Sees, Judged, Continues, IsAnswered
<1>5. x \in TurnCalls /\ x.intent = turn.intent /\ Carries(x)
  BY <1>3, <1>4 DEF RefreshScope, Purposes
<1> QED BY <1>1, <1>2, <1>5, RefreshesTyped, CallWrites, Rest DEF Later

LEMMA SettleKeeps ==
  ASSUME LifecycleIInv, SettleDispatch, Notes(FALSE)
  PROVE  LifecycleIInv'
<1>1. /\ Sees(turn) /\ ~Unsure(turn, contracts) /\ outside' = outside
      /\ contracts' = contracts /\ project' = project /\ stages' = stages
      /\ closeouts' = closeouts /\ (turn.bundle => Continues(turn))
  BY DEF SettleDispatch, TurnAt, Sees, Unsure, Continues
<1> PICK l \in TaskLine : l = turn.view.line
  BY <1>1, Viewed
<1>2. paired' = paired \/ Refreshes(l)
  BY DEF SettleDispatch
<1>3. \/ \E code \in {"failed", "partial", "withheld"} : Answer(code)
      \/ \E purpose \in Purposes : Reopens(purpose)
      \/ turn.bundle /\ Goes("closeout", [base |-> 0])
  BY DEF SettleDispatch, Purposes
<1> PICK x : x = turn'
  OBVIOUS
<1>4. x \in TurnCalls /\ x.intent = turn.intent /\ Carries(x)
  BY <1>1, <1>3, AfterWrite
<1> QED BY <1>1, <1>2, <1>4, RefreshesTyped, CallWrites, Rest DEF Later

\* ReturnToParent keeps the invariant: what comes back is what was proved, proved again.
LEMMA ReturnKeeps ==
  ASSUME LifecycleIInv, ReturnToParent, Notes(FALSE)
  PROVE  LifecycleIInv'
<1>1. /\ Sees(turn) /\ ~Unsure(turn, contracts) /\ turn.pc # "set" /\ outside' = outside
      /\ paired' = paired /\ project' = project /\ stages' = stages
      /\ closeouts' = closeouts /\ (turn.bundle => Continues(turn))
  BY DEF ReturnToParent, TurnAt, Sees, Unsure, Continues
<1> PICK l \in TaskLine : l = turn.view.line
  BY <1>1, Viewed
<1> PICK c \in TaskContracts : c = contracts[l]
  BY Rest
<1>2. c.rev < MaxTaskRevisions
  BY DEF ReturnToParent
<1>3. /\ contracts' \in [TaskLine -> TaskContracts]
      /\ \A m \in TaskLine : Later(contracts[m], contracts'[m])
  <2>1. CASE contracts' = contracts
    BY <2>1, Rest DEF Later
  <2>2. CASE contracts' # contracts
    <3> PICK no \in BOOLEAN, yes \in BOOLEAN : no = FALSE /\ yes = TRUE
      BY Zenon
    <3> PICK k : k = [shown |-> "none", proof |-> 0, kept |-> no]
      OBVIOUS
    <3> PICK d : d = [rev |-> c.rev + 1, phase |-> "plain", pending |-> no,
                      shown |-> c.card.shown, proof |-> project, card |-> k,
                      returned |-> yes]
      OBVIOUS
    <3>1. c.rev + 1 \in 1 .. MaxTaskRevisions /\ project \in 0 .. MaxVersions
          /\ 0 \in 0 .. MaxVersions
      BY <1>2, Rest, LifecycleAssumption DEF TaskContracts
    <3>2. c.card.shown \in ShownBy
      BY DEF TaskContracts, ReturnCards
    <3>3. k \in ReturnCards
      BY <3>1 DEF ReturnCards, ShownBy
    <3>4. d \in TaskContracts /\ d.rev = c.rev + 1
      BY <3>1, <3>2, <3>3 DEF TaskContracts, Phase
    <3>5. contracts' = [contracts EXCEPT ![l] = d]
      BY <2>2 DEF ReturnToParent, NoReturnCard
    <3> QED BY <3>4, <3>5, Rest DEF Later, TaskContracts
  <2> QED BY <2>1, <2>2
<1>4. \E d \in {"resumed", "failed"} : Goes("settle", [dispatch |-> d])
  BY DEF ReturnToParent
<1> PICK x : x = turn'
  OBVIOUS
<1>5. x \in TurnCalls /\ x.intent = turn.intent /\ Carries(x)
  BY <1>1, <1>4, AfterWrite
<1> QED BY <1>1, <1>3, <1>5, CallWrites, Rest

\* WriteCloseout keeps the invariant: what is on file stays there.
LEMMA CloseoutKeeps ==
  ASSUME LifecycleIInv, WriteCloseout, Notes(FALSE)
  PROVE  LifecycleIInv'
<1>1. /\ Sees(turn) /\ Continues(turn) /\ outside' = outside
      /\ contracts' = contracts /\ project' = project /\ paired' = paired
      /\ stages' = stages /\ Answer("closed")
  BY DEF WriteCloseout, TurnAt, Sees, Continues
<1> PICK l \in TaskLine : l = turn.view.line
  BY <1>1, Viewed
<1>2. contracts[l] \in TaskContracts
  BY Rest
<1>3. /\ closeouts' \subseteq TaskLine \X Formal \X (1 .. MaxTaskRevisions)
      /\ closeouts \subseteq closeouts' /\ stages' \subseteq closeouts'
  <2>1. turn.view.c = contracts[l] \/ turn.view.c.rev < contracts[l].rev
    BY <1>1, Viewed DEF Remembers, LifecycleIInv
  <2>2. contracts[l].rev = turn.view.c.rev => turn.view.c = contracts[l]
    BY <1>1, <1>2, <2>1, Viewed DEF TaskContracts
  <2>3. closeouts' = closeouts \/
          (/\ contracts[l].phase \in Formal
           /\ closeouts' = closeouts \cup {<<l, contracts[l].phase, contracts[l].rev>>})
    BY <2>2 DEF WriteCloseout
  <2> QED BY <1>1, <1>2, <2>3, Rest DEF TaskContracts
<1> PICK x : x = turn'
  OBVIOUS
<1>4. x \in TurnCalls /\ x.intent = turn.intent /\ Carries(x)
  BY <1>1, Ended, Rest DEF Answers
<1> QED BY <1>1, <1>3, <1>4, CallWrites, Rest DEF Later

----------------------------------------------------------------------------
(* A call that begins, and others.                                         *)

\* BeginTurn keeps the invariant: a call that begins has nothing in view.
LEMMA BeginTurnKeeps ==
  ASSUME LifecycleIInv, Starts, Notes(TRUE)
  PROVE  LifecycleIInv'
<1> PICK op \in {"open", "checkpoint", "close"}, intent \in TurnIntent,
         recovery \in {"none", "resume", "parent_return"},
         packet \in Packets \cup {NoPacket} :
            BeginTurn(op, intent, recovery, packet)
  BY DEF Starts
<1>1. /\ contracts' = contracts /\ project' = project /\ paired' = paired
      /\ closeouts' = closeouts /\ stages' = stages /\ outside' = outside
  BY DEF BeginTurn, Reads
<1>2. turn.calls < MaxTurnCalls
  BY DEF BeginTurn
<1> PICK x : x = turn'
  OBVIOUS
<1> PICK no \in BOOLEAN : no = FALSE
  BY Zenon
<1>3. x = [pc |-> IF op = "open" THEN "read"
                  ELSE IF Attests(packet, intent) THEN "lease" ELSE "done",
           calls |-> turn.calls + 1, op |-> op, intent |-> intent, recovery |-> recovery,
           purpose |-> IF op = "open" THEN "turn" ELSE op, packet |-> packet,
           taken |-> IF packet.proof THEN project ELSE 0, nested |-> no, view |-> NoView,
           bundle |-> no, base |-> 0, why |-> "none", dispatch |-> "none",
           answer |-> IF Attests(packet, intent) THEN "none" ELSE "withheld"]
  BY DEF BeginTurn, NoCall
<1>4. x \in TurnCalls
  <2>1. turn.calls + 1 \in 0 .. MaxTurnCalls
    BY <1>2, Rest, LifecycleAssumption DEF TurnCalls
  <2>2. (IF packet.proof THEN project ELSE 0) \in 0 .. MaxVersions
    BY Rest, LifecycleAssumption
  <2>3. 0 \in 0 .. MaxTaskRevisions
    BY LifecycleAssumption
  <2> QED BY <1>3, <2>1, <2>2, <2>3 DEF TurnCalls
<1>5. x.view = NoView /\ x.pc \in {"read", "lease", "done"} /\ x.answer \in {"none", "withheld"}
  BY <1>3
<1>6. RestsOn(x, stood', contracts) /\ Remembers(x, contracts)
  <2>1. NoView \notin Views
    BY LifecycleAssumption DEF Views, NoView
  <2> QED BY <1>5, <2>1
          DEF RestsOn, Sees, Holds, Judged, Continues, IsAnswered, Remembers
<1>7. stood' \in Instants
  <2> PICK N \in Instants : N = StandsNow'
    BY <1>1, StandsIs, Rest
  <2> PICK S : S = NothingStood
    OBVIOUS
  <2> PICK T : T = stood'
    OBVIOUS
  <2>1. T = IF Acts' THEN [f \in DOMAIN stood |-> S[f] \cup N[f]] ELSE S
    BY DEF Notes
  <2>2. /\ S \in Instants /\ S.filed = {} /\ S.projected = {} /\ S.files = {} /\ S.fit = {}
    BY DEF NothingStood, Instants
  <2>3. DOMAIN stood = {"filed", "projected", "files", "fit"}
    BY DEF LifecycleIInv, LifecycleTypeOK
  <2>4. ASSUME Acts'
        PROVE  T = [filed |-> N.filed, projected |-> N.projected, files |-> N.files,
                    fit |-> N.fit]
    <3>1. T = [f \in {"filed", "projected", "files", "fit"} |-> S[f] \cup N[f]]
      BY <2>1, <2>3, <2>4
    <3>2. /\ T.filed = N.filed /\ T.projected = N.projected /\ T.files = N.files
          /\ T.fit = N.fit
      BY <2>2, <3>1
    <3> QED BY <3>1, <3>2
  <2> QED BY <2>1, <2>2, <2>4 DEF Instants
<1>8. LifecycleTypeOK'
  BY <1>1, <1>4, <1>7 DEF LifecycleTypeOK, LifecycleIInv, Instants
<1>9. RestsOn(turn, stood, contracts)' /\ Remembers(turn, contracts)'
  BY <1>1, <1>6 DEF RestsOn, Sees, SeesNone, Holds, Judged, Continues, IsAnswered, Unsure,
                    Revision, Sound, Remembers
<1> QED BY <1>1, <1>8, <1>9 DEF LifecycleIInv, StageLeftClosed

\* What others do leaves the call with what it saw.
LEMMA OthersMove ==
  ASSUME LifecycleIInv, Notes(FALSE), Elsewhere,
         contracts' \in [TaskLine -> TaskContracts], project' \in 1 .. MaxVersions,
         \A l \in TaskLine : Later(contracts[l], contracts'[l]),
         paired' \in [line: TaskLine \cup {NoLine}, rev: 0 .. MaxTaskRevisions]
  PROVE  LifecycleIInv'
<1>1. /\ turn' = turn /\ closeouts' = closeouts /\ stages' = stages
      /\ outside' = outside + 1 /\ outside < MaxOutside
  BY DEF Elsewhere
<1> PICK x : x = turn
  OBVIOUS
<1>2. x \in TurnCalls /\ x.intent = turn.intent /\ turn' = x
  BY <1>1, Rest
<1>3. outside' \in 0 .. MaxOutside
  BY <1>1, Rest, LifecycleAssumption
<1>4. Remembers(x, contracts')
  BY StillRemembers DEF LifecycleIInv
<1>5. Acts => Grows(stood, stood')
  BY <1>1, NotesIs DEF LifecycleIInv
<1>6. Sees(turn) /\ Unsure(turn, contracts) => Unsure(turn, contracts')
  <2> SUFFICES ASSUME Sees(turn), Unsure(turn, contracts) PROVE Unsure(turn, contracts')
    OBVIOUS
  <2> PICK v \in Views : v = turn.view
    BY Viewed
  <2> PICK c \in TaskContracts, d \in TaskContracts :
         c = contracts[v.line] /\ d = contracts'[v.line]
    BY Rest DEF Views
  <2>1. v.line \in TaskLine /\ v.c \in TaskContracts
    BY DEF Views
  <2>2. v.c = c \/ v.c.rev < c.rev
    BY DEF Remembers, LifecycleIInv
  <2>3. c = d \/ c.rev < d.rev
    BY <2>1 DEF Later
  <2>4. c.rev # v.c.rev
    BY DEF Unsure
  <2>5. d.rev # v.c.rev
    BY <2>1, <2>2, <2>3, <2>4 DEF TaskContracts
  <2> QED BY <2>5 DEF Unsure
<1>7. RestsOn(x, stood', contracts')
  <2>1. Sees(turn) /\ ~Unsure(turn, contracts') => ~Unsure(turn, contracts)
    BY <1>6
  <2>2. IsAnswered(turn) => ~Unsure(turn, contracts)
    BY DEF IsAnswered, Unsure
  <2>3. RestsOn(turn, stood, contracts)
    BY DEF LifecycleIInv
  <2>4. Judged(turn) => Holds(turn)
    BY DEF Judged, Continues, Holds, Sees
  <2>5. ASSUME Acts
        PROVE  /\ Holds(x) =>
                    /\ x.view \in Views /\ Revision(x.view) \in stood'.filed
                    /\ x.view.seen = "assistant" =>
                         x.view.c.shown = "assistant" /\ x.view.c.proof \in stood'.files
                    /\ x.intent = "plan" /\ Sound(x.view) /\ ~Unsure(x, contracts') =>
                         Revision(x.view) \in stood'.fit
               /\ Judged(x) \/ IsAnswered(x) => Sound(x.view)
               /\ Continues(x) \/ IsAnswered(x) => Revision(x.view) \in stood'.projected
    BY <1>5, <2>1, <2>2, <2>3, <2>5 DEF RestsOn, Grows, Acts, Holds
  <2> QED BY <2>3, <2>5 DEF RestsOn, Acts
<1> QED BY <1>1, <1>2, <1>3, <1>4, <1>7, CallMoves, Rest

\* A contract moved by another session is a contract of a later revision.
LEMMA MoveKeeps ==
  ASSUME LifecycleIInv, Notes(FALSE), NEW l \in TaskLine, NEW c \in TaskContracts,
         MoveContract(l, c)
  PROVE  LifecycleIInv'
<1>1. contracts[l].rev < MaxTaskRevisions /\ project' = project /\ paired' = paired /\ Elsewhere
  BY DEF MoveContract
<1> PICK b \in TaskContracts : b = contracts[l]
  BY Rest
<1> PICK d : d = [c EXCEPT !.rev = b.rev + 1]
  OBVIOUS
<1>2. b.rev + 1 \in 1 .. MaxTaskRevisions
  BY <1>1, LifecycleAssumption DEF TaskContracts
<1>3. d \in TaskContracts /\ d.rev = b.rev + 1
  BY <1>2 DEF TaskContracts
<1>4. contracts' = [contracts EXCEPT ![l] = d]
  BY DEF MoveContract
<1>5. contracts' \in [TaskLine -> TaskContracts]
  BY <1>3, <1>4, Rest
<1>6. \A m \in TaskLine : Later(contracts[m], contracts'[m])
  BY <1>3, <1>4, Rest DEF Later, TaskContracts
<1> QED BY <1>1, <1>5, <1>6, OthersMove, Rest

\* Others keep the invariant.
LEMMA OthersKeep ==
  ASSUME LifecycleIInv, Interferes, Notes(FALSE)
  PROVE  LifecycleIInv'
<1>1. ASSUME NEW l \in TaskLine, Instructed(l) \/ Progressed(l) \/ Completed(l) \/ Suspended(l)
      PROVE  LifecycleIInv'
  <2> PICK b \in TaskContracts : b = contracts[l]
    BY Rest
  <2> PICK yes \in BOOLEAN : yes = TRUE
    BY Zenon
  <2>1. CASE Instructed(l)
    <3> PICK c : c = [b EXCEPT !.pending = yes]
      OBVIOUS
    <3>1. c \in TaskContracts
      BY DEF TaskContracts
    <3>2. MoveContract(l, c)
      BY <2>1 DEF Instructed
    <3> QED BY <3>1, <3>2, MoveKeeps
  <2>2. CASE Progressed(l)
    <3> PICK c : c = [b EXCEPT !.shown = "assistant", !.proof = project]
      OBVIOUS
    <3>1. project \in 0 .. MaxVersions
      BY Rest, LifecycleAssumption
    <3>2. c \in TaskContracts
      BY <3>1 DEF TaskContracts, ShownBy
    <3>3. MoveContract(l, c)
      BY <2>2 DEF Progressed
    <3> QED BY <3>2, <3>3, MoveKeeps
  <2>3. CASE Completed(l)
    <3> PICK c : c = [b EXCEPT !.phase = "done", !.shown = "none"]
      OBVIOUS
    <3>1. c \in TaskContracts
      BY DEF TaskContracts, Phase, ShownBy
    <3>2. MoveContract(l, c)
      BY <2>3 DEF Completed
    <3> QED BY <3>1, <3>2, MoveKeeps
  <2>4. CASE Suspended(l)
    <3> PICK k : k = [shown |-> b.shown, proof |-> b.proof, kept |-> yes]
      OBVIOUS
    <3> PICK c : c = [b EXCEPT !.card = k]
      OBVIOUS
    <3>1. k \in ReturnCards
      BY DEF TaskContracts, ReturnCards
    <3>2. c \in TaskContracts
      BY <3>1 DEF TaskContracts
    <3>3. MoveContract(l, c)
      BY <2>4 DEF Suspended, ReturnCard
    <3> QED BY <3>2, <3>3, MoveKeeps
  <2> QED BY <1>1, <2>1, <2>2, <2>3, <2>4
<1>2. CASE EditProject
  <2>1. /\ Elsewhere /\ contracts' = contracts /\ paired' = paired
        /\ project' \in 1 .. MaxVersions
    BY <1>2 DEF EditProject
  <2> QED BY <2>1, OthersMove, Rest DEF Later
<1>3. ASSUME NEW l \in TaskLine, PairAnew(l)
      PROVE  LifecycleIInv'
  <2>1. /\ Elsewhere /\ contracts' = contracts /\ project' = project
        /\ paired' = [line |-> l, rev |-> contracts[l].rev]
    BY <1>3 DEF PairAnew
  <2>2. contracts[l].rev \in 0 .. MaxTaskRevisions
    BY Rest, LifecycleAssumption DEF TaskContracts
  <2>3. paired' \in [line: TaskLine \cup {NoLine}, rev: 0 .. MaxTaskRevisions]
    BY <2>1, <2>2
  <2> QED BY <2>1, <2>3, OthersMove, Rest DEF Later
<1>4. CASE LoseChannel
  <2>1. /\ Elsewhere /\ contracts' = contracts /\ project' = project
        /\ paired' = [line |-> NoLine, rev |-> 0]
    BY <1>4 DEF LoseChannel
  <2>2. 0 \in 0 .. MaxTaskRevisions
    BY LifecycleAssumption
  <2>3. paired' \in [line: TaskLine \cup {NoLine}, rev: 0 .. MaxTaskRevisions]
    BY <2>1, <2>2
  <2> QED BY <2>1, <2>3, OthersMove, Rest DEF Later
<1> QED BY <1>1, <1>2, <1>3, <1>4 DEF Interferes

\* The invariant holds at the start.
LEMMA LifecycleStarts == LifecycleInit => LifecycleIInv
<1> SUFFICES ASSUME LifecycleInit PROVE LifecycleIInv
  OBVIOUS
<1> PICK no \in BOOLEAN : no = FALSE
  BY Zenon
<1>1. 0 \in 0 .. MaxTaskRevisions /\ 0 \in 0 .. MaxVersions
      /\ 1 \in 0 .. MaxVersions /\ 1 \in 1 .. MaxTaskRevisions /\ 1 \in 0 .. MaxTaskRevisions
      /\ 0 \in 0 .. MaxTurnCalls /\ 0 \in 0 .. MaxOutside
  BY LifecycleAssumption
<1> PICK phase \in {"plain", "stage1"} :
          contracts = [l \in TaskLine |-> FirstContract(phase, no)]
  BY DEF LifecycleInit
<1> PICK k : k = [shown |-> "none", proof |-> 0, kept |-> no]
  OBVIOUS
<1> PICK d : d = [rev |-> 1, phase |-> phase, pending |-> no, shown |-> "assistant",
                  proof |-> 1, card |-> k, returned |-> no]
  OBVIOUS
<1>2. k \in ReturnCards
  BY <1>1 DEF ReturnCards, ShownBy
<1>3. d \in TaskContracts
  BY <1>1, <1>2 DEF TaskContracts, Phase, ShownBy
<1>4. contracts = [l \in TaskLine |-> d]
  BY DEF FirstContract, NoReturnCard
<1>5. turn = [pc |-> "idle", calls |-> 0, op |-> "open", intent |-> "greeting",
              recovery |-> "none", purpose |-> "turn", packet |-> NoPacket,
              taken |-> 0, nested |-> no, view |-> NoView, bundle |-> no,
              base |-> 0, why |-> "none", dispatch |-> "none", answer |-> "none"]
  BY DEF LifecycleInit, NoCall
<1>6. turn \in TurnCalls
  BY <1>1, <1>5 DEF TurnCalls, TurnIntent
<1>7. /\ project \in 1 .. MaxVersions /\ closeouts = {} /\ stages = {}
      /\ stood = NothingStood /\ outside = 0
      /\ \E l \in TaskLine : paired = [line |-> l, rev |-> 1]
  BY DEF LifecycleInit
<1>8. LifecycleTypeOK
  <2>1. contracts \in [TaskLine -> TaskContracts]
    BY <1>3, <1>4
  <2>2. paired \in [line: TaskLine \cup {NoLine}, rev: 0 .. MaxTaskRevisions]
    BY <1>1, <1>7
  <2>3. {closeouts, stages} \subseteq SUBSET (TaskLine \X Formal \X (1 .. MaxTaskRevisions))
    BY <1>7
  <2>4. stood \in Instants
    BY <1>7 DEF NothingStood, Instants
  <2> QED BY <1>1, <1>6, <1>7, <2>1, <2>2, <2>3, <2>4 DEF LifecycleTypeOK, Instants
<1>9. turn.view = NoView /\ turn.pc = "idle"
  BY <1>5
<1>10. RestsOn(turn, stood, contracts) /\ Remembers(turn, contracts)
  <2>1. NoView \notin Views
    BY LifecycleAssumption DEF Views, NoView
  <2> QED BY <1>9, <2>1
          DEF RestsOn, Sees, Holds, Judged, Continues, IsAnswered, Remembers
<1> QED BY <1>7, <1>8, <1>10 DEF LifecycleIInv, StageLeftClosed

\* The invariant of a turn: what an acting call has in view was on file, projected and
\* proved at instants of that call, and for a plan on file and proved at one.
THEOREM LifecycleInvariance == LifecycleSpec => []LifecycleIInv
<1>1. LifecycleIInv /\ [LifecycleNext]_lifecycleVars => LifecycleIInv'
  <2> SUFFICES ASSUME LifecycleIInv, [LifecycleNext]_lifecycleVars PROVE LifecycleIInv'
    OBVIOUS
  <2>1. CASE Starts /\ Notes(TRUE)
    BY <2>1, BeginTurnKeeps
  <2>2. CASE Proceeds /\ Notes(FALSE)
    BY <2>2, LeaseKeeps, ContextKeeps, ContractKeeps, CompareKeeps, ProgressKeeps, BindKeeps,
       RescopeKeeps, BoundOpenKeeps, BoundKeeps, JudgeKeeps, AuthorizeKeeps, GuardKeeps,
       AnswerOpenKeeps, CheckpointKeeps, RecordStepKeeps, SetKeeps, RefreshKeeps,
       ReopenedKeeps, CloseOpenedKeeps, DispatchTurnKeeps, ResolveKeeps, ReturnKeeps,
       SettleKeeps, PostKeeps, CloseoutKeeps DEF Proceeds
  <2>3. CASE Interferes /\ Notes(FALSE)
    BY <2>3, OthersKeep
  <2>4. CASE UNCHANGED lifecycleVars
    <3>1. /\ contracts' = contracts /\ project' = project /\ paired' = paired
          /\ closeouts' = closeouts /\ turn' = turn /\ stages' = stages /\ stood' = stood
          /\ outside' = outside
      BY <2>4 DEF lifecycleVars
    <3>2. LifecycleTypeOK' /\ StageLeftClosed'
      BY <3>1 DEF LifecycleIInv, LifecycleTypeOK, StageLeftClosed
    <3>3. RestsOn(turn, stood, contracts)' /\ Remembers(turn, contracts)'
      BY <3>1 DEF LifecycleIInv, RestsOn, Sees, SeesNone, Holds, Judged, Continues,
                  IsAnswered, Unsure, Revision, Sound, Remembers
    <3> QED BY <3>2, <3>3 DEF LifecycleIInv
  <2> QED BY <2>1, <2>2, <2>3, <2>4 DEF LifecycleNext
<1> QED BY <1>1, LifecycleStarts, PTL DEF LifecycleSpec

\* LifecycleTypeOK: the variables of a turn have their types.
THEOREM LifecycleTypeCorrect == LifecycleSpec => []LifecycleTypeOK
<1>1. LifecycleIInv => LifecycleTypeOK
  BY DEF LifecycleIInv
<1> QED BY <1>1, LifecycleInvariance, PTL

\* TurnRestsOnOneRevision: neither the step out of a formal stage nor an answer to act on
\* rests on a revision that was not on file, projected and proved while the call ran (for a
\* plan: on file and proved at one instant), whatever moves between its unlocked looks.
THEOREM TurnOnOneRevision == LifecycleSpec => []TurnRestsOnOneRevision
<1>1. LifecycleIInv => TurnRestsOnOneRevision
  <2> SUFFICES ASSUME LifecycleIInv, Acting
               PROVE  /\ Revision(turn.view) \in stood.filed \cap stood.projected
                      /\ ~turn.view.c.pending /\ turn.view.c.shown = "assistant"
                      /\ turn.view.c.proof \in stood.files
                      /\ turn.intent = "plan" => Revision(turn.view) \in stood.fit
    BY DEF TurnRestsOnOneRevision, ContinuationStood, LifecycleIInv, Revision
  <2>1. Acts /\ IsAnswered(turn) /\ Holds(turn) /\ ~Unsure(turn, contracts)
    BY DEF Acting, IsAnswered, Holds, Unsure
  <2> QED BY <2>1 DEF LifecycleIInv, RestsOn, Acts, Sound
<1> QED BY <1>1, LifecycleInvariance, PTL

----------------------------------------------------------------------------
(* The work DAG: what can be worked on, and where the binding goes.        *)

\* The equation of walk.
Walks(f, nodes) ==
    f = [visiting \in SUBSET DOMAIN nodes |->
            {i \in DOMAIN nodes :
                i \in visiting \/ \E j \in nodes[i] : j \in f[visiting \cup {i}]}]

\* Whatever depends on what, the equation of walk has a solution: the items from
\* which one comes to a visited one or goes round in a circle.
LEMMA WalkExists ==
    ASSUME NEW nodes
    PROVE  \E f : Walks(f, nodes)
<1> DEFINE D == DOMAIN nodes
           Led(v, T) == \A s \in T : s \in v \/ \E j \in nodes[s] : j \in T
           f == [v \in SUBSET D |-> {i \in D : \E T \in SUBSET D : i \in T /\ Led(v, T)}]
<1>1. ASSUME NEW v \in SUBSET D, NEW i \in D
      PROVE  i \in f[v] <=> i \in v \/ \E j \in nodes[i] : j \in f[v \cup {i}]
  <2>1. v \cup {i} \in SUBSET D
    OBVIOUS
  <2>2. f[v] = {k \in D : \E T \in SUBSET D : k \in T /\ Led(v, T)}
    OBVIOUS
  <2>3. f[v \cup {i}] = {k \in D : \E T \in SUBSET D : k \in T /\ Led(v \cup {i}, T)}
    BY <2>1
  <2>4. ASSUME i \in f[v], i \notin v PROVE \E j \in nodes[i] : j \in f[v \cup {i}]
    <3>1. PICK T \in SUBSET D : i \in T /\ Led(v, T)
      BY <2>2, <2>4
    <3>2. PICK j \in nodes[i] : j \in T
      BY <2>4, <3>1
    <3>3. Led(v \cup {i}, T)
      BY <3>1
    <3> QED BY <2>3, <3>1, <3>2, <3>3
  <2>5. ASSUME i \in v PROVE i \in f[v]
    <3>1. {i} \in SUBSET D /\ Led(v, {i})
      BY <2>5
    <3> QED BY <2>2, <3>1
  <2>6. ASSUME NEW j \in nodes[i], j \in f[v \cup {i}] PROVE i \in f[v]
    <3>1. PICK T \in SUBSET D : j \in T /\ Led(v \cup {i}, T)
      BY <2>3, <2>6
    <3>2. Led(v, T \cup {i})
      BY <3>1, <2>6
    <3>3. T \cup {i} \in SUBSET D /\ i \in T \cup {i}
      OBVIOUS
    <3> QED BY <2>2, <3>2, <3>3
  <2> QED BY <2>4, <2>5, <2>6
<1>2. \A v \in SUBSET D : f[v] \subseteq D
  OBVIOUS
<1>3. f = [v \in SUBSET D |-> f[v]]
  OBVIOUS
<1> HIDE DEF f
<1>4. \A v \in SUBSET D :
         f[v] = {i \in D : i \in v \/ \E j \in nodes[i] : j \in f[v \cup {i}]}
  BY <1>1, <1>2
<1>5. Walks(f, nodes)
  BY <1>3, <1>4 DEF Walks
<1> QED BY <1>5

\* What walk computes satisfies its equation.
LEMMA WalkIsOne ==
    ASSUME NEW nodes
    PROVE  Walks(Walk(nodes), nodes)
<1> DEFINE g == CHOOSE f : Walks(f, nodes)
<1>1. Walks(g, nodes)
  BY WalkExists
<1>2. Walk(nodes) = g
  BY DEF Walk, Walks
<1> QED BY <1>1, <1>2

\* A set of natural numbers has a least element.
LEMMA LeastElement ==
    ASSUME NEW T \in SUBSET Nat, T # {}
    PROVE  \E x \in T : \A y \in T : x <= y
<1>1. IsWellFoundedOn(OpToRel(<, Nat), Nat)
  BY NatLessThanWellFounded
<1>2. \E x \in T : \A y \in T : ~ (<<y, x>> \in OpToRel(<, Nat))
  BY <1>1, WFMin
<1>3. \E x \in T : \A y \in T : ~(y < x)
  BY <1>2 DEF OpToRel
<1> QED BY <1>3

\* Items that all depend on one another's kind: a set in which everyone depends
\* on a member holds a cycle, and walk finds it.
LEMMA CycleIsFound ==
    ASSUME NEW nodes, IsFiniteSet(DOMAIN nodes),
           NEW S \in SUBSET DOMAIN nodes, S # {},
           \A i \in S : nodes[i] \cap S # {}
    PROVE  DetectCycle(nodes)
<1> DEFINE D == DOMAIN nodes
           w == Walk(nodes)
           Missed(v) == \E i \in S : i \notin w[v]
           Left == {Cardinality(D \ v) : v \in {u \in SUBSET D : Missed(u)}}
<1>1. \A v \in SUBSET D :
         w[v] = {i \in D : i \in v \/ \E j \in nodes[i] : j \in w[v \cup {i}]}
  <2> HIDE DEF w
  <2>1. Walks(w, nodes)
    BY WalkIsOne DEF w
  <2> QED BY <2>1 DEF Walks
<1> HIDE DEF w
<1>2. ASSUME NEW v \in SUBSET D, Missed(v)
      PROVE  \E u \in SUBSET D : Missed(u) /\ Cardinality(D \ u) < Cardinality(D \ v)
  <2>1. PICK i \in S : i \notin w[v]
    BY <1>2
  <2>2. i \in D /\ i \notin v /\ \A j \in nodes[i] : j \notin w[v \cup {i}]
    BY <1>1, <2>1
  <2>3. PICK j \in nodes[i] : j \in S
    OBVIOUS
  <2>4. v \cup {i} \in SUBSET D /\ Missed(v \cup {i})
    BY <2>2, <2>3
  <2>5. D \ (v \cup {i}) = (D \ v) \ {i} /\ i \in D \ v
    BY <2>2
  <2>6. IsFiniteSet(D \ v)
    BY FS_Subset, D \ v \in SUBSET D
  <2>7. Cardinality((D \ v) \ {i}) = Cardinality(D \ v) - 1
    BY <2>5, <2>6, FS_RemoveElement
  <2>8. Cardinality(D \ v) \in Nat
    BY <2>6, FS_CardinalityType
  <2>9. Cardinality(D \ (v \cup {i})) < Cardinality(D \ v)
    <3>1. Cardinality(D \ (v \cup {i})) = Cardinality((D \ v) \ {i})
      BY <2>5
    <3>2. Cardinality(D \ (v \cup {i})) = Cardinality(D \ v) - 1
      BY <3>1, <2>7, Zenon
    <3> HIDE DEF D
    <3> QED BY <3>2, <2>8
  <2> QED BY <2>4, <2>9
<1>3. \A v \in SUBSET D : Cardinality(D \ v) \in Nat
  BY FS_Subset, FS_CardinalityType
<1>4. Left \in SUBSET Nat
  BY <1>3
<1>5. Left = {}
  <2>1. SUFFICES ASSUME Left # {} PROVE FALSE
    OBVIOUS
  <2>2. PICK n \in Left : \A m \in Left : n <= m
    <3> HIDE DEF Left
    <3> QED BY <1>4, <2>1, LeastElement
  <2>3. PICK v \in SUBSET D : Missed(v) /\ n = Cardinality(D \ v)
    BY <2>2
  <2>4. PICK u \in SUBSET D : Missed(u) /\ Cardinality(D \ u) < n
    BY <1>2, <2>3
  <2>5. Cardinality(D \ u) \in Left
    BY <2>4
  <2>6. n \in Nat /\ Cardinality(D \ u) \in Nat /\ n <= Cardinality(D \ u)
    BY <1>3, <2>2, <2>3, <2>4, <2>5
  <2> QED BY <2>4, <2>6
<1>6. ~Missed({})
  BY <1>5
<1>7. S \subseteq w[{}]
  BY <1>6
<1> QED BY <1>7 DEF DetectCycle, w

----------------------------------------------------------------------------
(* The work DAG. *)

Contract == [revision : 1 .. MaxPlanRevision, items : Plans,
             status : [PlanItem -> ItemStatus]]

\* A file orders the items it is bound to.
DagOK ==
    dag = NoDag \/ /\ dag.revision \in 1 .. MaxDagRevision
                   /\ dag.bound \in 1 .. plan.revision
                   /\ DOMAIN dag.nodes = ToSet(dag.items)

\* A caller that knows the file's revision was told it before it read the
\* contract, and so read no older contract than the file is bound to.
PlannerOK(c) ==
    /\ c.told \in 0 .. dag.revision
    /\ c.read = NoPlan \/ (c.read \in Contract /\ c.read.revision <= plan.revision)
    /\ dag # NoDag /\ c.read # NoPlan /\ c.told = dag.revision
        => c.read.revision >= dag.bound

DagIInv ==
    /\ plan \in Contract
    /\ dag.revision \in Nat
    /\ DagOK
    /\ planners \in [Planner -> [told : Nat, read : Contract \cup {NoPlan}]]
    /\ \A p \in Planner : PlannerOK(planners[p])

\* A plan has finitely many items.
LEMMA PlansAreFinite ==
    ASSUME NEW items \in Plans
    PROVE  /\ ToSet(items) \in SUBSET PlanItem
           /\ IsFiniteSet(ToSet(items))
<1>1. PICK m \in 0 .. 3 : items \in [1 .. m -> PlanItem]
  BY DEF Plans, SeqOf
<1>2. IsFiniteSet(1 .. m)
  BY FS_Interval
<1>3. items \in Surjection(1 .. m, ToSet(items))
  BY <1>1 DEF Surjection, ToSet
<1>4. IsFiniteSet(ToSet(items))
  BY <1>2, <1>3, FS_Surjection
<1> QED BY <1>1, <1>4 DEF ToSet

\* The initial states.
LEMMA DagStarts == DagInit => DagIInv
<1> SUFFICES ASSUME DagInit PROVE DagIInv
  OBVIOUS
<1>1. plan \in Contract
  BY WorkDagAssumption DEF DagInit, Contract, ItemStatus
<1> QED BY <1>1 DEF DagInit, DagIInv, DagOK, PlannerOK, NoDag, NoPlan

\* The contract moves on; what was read of it stays behind.
LEMMA DagMoves == DagIInv /\ ContractMoves => DagIInv'
<1> SUFFICES ASSUME DagIInv, ContractMoves PROVE DagIInv'
  OBVIOUS
<1>0. /\ MaxPlanRevision \in Nat
      /\ plan.revision \in 1 .. MaxPlanRevision /\ plan.revision \in Nat
      /\ plan.revision < MaxPlanRevision
  <2>1. plan.revision < MaxPlanRevision
    BY DEF ContractMoves
  <2> QED BY <2>1, WorkDagAssumption DEF DagIInv, Contract
<1>1. plan' \in Contract /\ plan'.revision = plan.revision + 1
  <2>1. PICK c \in Contract : c = plan
    BY DEF DagIInv
  <2>2. CASE \E i \in ToSet(plan.items), s \in ItemStatus :
                plan' = [plan EXCEPT !.revision = @ + 1, !.status[i] = s]
    <3>1. PICK i \in ToSet(c.items), s \in ItemStatus :
             plan' = [c EXCEPT !.revision = @ + 1, !.status[i] = s]
      BY <2>1, <2>2
    <3>2. plan' = [revision |-> c.revision + 1, items |-> c.items,
                   status |-> [c.status EXCEPT ![i] = s]]
      BY <3>1 DEF Contract
    <3>3. i \in PlanItem /\ c.status \in [PlanItem -> ItemStatus]
      BY PlansAreFinite DEF Contract
    <3>4. [c.status EXCEPT ![i] = s] \in [PlanItem -> ItemStatus]
      BY <3>3
    <3>5. c.revision + 1 \in 1 .. MaxPlanRevision
      BY <1>0, <2>1
    <3> QED BY <2>1, <3>2, <3>4, <3>5 DEF Contract
  <2>3. CASE \E items \in Plans \ {plan.items} :
                plan' = [plan EXCEPT !.revision = @ + 1, !.items = items]
    <3>1. PICK items \in Plans : plan' = [c EXCEPT !.revision = @ + 1, !.items = items]
      BY <2>1, <2>3
    <3>2. plan' = [revision |-> c.revision + 1, items |-> items, status |-> c.status]
      BY <3>1 DEF Contract
    <3>3. c.revision + 1 \in 1 .. MaxPlanRevision
      BY <1>0, <2>1
    <3> QED BY <2>1, <3>2, <3>3 DEF Contract
  <2> QED BY <2>2, <2>3 DEF ContractMoves
<1>2. UNCHANGED <<dag, planners>>
  BY DEF ContractMoves
<1>3. DagOK'
  BY <1>0, <1>1, <1>2 DEF DagIInv, DagOK
<1>4. ASSUME NEW p \in Planner PROVE PlannerOK(planners[p])'
  <2>1. PICK c : c = planners[p]
    OBVIOUS
  <2>2. PlannerOK(c)
    BY <2>1 DEF DagIInv
  <2>3. c.read \in Contract => c.read.revision \in Nat
    BY <1>0 DEF Contract
  <2>4. planners'[p] = c /\ dag' = dag
    BY <1>2, <2>1
  <2>5. c.read \in Contract /\ c.read.revision <= plan.revision
        => c.read.revision <= plan'.revision
    BY <1>0, <1>1, <2>3
  <2> QED BY <2>2, <2>4, <2>5 DEF PlannerOK
<1> QED BY <1>1, <1>2, <1>3, <1>4 DEF DagIInv

\* What a call may do to the file, and what it answers: a new revision bound to
\* the contract that was read, and the revision that is then on file, or none.
DagServes(p, told) ==
    /\ planners[p].read # NoPlan
    /\ \/ dag' = dag
       \/ \E nodes : /\ dag' = StateWith(planners[p].read, nodes, dag.revision + 1)
                     /\ Normalizes(nodes, planners[p].read)
                     /\ dag.revision < MaxDagRevision
                     /\ dag = NoDag \/ ToldOf(p)
    /\ told \in {0, dag'.revision}
    /\ Answered(p, told)
    /\ UNCHANGED plan

\* An answered call leaves the invariant.
LEMMA DagServed ==
    ASSUME DagIInv, NEW p \in Planner, NEW told, DagServes(p, told)
    PROVE  DagIInv' /\ (dag # NoDag => dag' # NoDag /\ dag'.bound >= dag.bound)
<1>1. PICK c \in Contract : c = planners[p].read /\ c.revision <= plan.revision
  BY DEF DagIInv, PlannerOK, DagServes
<1>2. plan.revision \in Nat /\ c.revision \in 1 .. MaxPlanRevision /\ c.revision \in Nat \ {0}
  BY WorkDagAssumption DEF DagIInv, Contract
<1>3. dag'.revision \in Nat /\ dag'.revision >= dag.revision /\ DagOK'
      /\ (dag # NoDag => dag' # NoDag /\ dag'.bound >= dag.bound)
      /\ (dag' = dag \/ dag'.revision = dag.revision + 1)
  <2>1. dag.revision \in Nat /\ DagOK /\ plan' = plan
    BY DEF DagIInv, DagServes
  <2>2. CASE dag' = dag
    <3>1. dag # NoDag => dag.bound \in Nat
      BY <2>1, <1>2 DEF DagOK
    <3> QED BY <2>1, <2>2, <3>1 DEF DagOK
  <2>3. ASSUME NEW nodes, dag' = StateWith(c, nodes, dag.revision + 1),
               Normalizes(nodes, c), dag.revision < MaxDagRevision, dag = NoDag \/ ToldOf(p)
        PROVE  dag'.revision = dag.revision + 1 /\ DagOK'
               /\ (dag # NoDag => dag' # NoDag /\ dag'.bound >= dag.bound)
    <3>1. dag'.revision = dag.revision + 1 /\ dag'.bound = c.revision
          /\ dag'.items = c.items /\ dag'.nodes = nodes
      BY <2>3 DEF StateWith
    <3>2. DOMAIN dag'.nodes = ToSet(dag'.items)
      BY <3>1, <2>3 DEF Normalizes
    <3>3. dag'.revision \in 1 .. MaxDagRevision /\ dag'.bound \in 1 .. plan'.revision
      BY <3>1, <2>1, <2>3, <1>1, <1>2, WorkDagAssumption
    <3>4. dag' # NoDag
      BY <3>3 DEF NoDag
    <3>5. ASSUME dag # NoDag PROVE dag'.bound >= dag.bound
      <4>1. planners[p].told = dag.revision /\ PlannerOK(planners[p])
        BY <2>3, <3>5 DEF ToldOf, DagIInv
      <4>2. planners[p].read # NoPlan
        BY DEF DagServes
      <4> QED BY <4>1, <4>2, <3>1, <3>5, <1>1 DEF PlannerOK
    <3> QED BY <3>1, <3>2, <3>3, <3>4, <3>5 DEF DagOK
  <2> QED BY <2>1, <2>2, <2>3, <1>1 DEF DagServes
<1>4. planners' = [planners EXCEPT ![p] = [told |-> told, read |-> NoPlan]]
  BY DEF DagServes, Answered
<1>5. told \in 0 .. dag'.revision
  BY <1>3 DEF DagServes
<1>6. planners' \in [Planner -> [told : Nat, read : Contract \cup {NoPlan}]]
  BY <1>3, <1>4, <1>5 DEF DagIInv
<1>7. ASSUME NEW q \in Planner PROVE PlannerOK(planners[q])'
  <2>1. CASE q = p
    <3>1. planners'[p] = [told |-> told, read |-> NoPlan]
      BY <1>4 DEF DagIInv
    <3>2. planners'[q].told = told /\ planners'[q].read = NoPlan
      BY <2>1, <3>1
    <3> QED BY <3>2, <1>5 DEF PlannerOK
  <2>2. CASE q # p
    <3>1. planners'[q] = planners[q] /\ PlannerOK(planners[q]) /\ plan' = plan
      BY <2>2, <1>4 DEF DagIInv, DagServes
    <3>2. dag.revision \in Nat /\ planners[q].told \in 0 .. dag.revision
      BY <3>1 DEF DagIInv, PlannerOK
    <3>3. dag' = dag \/ planners[q].told # dag'.revision
      BY <3>2, <1>3
    <3> QED BY <3>1, <3>2, <3>3, <1>3 DEF PlannerOK
  <2> QED BY <2>1, <2>2
<1>8. plan' = plan
  BY DEF DagServes
<1> QED BY <1>3, <1>6, <1>7, <1>8 DEF DagIInv

\* seed is such a call: it writes the first revision, or nothing.
LEMMA SeedServes ==
    ASSUME DagIInv, NEW p \in Planner, Seed(p)
    PROVE  \E told : DagServes(p, told)
<1> DEFINE c == planners[p].read
<1>1. PICK definition \in {DefaultDefinition(c)} \cup {Fits(g, c.items) : g \in Graph} :
         /\ dag' = IF Normalizes(definition, c) /\ dag = NoDag
                   THEN StateWith(c, definition, 1)
                   ELSE dag
         /\ Answered(p, IF Normalizes(definition, c) THEN dag'.revision ELSE 0)
  BY Zenon DEF Seed
<1>2. planners[p].read # NoPlan /\ plan' = plan
  BY DEF Seed
<1>3. PICK told : /\ told = IF Normalizes(definition, c) THEN dag'.revision ELSE 0
                  /\ Answered(p, told)
  BY <1>1
<1>4. dag = NoDag => dag.revision + 1 = 1 /\ dag.revision < MaxDagRevision
  BY WorkDagAssumption DEF NoDag
<1>5. dag' = dag \/ \E nodes : /\ dag' = StateWith(c, nodes, dag.revision + 1)
                               /\ Normalizes(nodes, c)
                               /\ dag.revision < MaxDagRevision
                               /\ dag = NoDag \/ ToldOf(p)
  BY <1>1, <1>4
<1> QED BY <1>2, <1>3, <1>5 DEF DagServes

\* refresh is such a call: it writes the revision after the one it was told of.
LEMMA RefreshServes ==
    ASSUME DagIInv, NEW p \in Planner, Refresh(p)
    PROVE  \E told : DagServes(p, told)
<1> DEFINE c == planners[p].read
<1>1. PICK definition \in (IF dag = NoDag THEN {} ELSE {dag.nodes})
                            \cup {Fits(g, c.items) : g \in Graph} :
         /\ dag' = IF /\ StateIsValid(dag) /\ AsTold(p)
                      /\ Normalizes(definition, c)
                      /\ dag.revision < MaxDagRevision
                   THEN StateWith(c, definition, dag.revision + 1)
                   ELSE dag
         /\ Answered(p, IF ~AsTold(p) \/ Normalizes(definition, c)
                        THEN dag'.revision ELSE 0)
  BY Zenon DEF Refresh
<1>2. planners[p].read # NoPlan /\ plan' = plan
  BY DEF Refresh
<1>3. PICK told : /\ told = IF ~AsTold(p) \/ Normalizes(definition, c)
                            THEN dag'.revision ELSE 0
                  /\ Answered(p, told)
  BY <1>1
<1>4. dag' = dag \/ \E nodes : /\ dag' = StateWith(c, nodes, dag.revision + 1)
                               /\ Normalizes(nodes, c)
                               /\ dag.revision < MaxDagRevision
                               /\ dag = NoDag \/ ToldOf(p)
  BY <1>1 DEF AsTold
<1> QED BY <1>2, <1>3, <1>4 DEF DagServes

\* get writes nothing.
LEMMA GetServes ==
    ASSUME NEW p \in Planner, GetProjection(p)
    PROVE  \E told : DagServes(p, told)
<1>1. PICK told : /\ told = IF ContractView(planners[p].read) THEN dag.revision ELSE 0
                  /\ Answered(p, told)
  BY DEF GetProjection
<1> QED BY <1>1 DEF GetProjection, DagServes

\* Reading the contract shows its newest revision.
LEMMA DagRead ==
    ASSUME DagIInv, NEW p \in Planner, ReadContract(p)
    PROVE  DagIInv'
<1>1. planners' = [planners EXCEPT ![p].read = plan] /\ UNCHANGED <<plan, dag>>
  BY DEF ReadContract
<1>2. planners' \in [Planner -> [told : Nat, read : Contract \cup {NoPlan}]]
  BY <1>1 DEF DagIInv
<1>3. ASSUME NEW q \in Planner PROVE PlannerOK(planners[q])'
  <2>1. CASE q = p
    <3>1. planners'[q].told = planners[q].told /\ planners'[q].read = plan
      BY <1>1, <2>1 DEF DagIInv
    <3>2. plan \in Contract /\ plan.revision \in Nat
      BY WorkDagAssumption DEF DagIInv, Contract
    <3>3. dag # NoDag => dag.bound \in 1 .. plan.revision
      BY DEF DagIInv, DagOK
    <3>4. planners[q].told \in 0 .. dag.revision
      BY DEF DagIInv, PlannerOK
    <3>5. plan.revision <= plan.revision /\ (dag # NoDag => plan.revision >= dag.bound)
      BY <3>2, <3>3
    <3> QED BY <1>1, <3>1, <3>2, <3>4, <3>5 DEF PlannerOK
  <2>2. CASE q # p
    BY <2>2, <1>1 DEF DagIInv, PlannerOK
  <2> QED BY <2>1, <2>2
<1> QED BY <1>1, <1>2, <1>3 DEF DagIInv, DagOK

\* Every step keeps the invariant, and none binds the file back.
LEMMA DagSteps ==
    DagIInv /\ [DagNext]_dagVars
        => /\ DagIInv'
           /\ [dag # NoDag => dag' # NoDag /\ dag'.bound >= dag.bound]_dagVars
<1> SUFFICES ASSUME DagIInv, [DagNext]_dagVars
             PROVE  /\ DagIInv'
                    /\ [dag # NoDag => dag' # NoDag /\ dag'.bound >= dag.bound]_dagVars
  OBVIOUS
<1> DEFINE NotBack == dag # NoDag => dag' # NoDag /\ dag'.bound >= dag.bound
<1>1. dag' = dag => NotBack
  <2>1. plan.revision \in Nat
    BY WorkDagAssumption DEF DagIInv, Contract
  <2> QED BY <2>1 DEF DagIInv, DagOK
<1>2. CASE ContractMoves
  BY <1>1, <1>2, DagMoves DEF ContractMoves
<1>3. CASE \E p \in Planner : ReadContract(p)
  BY <1>1, <1>3, DagRead DEF ReadContract
<1>4. CASE \E p \in Planner : GetProjection(p) \/ Seed(p) \/ Refresh(p)
  BY <1>4, GetServes, SeedServes, RefreshServes, DagServed
<1>5. CASE UNCHANGED dagVars
  BY <1>5 DEF dagVars, DagIInv, DagOK, PlannerOK
<1> QED BY <1>2, <1>3, <1>4, <1>5 DEF DagNext

\* DagIInv is an invariant.
LEMMA DagInvariance == DagSpec => []DagIInv
BY DagStarts, DagSteps, PTL DEF DagSpec

\* Contract, file and callers keep their types (DagTypeOK).
THEOREM DagTypeCorrect == DagSpec => []DagTypeOK
<1>1. DagIInv => DagTypeOK
  <2> SUFFICES ASSUME DagIInv PROVE DagTypeOK
    OBVIOUS
  <2>1. plan.items \in Plans /\ plan.revision \in 1 .. MaxPlanRevision
        /\ plan.status \in [PlanItem -> ItemStatus]
    BY DEF DagIInv, Contract
  <2>2. dag = NoDag \/ dag.revision \in 1 .. MaxDagRevision
    BY DEF DagIInv, DagOK
  <2>3. dag.revision \in 0 .. MaxDagRevision
    BY <2>2, WorkDagAssumption DEF NoDag
  <2>4. ASSUME NEW p \in Planner PROVE planners[p].told \in 0 .. MaxDagRevision
    BY <2>3, WorkDagAssumption DEF DagIInv, PlannerOK
  <2> QED BY <2>1, <2>2, <2>4 DEF DagTypeOK
<1> QED BY <1>1, DagInvariance, PTL

\* Pending items never wait for nothing but one another (CurrentDagOffersWork):
\* that would be a cycle, which the search would have found.
THEOREM DagOffersWork == DagSpec => []CurrentDagOffersWork
<1>1. DagIInv => CurrentDagOffersWork
  <2> DEFINE D == ToSet(plan.items)
             Pending == {i \in D : plan.status[i] = "pending"}
  <2> SUFFICES ASSUME DagIInv, Current(dag, plan), Pending # {},
                      \A i \in Pending :
                          /\ i \notin Ready(dag, plan)
                          /\ dag.nodes[i] \cap InProgress(dag, plan) = {}
                          /\ i \notin HeldUp(dag, plan)
               PROVE  FALSE
    BY DEF CurrentDagOffersWork
  <2>1. dag # NoDag /\ StateIsValid(dag) /\ dag.items = plan.items
    BY DEF Current, StateIsValid
  <2>2. DOMAIN dag.nodes = D
    BY <2>1 DEF DagIInv, DagOK
  <2>3. IsFiniteSet(D) /\ D \in SUBSET PlanItem
    BY PlansAreFinite DEF DagIInv, Contract
  <2>4. \A i \in D : plan.status[i] \in ItemStatus
    BY <2>3 DEF DagIInv, Contract
  <2>6. ASSUME NEW i \in Pending PROVE dag.nodes[i] \cap Pending # {}
    <3>1. PICK j \in dag.nodes[i] : plan.status[j] # "completed"
      BY <2>2, <2>6 DEF Ready
    <3>2. j \in D
      BY <2>1, <2>2, <2>6 DEF StateIsValid
    <3>3. plan.status[j] # "in_progress"
      BY <2>2, <3>2 DEF InProgress
    <3>4. plan.status[j] # "cancelled"
      BY <2>2 DEF HeldUp
    <3> QED BY <3>1, <3>2, <3>3, <3>4, <2>4 DEF ItemStatus
  <2>7. DetectCycle(dag.nodes)
    <3>1. Pending \in SUBSET DOMAIN dag.nodes /\ Pending # {}
      BY <2>2
    <3> QED BY <3>1, <2>2, <2>3, <2>6, CycleIsFound
  <2> QED BY <2>1, <2>7 DEF StateIsValid
<1> QED BY <1>1, DagInvariance, PTL

\* The binding of the file never goes back (BindingNeverGoesBack).
THEOREM BindingOnward == DagSpec => BindingNeverGoesBack
<1>1. DagIInv /\ [DagNext]_dagVars
      => [dag # NoDag => dag' # NoDag /\ dag'.bound >= dag.bound]_dagVars
  BY DagSteps
<1> QED BY <1>1, DagInvariance, PTL DEF DagSpec, BindingNeverGoesBack
=============================================================================
