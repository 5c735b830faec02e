-------------------------- MODULE ScopeBrokerQuiet --------------------------
(***************************************************************************)
(* A resident broker that is left alone.  The accept loop does maintenance *)
(* only when accept times out, so of a broker that is called all the time  *)
(* nothing can be promised: handlers may use up every turn of the loop.    *)
(* Here its clients may leave at any moment, whatever they have opened,    *)
(* bound or sent and whatever answer was lost; from then on nobody calls.  *)
(***************************************************************************)
EXTENDS ScopeBrokerServer

VARIABLE left   \* nobody calls any more

quietVars == <<vars, left>>

QuietInit == Init /\ left = FALSE

Leave ==
    /\ ~left
    /\ left' = TRUE
    /\ UNCHANGED vars

Called == ~left /\ Next /\ UNCHANGED left

\* What the accept loop does each time accept has timed out.
MaintenanceAlone == left /\ Maintenance /\ UNCHANGED left

\* A channel's grace runs out.
GracePasses == left /\ (\E c \in Channel : ChannelStale(c)) /\ UNCHANGED left

\* A bootstrap that was received before is still served, a client may stop
\* waiting, and the process may die, shut itself down and be started again.
GoesOnAlone ==
    /\ left
    /\ \/ CurrentStep
       \/ ShutdownIfIdle \/ Stop \/ Crash
       \/ \E here \in SUBSET Workline : Start(here)
       \/ \E o \in Operation : GiveUp(o)
       \/ \E o \in inbox, w \in Workline, k \in Contract, mode \in AccessMode,
             here \in SUBSET Workline : BootstrapBegin(o, w, k, mode, here)
    /\ UNCHANGED left

QuietNext == Leave \/ Called \/ MaintenanceAlone \/ GracePasses \/ GoesOnAlone

\* A request that holds the lock finishes: every wait of its thread is bounded.
\* Once nobody calls, accept times out every quarter of a second, and leases
\* and graces run out.
Fairness ==
    /\ WF_quietVars(CurrentStep /\ UNCHANGED left)
    /\ WF_quietVars(MaintenanceAlone)
    /\ WF_quietVars(GracePasses)

LiveSpec == QuietInit /\ [][QuietNext]_quietVars /\ Fairness

\* Once the broker is left alone nothing is kept for a client that is gone: no
\* channel, no workline's write lease and no bootstrap record, whether or not
\* an answer was lost, a compensation failed or the process died before.
OrphanIsReaped ==
    <>[](left => /\ channels = {}
                 /\ \A w \in Workline : writeLease[w] = None
                 /\ \A o \in Operation : ops[o] = None)
=============================================================================
