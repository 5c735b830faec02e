---------------------------- MODULE FailureLoop ----------------------------
(***************************************************************************)
(* The retry budget of failing side effects: failure_loop_guard.py decides *)
(* from a journal whether an attempt may start, and turn_runtime.py keeps  *)
(* the journal of a scope: an attempt reserves a slot before its side      *)
(* effect, commits it as a failure or releases it afterwards.              *)
(*                                                                         *)
(* Every access is a read-modify-write under the scope's lock and one      *)
(* action; a lock not obtained in time refuses the access.  A reservation  *)
(* lapses some time after it was made, with its attempt still running or   *)
(* not: the side effect may take several timeouts, warm and cold.          *)
(***************************************************************************)
EXTENDS Naturals, Sequences, FiniteSets

CONSTANTS Attempt,          \* attempts, each with one reservation at most
          Failure, Context, \* fingerprints: of a failure, of what surrounds it
          HistorySize,      \* failures the journal holds (256)
          ReservationSize   \* reservations it holds (32)

ASSUME FailureAssumption == /\ {HistorySize, ReservationSize} \subseteq Nat
                            /\ Failure # {} /\ Context # {}

VARIABLES failures,      \* the history of the journal: receipts of failures
          reservations,  \* its reservations with their owner and age
          runs           \* what each attempt is doing, for which receipt

failureVars == <<failures, reservations, runs>>

Tuple == [failure : Failure, context : Context]
RetryReceipt == [tuple : Tuple, corrected : BOOLEAN]

(***************************************************************************)
(* The guard: one attempt for a failure in its context, and one more after *)
(* the user corrected it.                                                  *)
(***************************************************************************)

\* The prior receipts are those of the failures and of the reservations.
Prior == {failures[i] : i \in DOMAIN failures} \cup {r.receipt : r \in reservations}

Matching(t) == {receipt \in Prior : receipt.tuple = t}

ResetApplied(t, correction) ==
    correction /\ \A receipt \in Matching(t) : ~receipt.corrected

ContextChanged(t) ==
    \E receipt \in Prior : /\ receipt.tuple.failure = t.failure
                          /\ receipt.tuple.context # t.context

\* evaluate_failure_loop, and receipt_is_valid, which accepts no receipt that
\* both resets the budget and saw the failure in another context.
RetryAllowed(t, correction) ==
    /\ Len(failures) + Cardinality(reservations) <= HistorySize
    /\ ResetApplied(t, correction) \/ Matching(t) = {}
    /\ ~(ResetApplied(t, correction) /\ ContextChanged(t))

(***************************************************************************)
(* The journal.                                                            *)
(***************************************************************************)

\* _reserve_failure_loop is two writes: what has lapsed is dropped first, ...
DropLapsed ==
    /\ \E r \in reservations : r.lapsed
    /\ reservations' = {r \in reservations : ~r.lapsed}
    /\ UNCHANGED <<failures, runs>>

\* ... then the guard decides on what is left.
ReserveFailureLoop(a, t, correction) ==
    /\ runs[a].pc = "idle"
    /\ \A r \in reservations : ~r.lapsed
    /\ LET receipt == [tuple |-> t, corrected |-> ResetApplied(t, correction)]
       IN  IF RetryAllowed(t, correction) /\ Cardinality(reservations) < ReservationSize
           THEN /\ reservations' = reservations \cup
                     {[owner |-> a, receipt |-> receipt, lapsed |-> FALSE]}
                /\ runs' = [runs EXCEPT ![a] = [pc |-> "running", receipt |-> receipt]]
           ELSE /\ runs' = [runs EXCEPT ![a].pc = "refused"]
                /\ UNCHANGED reservations
    /\ UNCHANGED failures

ReservationLapses(r) ==
    /\ ~r.lapsed
    /\ reservations' = (reservations \ {r}) \cup {[r EXCEPT !.lapsed = TRUE]}
    /\ UNCHANGED <<failures, runs>>

\* _finish_failure_loop_reservation: the reservation must still be there.
OwnReservation(a) == {r \in reservations : r.owner = a}
\* Whether it may be committed even if it was dropped in between.
AnyReservation(a) == {[owner |-> a, receipt |-> runs[a].receipt, lapsed |-> TRUE]}

Matched(a) == OwnReservation(a)

FinishFailureLoop(a, failed) ==
    /\ runs[a].pc = "running"
    /\ IF Cardinality(Matched(a)) # 1 \/ (failed /\ Len(failures) >= HistorySize)
       THEN /\ runs' = [runs EXCEPT ![a].pc = "unfinished"]
            /\ UNCHANGED <<failures, reservations>>
       ELSE /\ runs' = [runs EXCEPT ![a].pc = IF failed THEN "failed" ELSE "done"]
            /\ reservations' = reservations \ OwnReservation(a)
            /\ failures' = IF failed THEN Append(failures, runs[a].receipt)
                                     ELSE failures

\* The lock is not obtained, or the process ends, before the finish: the
\* reservation stays until it lapses.
AttemptLost(a) ==
    /\ runs[a].pc = "running"
    /\ runs' = [runs EXCEPT ![a].pc = "unfinished"]
    /\ UNCHANGED <<failures, reservations>>

BlankReceipt == [tuple |-> CHOOSE t \in Tuple : TRUE, corrected |-> FALSE]

FailureInit ==
    /\ failures = <<>>
    /\ reservations = {}
    /\ runs = [a \in Attempt |-> [pc |-> "idle", receipt |-> BlankReceipt]]

FailureNext ==
    \/ DropLapsed
    \/ \E r \in reservations : ReservationLapses(r)
    \/ \E a \in Attempt :
         \/ \E t \in Tuple, correction \in BOOLEAN : ReserveFailureLoop(a, t, correction)
         \/ \E failed \in BOOLEAN : FinishFailureLoop(a, failed)
         \/ AttemptLost(a)

FailureSpec == FailureInit /\ [][FailureNext]_failureVars

(***************************************************************************)
(* Properties.                                                             *)
(***************************************************************************)

FailureTypeOK ==
    /\ failures \in Seq(RetryReceipt) /\ Len(failures) <= HistorySize
    /\ reservations \subseteq
         [owner : Attempt, receipt : RetryReceipt, lapsed : BOOLEAN]
    /\ Cardinality(reservations) <= ReservationSize
    /\ runs \in [Attempt ->
         [pc : {"idle", "running", "refused", "unfinished", "failed", "done"},
          receipt : RetryReceipt]]

Spent(t, corrected) ==
    Cardinality({i \in DOMAIN failures :
                    failures[i] = [tuple |-> t, corrected |-> corrected]})
    + Cardinality({r \in reservations :
                    r.receipt = [tuple |-> t, corrected |-> corrected]})

\* The attempt is recorded as a failure, or a slot is still kept for it.
Spending(a) == runs[a].pc = "failed" \/ OwnReservation(a) # {}

\* The journal never counts a failure in its context more than once, and once
\* more after a user correction, and what it counts is one attempt: whichever
\* slot lapsed or was lost, a late attempt is not recorded beside the one that
\* took its place, nor does it give up that one's slot.  An attempt that runs on
\* after its slot was dropped is not counted, so this bounds the attempts that
\* are on record and not those under way.
BudgetIsSpentOnce ==
    /\ \A t \in Tuple, corrected \in BOOLEAN : Spent(t, corrected) <= 1
    /\ \A a, b \in Attempt :
         Spending(a) /\ Spending(b) /\ runs[a].receipt = runs[b].receipt => a = b
=============================================================================
