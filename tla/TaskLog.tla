------------------------------ MODULE TaskLog ------------------------------
(***************************************************************************)
(* What the task state store promises of one task, files, locks, replays   *)
(* and rebuilds left out: a log of images, one revision after the other,   *)
(* each accepted by the task authority before it is committed and          *)
(* committed before it is published, up to the completion of the task.     *)
(*                                                                         *)
(* A log that got two events of one revision is broken and promises        *)
(* nothing more.                                                           *)
(***************************************************************************)
EXTENDS Integers

CONSTANT None   \* the authority does not know the task

VARIABLES image,      \* what the committed revisions add up to
          accepted,   \* the revision of the authority, or None
          published,  \* the newest revision whose delivery is final
          broken      \* the log no longer replays

logVars == <<image, accepted, published, broken>>

LogInit ==
    /\ image.rev = 0 /\ image.life = "open"
    /\ accepted = None
    /\ published = 0
    /\ ~broken

\* The authority takes over a task that has a history already.
Register ==
    /\ accepted = None
    /\ accepted' = image.rev
    /\ UNCHANGED <<image, published>>

\* It accepts the next revision of an open task, one at a time.
Accept ==
    /\ accepted = image.rev /\ image.life = "open"
    /\ accepted' = accepted + 1
    /\ UNCHANGED <<image, published>>

\* What it accepted, or knows nothing of, is committed.
Commit ==
    /\ image.life = "open"
    /\ accepted \in {None, image.rev + 1}
    /\ image'.rev = image.rev + 1
    /\ UNCHANGED <<accepted, published>>

\* What is committed is published, several revisions at once perhaps.
Publish ==
    /\ published' \in published + 1 .. image.rev
    /\ UNCHANGED <<image, accepted>>

LogNext ==
    \/ /\ ~broken /\ ~broken'
       /\ Register \/ Accept \/ Commit \/ Publish
    \/ broken'

LogSpec == LogInit /\ [][LogNext]_logVars
=============================================================================
