-------------------------- MODULE MCTaskStateStore --------------------------
(* A small instance of TaskStateStore for TLC. *)
EXTENDS TaskStateStore, TLC

\* The entity commits tried: a card is enough to start a task, a context to
\* have a second file, and both can be cleared.
MCEntityRequests ==
    {<<"task_card", "upsert">>, <<"task_card", "clear">>,
     <<"context", "upsert">>}

\* A card is all a task with a longer history needs.
MCCardRequests == {<<"task_card", "upsert">>}

\* Processes are interchangeable.
Symmetric == Permutations(Process)
=============================================================================
