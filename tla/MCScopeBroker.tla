--------------------------- MODULE MCScopeBroker ---------------------------
(* A small instance of ScopeBroker for TLC. *)
EXTENDS ScopeBroker, TLC

\* Channels, threads and worklines are interchangeable.
Symmetric ==
    Permutations(Channel) \cup Permutations(Thread) \cup Permutations(Workline)
============================================================================
