---------------------------- MODULE MCMemoryCards ----------------------------
(* A small instance of MemoryCards for TLC. *)
EXTENDS MemoryCards

\* A card that does not exist yet.
NewCard == {<<>>}
=============================================================================
