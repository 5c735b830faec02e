------------------------ MODULE MCScopeBrokerQuiet -------------------------
(* A small instance of ScopeBrokerQuiet for TLC. *)
EXTENDS ScopeBrokerQuiet, TLC
============================================================================
