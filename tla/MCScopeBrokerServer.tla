----------------------- MODULE MCScopeBrokerServer -------------------------
(* A small instance of ScopeBrokerServer for TLC. *)
EXTENDS ScopeBrokerServer, TLC
============================================================================
