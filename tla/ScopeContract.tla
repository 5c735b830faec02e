--------------------------- MODULE ScopeContract ---------------------------
(***************************************************************************)
(* The vocabulary the scope broker modules share: worklines, contract      *)
(* versions and the rule by which a durable workline record accepts a      *)
(* version.                                                                *)
(*                                                                         *)
(* A workline stands for the identity a contract is registered under       *)
(* (workspaceKey, ownerSessionKey, taskId, taskInstanceId); the rest of    *)
(* the contract is abstracted to its revision and its content hash.        *)
(***************************************************************************)
EXTENDS Naturals

CONSTANTS
    Workline,      \* registered task identities
    Hash,          \* contract content hashes
    MaxRevision,   \* bound on contract revisions
    None           \* absence of a record

ASSUME ScopeContractAssumption ==
    /\ MaxRevision \in Nat
    /\ Workline # {} /\ Hash # {}

Contract == [rev: 0 .. MaxRevision, hash: Hash]

ASSUME NoneAssumption == None \notin Contract

AccessMode == {"read", "write"}

\* scope_broker.py _refresh_existing_workline: a lower revision is stale, an
\* equal one with another hash a conflict; an unregistered workline accepts.
Accepts(record, k) ==
    record # None => k.rev > record.rev \/ k = record
============================================================================
