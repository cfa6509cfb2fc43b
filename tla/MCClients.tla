------------------------------ MODULE MCClients ------------------------------
(***************************************************************************)
(* Small instances of Clients for TLC.                                     *)
(***************************************************************************)
EXTENDS Clients, TLC

Symmetry == Permutations(Requests)
=============================================================================
