-------------------------------- MODULE MCIpc --------------------------------
(***************************************************************************)
(* Small instances of Ipc: a server, the Root Task and other clients, with *)
(* interchangeable clients and messages.                                   *)
(***************************************************************************)
EXTENDS Ipc, TLC

Symmetry == Permutations(Client \ {Root}) \union Permutations(Msg)
=============================================================================
