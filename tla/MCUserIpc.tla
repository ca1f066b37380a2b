------------------------------ MODULE MCUserIpc ------------------------------
(***************************************************************************)
(* Small instances of UserIpc: the Root Task, two services with an         *)
(* endpoint each, and a process that only computes.                        *)
(***************************************************************************)
EXTENDS UserIpc, TLC

CONSTANTS fs, drv, fsEp, drvEp

MCOwner == fsEp :> fs @@ drvEp :> drv

\* Slot 0 of a service's own capability space is its endpoint.
UnpokedSlot0  == [e \in Endpoint |-> Root]
UnpokedX86_64 == [e \in Endpoint |-> None]
=============================================================================
