---------------------------- MODULE MCRemoteJobs ----------------------------
(***************************************************************************)
(* One or two jobs of one agent: replies too small for their output, and   *)
(* requests enough to exhaust the worker's slots.                          *)
(***************************************************************************)
EXTENDS RemoteJobs

CONSTANT p

MCOwner == [j \in Jobs |-> p]
=============================================================================
