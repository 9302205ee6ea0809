---------------------------- MODULE MCShellJobs ----------------------------
(***************************************************************************)
(* One job of one agent, with two calls that wait for it: the smallest     *)
(* instance in which one call hands back what another one collects.        *)
(***************************************************************************)
EXTENDS ShellJobs

CONSTANT o

MCOwner == [j \in Jobs |-> o]
============================================================================
