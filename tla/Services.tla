------------------------------ MODULE Services ------------------------------
(***************************************************************************)
(* rlm.services: processes that are meant to outlive the session that      *)
(* started them.  A service is a process group of its own and a record     *)
(* file; the supervisor only remembers, while it lives, which process it   *)
(* started under a name (ServiceManager._procs).                           *)
(*                                                                         *)
(* One name is modelled, with every request about it.  A local supervisor  *)
(* answers requests on its event loop: start() runs without a break and    *)
(* stop() pauses between looks at the process.  Under split execution each *)
(* request has a worker thread of its own (WorkspaceHost.handle on the     *)
(* connection's thread): two start() calls may interleave between any two  *)
(* steps, while stop() still runs on the worker's loop.  Whoever hosts the *)
(* services may end and be started again at any moment between two steps.  *)
(*                                                                         *)
(* A process id is used again once its process is gone.                    *)
(***************************************************************************)
EXTENDS Naturals, FiniteSets

CONSTANTS
  Requests,     \* requests of the agents about the name
  Pids,         \* process ids
  MaxRestarts   \* bound: how often the host is started again

NoPid == 0

VARIABLES
  hosted,   \* the services run behind an execution worker
  record,   \* the pid in the record file
  mine,     \* _procs: the process this host started, and whether it has exited
  process,  \* what runs under each pid: "none", "service", "zombie", "stranger"
  request,  \* the requests
  restarts

serviceVars == <<hosted, record, mine, process, request, restarts>>

-----------------------------------------------------------------------------

NoRequest == [at |-> "none", pid |-> NoPid]

InitServices ==
  /\ hosted \in BOOLEAN
  /\ record = NoPid
  /\ mine = [pid |-> NoPid, exited |-> FALSE]
  /\ process = [p \in Pids |-> "none"]
  /\ request = [r \in Requests |-> NoRequest]
  /\ restarts = 0

\* _alive: a process of that id exists, whose ever it is, and is no zombie.
Alive(p) == p # NoPid /\ process[p] \in {"service", "stranger"}

\* MUTANT of Running: only what this host started can be running.
RunningIfMine(p) == mine.pid = p /\ ~mine.exited /\ Alive(p)

\* _snapshot: the exit code is known only of the process started last.
Running(p) == ~(mine.pid = p /\ mine.exited) /\ Alive(p)

Answered(r) == request' = [request EXCEPT ![r] = [at |-> "done", pid |-> NoPid]]

\* Popen, with start_new_session.
Popen(p) ==
  /\ process[p] = "none"
  /\ process' = [process EXCEPT ![p] = "service"]
  /\ mine' = [pid |-> p, exited |-> FALSE]

-----------------------------------------------------------------------------
(* start.                                                                  *)

StartRefused(r) ==
  /\ request[r].at = "none"
  /\ Running(record)
  /\ Answered(r)
  /\ UNCHANGED <<hosted, record, mine, process, restarts>>

\* On the supervisor's event loop nothing comes between the look, the process
\* and its record.
Start(r) ==
  /\ ~hosted
  /\ request[r].at = "none"
  /\ ~Running(record)
  /\ \E p \in Pids : Popen(p) /\ record' = p
  /\ Answered(r)
  /\ UNCHANGED <<hosted, restarts>>

StartChecked(r) ==
  /\ hosted
  /\ request[r].at = "none"
  /\ ~Running(record)
  /\ request' = [request EXCEPT ![r].at = "checked"]
  /\ UNCHANGED <<hosted, record, mine, process, restarts>>

StartSpawns(r) ==
  /\ request[r].at = "checked"
  /\ \E p \in Pids : Popen(p) /\ request' = [request EXCEPT ![r] = [at |-> "spawned", pid |-> p]]
  /\ UNCHANGED <<hosted, record, restarts>>

StartRecorded(r) ==
  /\ request[r].at = "spawned"
  /\ record' = request[r].pid
  /\ Answered(r)
  /\ UNCHANGED <<hosted, mine, process, restarts>>

-----------------------------------------------------------------------------
(* stop: SIGTERM, at most `grace` seconds, SIGKILL.                        *)

StopIdle(r) ==
  /\ request[r].at = "none"
  /\ ~Running(record)
  /\ Answered(r)
  /\ UNCHANGED <<hosted, record, mine, process, restarts>>

\* The process may take the signal or ignore it.
StopTerm(r) ==
  /\ request[r].at = "none"
  /\ Running(record)
  /\ request' = [request EXCEPT ![r] = [at |-> "grace", pid |-> record]]
  /\ UNCHANGED <<hosted, record, mine, process, restarts>>

\* A look at the process finds it gone, or the last of the looks is over.
StopEnds(r) ==
  /\ \/ request[r].at = "grace" /\ ~Running(request[r].pid)
     \/ request[r].at = "killed"
  /\ Answered(r)
  /\ UNCHANGED <<hosted, record, mine, process, restarts>>

\* The grace is over: the group of that pid is killed, whose ever it is.
StopKill(r) ==
  /\ request[r].at = "grace"
  /\ Running(request[r].pid)
  /\ process' = [process EXCEPT ![request[r].pid] =
                   IF @ = "service" THEN "zombie" ELSE "none"]
  /\ request' = [request EXCEPT ![r].at = "killed"]
  /\ UNCHANGED <<hosted, record, mine, restarts>>

-----------------------------------------------------------------------------
(* The processes and the host.                                             *)

ServiceExits(p) ==
  /\ process[p] = "service"
  /\ process' = [process EXCEPT ![p] = "zombie"]
  /\ UNCHANGED <<hosted, record, mine, request, restarts>>

\* The thread that waits for the process collects it (init does, once the host
\* that started it has ended); its id may be used again.
Reaped(p) ==
  /\ process[p] = "zombie"
  /\ process' = [process EXCEPT ![p] = "none"]
  /\ mine' = IF mine.pid = p THEN [mine EXCEPT !.exited = TRUE] ELSE mine
  /\ UNCHANGED <<hosted, record, request, restarts>>

\* An unrelated process takes the id, and ends.
Stranger(p) ==
  /\ \/ process[p] = "none" /\ process' = [process EXCEPT ![p] = "stranger"]
     \/ process[p] = "stranger" /\ process' = [process EXCEPT ![p] = "none"]
  /\ UNCHANGED <<hosted, record, mine, request, restarts>>

\* The host ends, at a moment when a local supervisor runs no code of start(),
\* and another one reads the same directory.  The services go on.
Restart ==
  /\ restarts < MaxRestarts
  /\ restarts' = restarts + 1
  /\ mine' = [pid |-> NoPid, exited |-> FALSE]
  /\ request' = [r \in Requests |->
       IF request[r].at = "none" THEN NoRequest ELSE [at |-> "done", pid |-> NoPid]]
  /\ UNCHANGED <<hosted, record, process>>

NextServices ==
  \/ \E r \in Requests :
        \/ StartRefused(r) \/ Start(r) \/ StartChecked(r) \/ StartSpawns(r)
        \/ StartRecorded(r)
        \/ StopIdle(r) \/ StopTerm(r) \/ StopEnds(r) \/ StopKill(r)
  \/ \E p \in Pids : ServiceExits(p) \/ Reaped(p) \/ Stranger(p)
  \/ Restart

ServicesSpec == InitServices /\ [][NextServices]_serviceVars

-----------------------------------------------------------------------------

\* A local supervisor never loses a service: whatever was started, stopped or
\* ended before, and however often the supervisor itself was started again, the
\* one process of the name that runs is the one on record, so it is listed and
\* can be stopped (service_manager.py:86-93, 112-122).  Where two starts may
\* interleave, under split execution, this does not hold: see the README.
OneServiceOnRecord ==
  ~hosted => \A p \in Pids : process[p] = "service" => p = record

\* While a host that started a service lives and starts no other under the name,
\* the service's id is never taken for a running service after it has exited:
\* an unrelated process that got the id is not reported, nor signalled
\* (service_manager.py:73-80).
StrangerIsNotMine ==
  \A p \in Pids :
    process[p] = "stranger" /\ mine.pid = p => ~Running(p)
=============================================================================
