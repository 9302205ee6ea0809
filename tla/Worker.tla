------------------------------- MODULE Worker -------------------------------
(***************************************************************************)
(* The execution worker of split execution: sessions of the harness        *)
(* (RemoteREPL) on connections to one listener (execution.main), each with *)
(* a kernel of its own.                                                    *)
(*                                                                         *)
(* Each session has a thread that serves it (_serve_tcp), the threads that *)
(* handle its requests, among them the one that starts the kernel, and the *)
(* kernel client's own thread.  The connection may be lost at any moment.  *)
(* A worker on stdio has one session and ends with it; its kernel then     *)
(* ends with its parent process.  It is the special case of one slot.      *)
(***************************************************************************)
EXTENDS Naturals, FiniteSets

CONSTANTS
  Sessions,   \* sessions of the harness
  Slots       \* sessions the listener serves at a time

VARIABLES
  harness,   \* RemoteREPL: "none", "connecting", "starting", "ready", "closing", "closed"
  link,      \* the connection: "none", "open", "cut"
  serve,     \* _serve_tcp: "none", "accepted", "serving", "ended"
  start,     \* the start request: "none", "preparing", "assigned", "launching",
             \* "waiting", "done", "failed"
  repl,      \* _Worker.repl is set
  shut,      \* the executor of the kernel client takes no more work
  held,      \* IPythonREPL._km: the kernel process can be found
  kernel,    \* the kernel process: "none", "runs", "gone"
  free,      \* the semaphore of the listener
  up         \* auxiliary: sessions whose harness learnt that the kernel is ready

workerVars == <<harness, link, serve, start, repl, shut, held, kernel, free, up>>

-----------------------------------------------------------------------------

InitWorker ==
  /\ harness = [s \in Sessions |-> "none"]
  /\ link = [s \in Sessions |-> "none"]
  /\ serve = [s \in Sessions |-> "none"]
  /\ start = [s \in Sessions |-> "none"]
  /\ repl = [s \in Sessions |-> FALSE]
  /\ shut = [s \in Sessions |-> FALSE]
  /\ held = [s \in Sessions |-> FALSE]
  /\ kernel = [s \in Sessions |-> "none"]
  /\ free = Slots
  /\ up = {}

-----------------------------------------------------------------------------
(* The harness.                                                            *)

Connect(s) ==
  /\ harness[s] = "none"
  /\ harness' = [harness EXCEPT ![s] = "connecting"]
  /\ link' = [link EXCEPT ![s] = "open"]
  /\ UNCHANGED <<serve, start, repl, shut, held, kernel, free, up>>

\* The worker has authenticated the connection; the start request is on its way.
Authenticated(s) ==
  /\ harness[s] = "connecting"
  /\ serve[s] = "serving"
  /\ harness' = [harness EXCEPT ![s] = "starting"]
  /\ UNCHANGED <<link, serve, start, repl, shut, held, kernel, free, up>>

Started(s) ==
  /\ harness[s] = "starting"
  /\ link[s] = "open"
  /\ start[s] = "done"
  /\ harness' = [harness EXCEPT ![s] = "ready"]
  /\ up' = up \union {s}
  /\ UNCHANGED <<link, serve, start, repl, shut, held, kernel, free>>

\* start() raises: no connection, no kernel, or no reply in time.  The engine
\* waits for that even when it is cancelled, and shuts the REPL down.
StartFails(s) ==
  /\ harness[s] \in {"connecting", "starting"}
  /\ harness' = [harness EXCEPT ![s] = "closing"]
  /\ UNCHANGED <<link, serve, start, repl, shut, held, kernel, free, up>>

Shutdown(s) ==
  /\ harness[s] = "ready"
  /\ harness' = [harness EXCEPT ![s] = "closing"]
  /\ UNCHANGED <<link, serve, start, repl, shut, held, kernel, free, up>>

\* The close request has been answered, has failed or timed out.
CloseTransport(s) ==
  /\ harness[s] = "closing"
  /\ harness' = [harness EXCEPT ![s] = "closed"]
  /\ link' = [link EXCEPT ![s] = "cut"]
  /\ UNCHANGED <<serve, start, repl, shut, held, kernel, free, up>>

\* The network, or the harness itself, goes away.
Cut(s) ==
  /\ link[s] = "open"
  /\ link' = [link EXCEPT ![s] = "cut"]
  /\ UNCHANGED <<harness, serve, start, repl, shut, held, kernel, free, up>>

-----------------------------------------------------------------------------
(* The listener.                                                           *)

Accept(s) ==
  /\ link[s] = "open"
  /\ serve[s] = "none"
  /\ IF free = 0
     THEN /\ link' = [link EXCEPT ![s] = "cut"]
          /\ serve' = [serve EXCEPT ![s] = "ended"]
          /\ UNCHANGED free
     ELSE /\ serve' = [serve EXCEPT ![s] = "accepted"]
          /\ free' = free - 1
          /\ UNCHANGED link
  /\ UNCHANGED <<harness, start, repl, shut, held, kernel, up>>

Authenticate(s) ==
  /\ serve[s] = "accepted"
  /\ link[s] = "open"
  /\ serve' = [serve EXCEPT ![s] = "serving"]
  /\ UNCHANGED <<harness, link, start, repl, shut, held, kernel, free, up>>

\* MUTANT of Unauthenticated: the slot is given back only by a session.
UnauthenticatedKeepsSlot(s) ==
  /\ serve[s] = "accepted"
  /\ serve' = [serve EXCEPT ![s] = "ended"]
  /\ link' = [link EXCEPT ![s] = "cut"]
  /\ UNCHANGED <<harness, start, repl, shut, held, kernel, free, up>>

\* No token, a wrong one, none in ten seconds, or the connection ends.
Unauthenticated(s) ==
  /\ serve[s] = "accepted"
  /\ serve' = [serve EXCEPT ![s] = "ended"]
  /\ link' = [link EXCEPT ![s] = "cut"]
  /\ free' = free + 1
  /\ UNCHANGED <<harness, start, repl, shut, held, kernel, up>>

-----------------------------------------------------------------------------
(* The session on the worker.                                              *)

\* IPythonREPL.shutdown: a kernel whose process is known is stopped; the client's
\* thread finishes what it has begun and takes nothing new.
StopKernel(s) ==
  /\ kernel' = [kernel EXCEPT ![s] = IF held[s] /\ @ = "runs" THEN "gone" ELSE @]
  /\ held' = [held EXCEPT ![s] = FALSE]
  /\ shut' = [shut EXCEPT ![s] = TRUE]

StartRequested(s) ==
  /\ harness[s] = "starting"
  /\ serve[s] = "serving"
  /\ start[s] = "none"
  /\ start' = [start EXCEPT ![s] = "preparing"]
  /\ UNCHANGED <<harness, link, serve, repl, shut, held, kernel, free, up>>

\* The generated skills and the broker's socket are made, in a directory that the
\* session's end removes; then the REPL is there.
Prepared(s) ==
  /\ start[s] = "preparing"
  /\ \/ /\ start' = [start EXCEPT ![s] = "assigned"]
        /\ repl' = [repl EXCEPT ![s] = TRUE]
     \/ /\ start' = [start EXCEPT ![s] = "failed"]
        /\ UNCHANGED repl
  /\ UNCHANGED <<harness, link, serve, shut, held, kernel, free, up>>

Submitted(s) ==
  /\ start[s] = "assigned"
  /\ IF shut[s]
     THEN start' = [start EXCEPT ![s] = "failed"] /\ UNCHANGED held
     ELSE /\ start' = [start EXCEPT ![s] = "launching"]
          /\ held' = [held EXCEPT ![s] = TRUE]
  /\ UNCHANGED <<harness, link, serve, repl, shut, kernel, free, up>>

\* start_kernel: the process is there, and the client goes on only if the REPL
\* still knows its manager.
Launched(s) ==
  /\ start[s] = "launching"
  /\ kernel' = [kernel EXCEPT ![s] = "runs"]
  /\ start' = [start EXCEPT ![s] = IF held[s] THEN "waiting" ELSE "failed"]
  /\ UNCHANGED <<harness, link, serve, repl, shut, held, free, up>>

\* wait_for_ready and the startup code succeed, or raise.
Ready(s) ==
  /\ start[s] = "waiting"
  /\ start' = [start EXCEPT ![s] = IF held[s] THEN "done" ELSE "failed"]
  /\ UNCHANGED <<harness, link, serve, repl, shut, held, kernel, free, up>>

NotReady(s) ==
  /\ start[s] = "waiting"
  /\ start' = [start EXCEPT ![s] = "failed"]
  /\ UNCHANGED <<harness, link, serve, repl, shut, held, kernel, free, up>>

\* The close request.
CloseRequested(s) ==
  /\ harness[s] = "closing"
  /\ link[s] = "open"
  /\ serve[s] = "serving"
  /\ repl[s]
  /\ StopKernel(s)
  /\ repl' = [repl EXCEPT ![s] = FALSE]
  /\ UNCHANGED <<harness, link, serve, start, free, up>>

\* The connection has ended: _Worker.close, and the slot is free.
Close(s) ==
  /\ serve[s] = "serving"
  /\ link[s] = "cut"
  /\ IF repl[s] THEN StopKernel(s) ELSE UNCHANGED <<shut, held, kernel>>
  /\ serve' = [serve EXCEPT ![s] = "ended"]
  /\ free' = free + 1
  /\ UNCHANGED <<harness, link, start, repl, up>>

NextWorker ==
  \E s \in Sessions :
     \/ Connect(s) \/ Authenticated(s) \/ Started(s) \/ StartFails(s) \/ Shutdown(s)
     \/ CloseTransport(s) \/ Cut(s)
     \/ Accept(s) \/ Authenticate(s) \/ Unauthenticated(s)
     \/ StartRequested(s) \/ Prepared(s) \/ Submitted(s) \/ Launched(s) \/ Ready(s)
     \/ NotReady(s) \/ CloseRequested(s) \/ Close(s)

WorkerSpec == InitWorker /\ [][NextWorker]_workerVars

-----------------------------------------------------------------------------

Served == {s \in Sessions : serve[s] \in {"accepted", "serving"}}

\* Every slot is free or held by a session that is still served: however a
\* session ends, before or after it authenticated, its slot comes back
\* (execution.py:525-543).
SlotsAreReturned == free + Cardinality(Served) = Slots

\* "a closing session stops what is attached to its kernels"
\* (docs/split-execution.md:64): the kernel that a harness was given does not run on
\* once its session has ended, however the close request, its timeout and the loss of
\* the connection interleave (execution.py:505-514).  A kernel whose session ends before
\* it is ready may: _Worker.close finds no REPL, or no process yet, and the start that
\* goes on in the client's thread has nobody left to stop what it launches.
KernelEndsWithSession ==
  \A s \in up : serve[s] = "ended" => kernel[s] # "runs"
=============================================================================
