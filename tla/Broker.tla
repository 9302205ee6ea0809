------------------------------- MODULE Broker -------------------------------
(***************************************************************************)
(* The broker: the socket on which code in an agent's kernel asks the      *)
(* supervisor for something (spawn, send, a job, an MCP tool), while the   *)
(* cell that asked may end, be interrupted, or be closed with the session. *)
(*                                                                         *)
(* Each call is one connection and one handler task of the supervisor      *)
(* (_handle_connection).  The handler starts the operation as a task of    *)
(* its own, owned by the scope of the cell, and races it against the       *)
(* connection's end.  Under split execution the kernel's connection ends   *)
(* at the worker, whose proxy forwards the request and does not watch the  *)
(* kernel's side: the supervisor never sees that caller hang up.           *)
(*                                                                         *)
(* One agent is modelled, whose cells run one at a time.  What an          *)
(* operation does is left to the other modules.                            *)
(***************************************************************************)
EXTENDS Naturals, FiniteSets

CONSTANTS
  Calls,           \* connections the kernel opens
  LastScope,       \* cells of the kernel, numbered from 1
  MaxConnections   \* MAX_BROKER_CONNECTIONS

Scopes == 1..LastScope
NoScope == 0

VARIABLES
  split,     \* the kernel runs behind an execution worker
  scope,     \* the scope of each cell: "none", "open", "closing", "closed"
  awaited,   \* the operations each close_scope waits for
  cell,      \* _scope_id in the kernel: it outlives the cell
  call,      \* the calls
  stage      \* aclose: "open", "scopes", "tasks", "connections", "closed"

brokerVars == <<split, scope, awaited, cell, call, stage>>

-----------------------------------------------------------------------------

NoCall == [at |-> "none", op |-> "none", of |-> NoScope, kind |-> "agent",
           client |-> "none"]

\* A task that has not ended, cancelled or not.
Live(c) == call[c].op \in {"runs", "unwinds"}

\* The calls whose handler still runs.
Connections == {c \in Calls : call[c].at \in {"frame", "queued", "runs", "leaving"}}

\* The supervisor sees the end of the caller's connection.
HungUp(c) == call[c].client = "gone" /\ ~split

\* The handler ends, with an answer or without: a caller that still waits reads
\* the one or sees the connection close.
Ended(r) == [r EXCEPT !.at = "closed", !.client = IF @ = "waiting" THEN "told" ELSE @]

\* task.cancel() on the live operations among `cs`.
Cancelling(cs) ==
  [c \in Calls |-> IF c \in cs /\ Live(c)
                   THEN [call[c] EXCEPT !.op = "unwinds"] ELSE call[c]]

InitBroker ==
  /\ split \in BOOLEAN
  /\ scope = [s \in Scopes |-> "none"]
  /\ awaited = [s \in Scopes |-> {}]
  /\ cell = NoScope
  /\ call = [c \in Calls |-> NoCall]
  /\ stage = "open"

-----------------------------------------------------------------------------
(* The cell.                                                               *)

OpenScope(s) ==
  /\ stage = "open"
  /\ scope[s] = "none"
  /\ \A t \in Scopes : t < s => scope[t] = "closed"
  /\ scope' = [scope EXCEPT ![s] = "open"]
  /\ UNCHANGED <<split, awaited, cell, call, stage>>

\* The kernel installs the scope as the cell begins.
SetScope(s) ==
  /\ scope[s] = "open"
  /\ cell' = s
  /\ UNCHANGED <<split, scope, awaited, call, stage>>

\* The operations of a scope are known to it from their first step on.
OwnedBy(ss) == {c \in Calls : call[c].of \in ss /\ Live(c)}

CloseScope(s) ==
  /\ scope[s] = "open"
  /\ scope' = [scope EXCEPT ![s] = "closing"]
  /\ awaited' = [awaited EXCEPT ![s] = OwnedBy({s})]
  /\ call' = Cancelling(OwnedBy({s}))
  /\ UNCHANGED <<split, cell, stage>>

ScopeClosed(s) ==
  /\ scope[s] = "closing"
  /\ \A c \in awaited[s] : ~Live(c)
  /\ scope' = [scope EXCEPT ![s] = "closed"]
  /\ UNCHANGED <<split, awaited, cell, call, stage>>

-----------------------------------------------------------------------------
(* The kernel's side of a call.                                            *)

\* agent_request, request_sync, call_skill: the scope is the kernel's current
\* one, whichever cell the calling code was started in.
Request(c, k) ==
  /\ call[c].at = "none"
  /\ cell # NoScope
  /\ LET asked == [call[c] EXCEPT !.of = cell, !.kind = k, !.client = "waiting"]
         refused == stage # "open" \/ Cardinality(Connections) >= MaxConnections
     IN call' = [call EXCEPT ![c] = IF refused THEN Ended(asked)
                                    ELSE [asked EXCEPT !.at = "frame"]]
  /\ UNCHANGED <<split, scope, awaited, cell, stage>>

\* The calling code is interrupted, or its kernel ends.
CallerLeaves(c) ==
  /\ call[c].client = "waiting"
  /\ call' = [call EXCEPT ![c].client = "gone"]
  /\ UNCHANGED <<split, scope, awaited, cell, stage>>

-----------------------------------------------------------------------------
(* The handler.                                                            *)

\* No frame in time, a frame that does not parse, or an end of file.
FrameFails(c) ==
  /\ call[c].at = "frame"
  /\ call' = [call EXCEPT ![c] = Ended(@)]
  /\ UNCHANGED <<split, scope, awaited, cell, stage>>

\* _caller
MayCall(c) == stage = "open" /\ scope[call[c].of] = "open"

\* The operation becomes a task of its scope in the step that checks the scope.
Begin(c, allowed) ==
  call' = [call EXCEPT ![c] = IF allowed THEN [@ EXCEPT !.at = "runs", !.op = "runs"]
                              ELSE Ended(@)]

StartOperation(c) ==
  /\ call[c].at = "frame"
  /\ ~HungUp(c)
  /\ call[c].kind = "agent"
  /\ Begin(c, MayCall(c))
  /\ UNCHANGED <<split, scope, awaited, cell, stage>>

\* A skill call waits for the supervisor's lock before it looks at the scope.
QueueSkill(c) ==
  /\ call[c].at = "frame"
  /\ ~HungUp(c)
  /\ call[c].kind = "skill"
  /\ call' = [call EXCEPT ![c].at = "queued"]
  /\ UNCHANGED <<split, scope, awaited, cell, stage>>

\* MUTANT of StartSkillCall: the scope is checked before the wait for the lock.
StartSkillCallUnchecked(c) ==
  /\ call[c].at = "queued"
  /\ Begin(c, TRUE)
  /\ UNCHANGED <<split, scope, awaited, cell, stage>>

StartSkillCall(c) ==
  /\ call[c].at = "queued"
  /\ Begin(c, scope[call[c].of] = "open")
  /\ UNCHANGED <<split, scope, awaited, cell, stage>>

OperationEnds(c) ==
  /\ call[c].op = "runs"
  /\ call' = [call EXCEPT ![c].op = "done"]
  /\ UNCHANGED <<split, scope, awaited, cell, stage>>

OperationUnwinds(c) ==
  /\ call[c].op = "unwinds"
  /\ call' = [call EXCEPT ![c].op = "cancelled"]
  /\ UNCHANGED <<split, scope, awaited, cell, stage>>

\* The connection's end wins the race: cancel the operation and wait for it.
Disconnect(c) ==
  /\ call[c].at = "runs"
  /\ HungUp(c)
  /\ Live(c)
  /\ call' = [Cancelling({c}) EXCEPT ![c].at = "leaving"]
  /\ UNCHANGED <<split, scope, awaited, cell, stage>>

Left(c) ==
  /\ call[c].at = "leaving"
  /\ ~Live(c)
  /\ call' = [call EXCEPT ![c] = Ended(@)]
  /\ UNCHANGED <<split, scope, awaited, cell, stage>>

\* The result, or the error it ended with; a result too large for a frame is
\* answered with that error.  A cancelled operation takes its handler with it,
\* and the connection closes without an answer.
Answer(c) ==
  /\ call[c].at = "runs"
  /\ ~Live(c)
  /\ call' = [call EXCEPT ![c] = Ended(@)]
  /\ UNCHANGED <<split, scope, awaited, cell, stage>>

-----------------------------------------------------------------------------
(* aclose.                                                                 *)

BeginClose ==
  /\ stage = "open"
  /\ LET open == {s \in Scopes : scope[s] = "open"}
     IN /\ scope' = [s \in Scopes |-> IF s \in open THEN "closing" ELSE scope[s]]
        /\ awaited' = [s \in Scopes |-> IF s \in open THEN OwnedBy({s}) ELSE awaited[s]]
        /\ call' = Cancelling(OwnedBy(open))
  /\ stage' = "scopes"
  /\ UNCHANGED <<split, cell>>

\* Its own close_scope calls have returned, and so has the cell's, which the
\* agents' runners wait for.
CloseTasks ==
  /\ stage = "scopes"
  /\ \A s \in Scopes : scope[s] \in {"none", "closed"}
  /\ call' = Cancelling({c \in Calls : call[c].kind = "skill"})
  /\ stage' = "tasks"
  /\ UNCHANGED <<split, scope, awaited, cell>>

TasksEnded ==
  /\ stage = "tasks"
  /\ \A c \in Calls : call[c].kind = "skill" => ~Live(c)
  /\ stage' = "connections"
  /\ UNCHANGED <<split, scope, awaited, cell, call>>

\* The writers are closed and the handlers cancelled and awaited.
CloseConnections ==
  /\ stage = "connections"
  /\ call' = [c \in Calls |-> IF c \in Connections THEN Ended(call[c])
                              ELSE call[c]]
  /\ stage' = "closed"
  /\ UNCHANGED <<split, scope, awaited, cell>>

NextBroker ==
  \/ \E s \in Scopes : OpenScope(s) \/ SetScope(s) \/ CloseScope(s) \/ ScopeClosed(s)
  \/ \E c \in Calls :
        \/ \E k \in {"agent", "skill"} : Request(c, k)
        \/ CallerLeaves(c) \/ FrameFails(c) \/ StartOperation(c) \/ QueueSkill(c)
        \/ StartSkillCall(c) \/ OperationEnds(c) \/ OperationUnwinds(c)
        \/ Disconnect(c) \/ Left(c) \/ Answer(c)
  \/ BeginClose \/ CloseTasks \/ TasksEnded \/ CloseConnections

BrokerSpec == InitBroker /\ [][NextBroker]_brokerVars

-----------------------------------------------------------------------------

\* No operation outlives what it was started for: while one is live, its
\* handler waits for it and its cell's scope is open or waits for it too.  So
\* nothing a cell asked for goes on once close_scope has returned
\* (supervisor.py:406), however the request, the cell's end, the caller's hang-up
\* and the session's close interleave.
NoStrayOperation ==
  \A c \in Calls : Live(c) =>
     /\ call[c].at \in {"runs", "leaving"}
     /\ \/ scope[call[c].of] = "open"
        \/ scope[call[c].of] = "closing" /\ c \in awaited[call[c].of]
=============================================================================
