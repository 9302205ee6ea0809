----------------------------- MODULE AcpSession -----------------------------
(***************************************************************************)
(* One session of the ACP agent and the life of its engine: requests to    *)
(* prompt, steer, cancel and close run as tasks of their own, share one    *)
(* lock, and call an engine that starts lazily (supervisor, then kernel)   *)
(* and closes once. The client may stop reading, a request may itself be   *)
(* cancelled (once), and starting, a turn and closing may fail.            *)
(***************************************************************************)
EXTENDS Integers, FiniteSets, SequencesExt

CONSTANTS Prompts,    \* session/prompt requests
          Steers,     \* session/steering requests
          Closers,    \* session/close requests, shutdown's included
          MaxCancels, \* bound: session/cancel notifications
          MaxFaults   \* bound: failures of starting, a turn or closing

VARIABLES
    listed,    \* the session is in self._sessions
    request,   \* where each session/prompt handler is, and its answer
    pending,   \* handlers cancelled and not resumed since
    queue,     \* state.lock: its holder first, then those waiting
    closing,   \* state.closing
    closer,    \* state.close_task
    closes,    \* what each session/close request got
    steer,     \* what each steering request got
    task,      \* state.prompt_task: the call of engine.prompt
    delivery,  \* state.delivery_task
    engine,    \* _steering_active, _started, _closed, the supervisor, the kernel
    delivered, \* auxiliary: whose answers the client was sent, in order
    faults, cancels

requests == <<request, pending, closes, steer>>
vars == <<listed, queue, closing, closer, task, delivery, engine, delivered, faults, cancels, requests>>

CLOSE == "close"  \* what close_task is in the line
ASSUME CloseIsApart == CLOSE \notin Prompts
NoTask == [of |-> "nobody", at |-> "none", cancel |-> FALSE]
Live(t) == t.at \notin {"none", "returned", "cancelled", "failed"}
Ended(t) == t.at \in {"returned", "cancelled", "failed"}

Phases == {"new", "queued", "running", "stopping", "delivering", "retracting"}
Answers == {"end_turn", "cancelled", "error", "not_found", "invalid", "aborted"}

Init ==
    /\ listed = FALSE /\ closing = FALSE /\ closer = "none" /\ queue = <<>>
    /\ request = [p \in Prompts |-> "new"] /\ pending = {}
    /\ closes = [c \in Closers |-> "new"]
    /\ steer = [s \in Steers |-> "new"]
    /\ task = NoTask /\ delivery = NoTask
    /\ engine = [active |-> FALSE, started |-> FALSE, closed |-> FALSE, supervisor |-> "none", kernel |-> "none"]
    /\ delivered = <<>> /\ faults = 0 /\ cancels = 0

Fault == faults < MaxFaults /\ faults' = faults + 1

\* new_session: the engine is built, and only then is the session listed.
NewSession ==
    /\ ~listed /\ closer = "none"
    /\ listed' = TRUE
    /\ UNCHANGED <<queue, closing, closer, task, delivery, engine, delivered, faults, cancels, requests>>

-----------------------------------------------------------------------------
(* session/prompt.                                                         *)

\* A handler that ends leaves the lock, or the line for it.
Answer(p, answer) ==
    /\ request' = [request EXCEPT ![p] = answer]
    /\ \E i \in DOMAIN queue : queue[i] = p /\ queue' = RemoveAt(queue, i)
    /\ pending' = pending \ {p}

Prompt(p) ==
    /\ request[p] = "new"
    /\ \/ /\ ~listed
          /\ request' = [request EXCEPT ![p] = "not_found"] /\ UNCHANGED queue
       \/ /\ listed  \* the refinement it asks for is not to be had, or it has no text
          /\ request' = [request EXCEPT ![p] = "invalid"] /\ UNCHANGED queue
       \/ /\ listed
          /\ request' = [request EXCEPT ![p] = "queued"]
          /\ queue' = Append(queue, p)
    /\ UNCHANGED <<listed, pending, closing, closer, closes, steer, task, delivery, engine, delivered, faults, cancels>>

\* The transport cancels a request that is being handled.
CancelRequest(p) ==
    /\ request[p] \in {"queued", "running", "delivering"}
    /\ p \notin pending
    /\ pending' = pending \union {p}
    /\ UNCHANGED <<listed, request, queue, closing, closer, closes, steer, task, delivery, engine, delivered, faults, cancels>>

LeaveQueue(p) ==
    /\ request[p] = "queued" /\ p \in pending
    /\ Answer(p, "aborted")
    /\ UNCHANGED <<listed, closing, closer, closes, steer, task, delivery, engine, delivered, faults, cancels>>

TakeLock(p) ==
    /\ request[p] = "queued" /\ p \notin pending
    /\ queue[1] = p
    /\ IF closing THEN Answer(p, "not_found") /\ UNCHANGED task
       ELSE /\ request' = [request EXCEPT ![p] = "running"]
            /\ task' = [of |-> p, at |-> "created", cancel |-> FALSE]
            /\ UNCHANGED <<queue, pending>>
    /\ UNCHANGED <<listed, closing, closer, closes, steer, delivery, engine, delivered, faults, cancels>>

\* Mutant: the handler cancels the call and does not wait for it.
StopAtOnce(p) ==
    /\ request[p] = "running" /\ p \in pending
    /\ task' = [task EXCEPT !.cancel = TRUE]
    /\ Answer(p, "aborted")
    /\ UNCHANGED <<listed, closing, closer, closes, steer, delivery, engine, delivered, faults, cancels>>

\* CancelledError at the handler's own await, with the call done or not.
Stop(p) ==
    /\ request[p] = "running" /\ p \in pending
    /\ request' = [request EXCEPT ![p] = "stopping"]
    /\ task' = [task EXCEPT !.cancel = TRUE]
    /\ UNCHANGED <<listed, pending, queue, closing, closer, closes, steer, delivery, engine, delivered, faults, cancels>>

Stopped(p) ==
    /\ request[p] = "stopping" /\ Ended(task)
    /\ task' = NoTask
    /\ Answer(p, "aborted")
    /\ UNCHANGED <<listed, closing, closer, closes, steer, delivery, engine, delivered, faults, cancels>>

\* The call ended: tell so, or hand the result to the client.
Prompted(p) ==
    /\ request[p] = "running" /\ p \notin pending /\ Ended(task)
    /\ task' = NoTask
    /\ \/ task.at = "cancelled" /\ Answer(p, "cancelled") /\ UNCHANGED delivery
       \/ task.at = "failed" /\ Answer(p, "error") /\ UNCHANGED delivery
       \/ task.at = "returned" /\ closing /\ Answer(p, "cancelled") /\ UNCHANGED delivery
       \/ /\ task.at = "returned" /\ ~closing
          /\ request' = [request EXCEPT ![p] = "delivering"]
          /\ delivery' = [of |-> p, at |-> "created", cancel |-> FALSE]
          /\ UNCHANGED <<queue, pending>>
    /\ UNCHANGED <<listed, closing, closer, closes, steer, engine, delivered, faults, cancels>>

\* session_update: written in one go, then drained as the client reads.
Deliver ==
    /\ delivery.at = "created" /\ ~delivery.cancel
    /\ delivery' = [delivery EXCEPT !.at = "sent"]
    /\ delivered' = Append(delivered, delivery.of)
    /\ UNCHANGED <<listed, queue, closing, closer, task, engine, faults, cancels, requests>>

Drained ==
    /\ delivery.at = "sent" /\ ~delivery.cancel
    /\ \/ delivery' = [delivery EXCEPT !.at = "returned"] /\ UNCHANGED faults
       \/ delivery' = [delivery EXCEPT !.at = "failed"] /\ Fault
    /\ UNCHANGED <<listed, queue, closing, closer, task, engine, delivered, cancels, requests>>

DeliveryCancelled ==
    /\ Live(delivery) /\ delivery.cancel
    /\ delivery' = [delivery EXCEPT !.at = "cancelled"]
    /\ UNCHANGED <<listed, queue, closing, closer, task, engine, delivered, faults, cancels, requests>>

Retract(p) ==
    /\ request[p] = "delivering" /\ p \in pending
    /\ request' = [request EXCEPT ![p] = "retracting"]
    /\ delivery' = [delivery EXCEPT !.cancel = TRUE]
    /\ UNCHANGED <<listed, pending, queue, closing, closer, closes, steer, task, engine, delivered, faults, cancels>>

Delivered(p) ==
    /\ Ended(delivery)
    /\ \/ request[p] = "retracting" /\ Answer(p, "aborted")
       \/ /\ request[p] = "delivering" /\ p \notin pending
          /\ \/ delivery.at = "returned" /\ Answer(p, "end_turn")
             \/ delivery.at = "failed" /\ Answer(p, "error")
             \/ delivery.at = "cancelled" /\ Answer(p, "cancelled")
    /\ delivery' = NoTask
    /\ UNCHANGED <<listed, closing, closer, closes, steer, task, engine, delivered, faults, cancels>>

-----------------------------------------------------------------------------
(* session/cancel, session/steering.                                       *)

Cancel ==
    /\ listed /\ task # NoTask
    /\ cancels < MaxCancels /\ cancels' = cancels + 1
    /\ task' = [task EXCEPT !.cancel = TRUE]
    /\ UNCHANGED <<listed, queue, closing, closer, delivery, engine, delivered, faults, requests>>

Steer(s) ==
    /\ steer[s] = "new"
    /\ steer' = [steer EXCEPT ![s] = IF ~listed \/ closing THEN "not_found"
                                     ELSE IF engine.active THEN "waiting" ELSE "prompt_required"]
    /\ UNCHANGED <<listed, request, pending, queue, closing, closer, closes, task, delivery, engine, delivered, faults, cancels>>

Inject(s) ==
    /\ steer[s] = "waiting" /\ task.at = "turn"
    /\ steer' = [steer EXCEPT ![s] = "injected"]
    /\ UNCHANGED <<listed, request, pending, queue, closing, closer, closes, task, delivery, engine, delivered, faults, cancels>>

-----------------------------------------------------------------------------
(* engine.prompt: its start, and a turn.                                   *)

\* The end of a call settles the steering that no boundary took.
End(at, core) ==
    /\ task' = [task EXCEPT !.at = at]
    /\ engine' = [core EXCEPT !.active = FALSE]
    /\ steer' = [s \in Steers |-> IF steer[s] = "waiting" THEN "prompt_required" ELSE steer[s]]

Outcome == IF task.cancel THEN "cancelled" ELSE "failed"

\* A call cancelled before its first step never runs.
BeginPrompt ==
    /\ task.at = "created"
    /\ \/ task.cancel /\ task' = [task EXCEPT !.at = "cancelled"] /\ UNCHANGED <<engine, steer>>
       \/ /\ ~task.cancel /\ (engine.active \/ engine.closed)
          /\ task' = [task EXCEPT !.at = "failed"] /\ UNCHANGED <<engine, steer>>
       \/ /\ ~task.cancel /\ ~engine.active /\ ~engine.closed
          /\ task' = [task EXCEPT !.at = IF engine.started THEN "turn" ELSE "supervisor"]
          /\ engine' = [engine EXCEPT !.active = TRUE]
          /\ UNCHANGED steer
    /\ UNCHANGED <<listed, request, pending, queue, closing, closer, closes, delivery, delivered, faults, cancels>>

\* A supervisor that did not start is closed and forgotten; one closed in vain stays.
StartSupervisor ==
    /\ task.at = "supervisor"
    /\ \/ /\ ~task.cancel /\ engine.supervisor # "stuck"
          /\ task' = [task EXCEPT !.at = "kernel"]
          /\ engine' = [engine EXCEPT !.supervisor = "up"]
          /\ UNCHANGED <<faults, steer>>
       \/ /\ engine.supervisor # "stuck"
          /\ IF task.cancel THEN UNCHANGED faults ELSE Fault
          /\ End(Outcome, [engine EXCEPT !.supervisor = "none"])
       \/ /\ engine.supervisor = "stuck"
          /\ End(Outcome, engine) /\ UNCHANGED faults
    /\ UNCHANGED <<listed, request, pending, queue, closing, closer, closes, delivery, delivered, cancels>>

\* The harness view is built, and the kernel started in a thread: a cancellation
\* waits for the thread. The view may fail, and leaves the supervisor up.
StartKernel ==
    /\ task.at = "kernel"
    /\ \/ /\ ~task.cancel
          /\ task' = [task EXCEPT !.at = "turn"]
          /\ engine' = [engine EXCEPT !.kernel = "up", !.started = TRUE]
          /\ UNCHANGED <<faults, steer>>
       \/ /\ IF task.cancel THEN UNCHANGED faults ELSE Fault
          /\ task' = [task EXCEPT !.at = "clean"]
          /\ UNCHANGED <<engine, steer>>
       \/ Fault /\ End("failed", engine)
    /\ UNCHANGED <<listed, request, pending, queue, closing, closer, closes, delivery, delivered, cancels>>

\* A start that failed shuts the kernel down and closes the supervisor.
CleanStart ==
    /\ task.at = "clean"
    /\ \/ End(Outcome, [engine EXCEPT !.supervisor = "none", !.kernel = "none"]) /\ UNCHANGED faults
       \/ Fault /\ End("failed", [engine EXCEPT !.supervisor = "stuck", !.kernel = "none"])
    /\ UNCHANGED <<listed, request, pending, queue, closing, closer, closes, delivery, delivered, cancels>>

\* A turn takes as long as it takes, unless it is cancelled; it may swallow that.
EndTurn ==
    /\ task.at = "turn" /\ ~task.cancel
    /\ \/ End("returned", engine) /\ UNCHANGED faults
       \/ Fault /\ End("failed", engine)
    /\ UNCHANGED <<listed, request, pending, queue, closing, closer, closes, delivery, delivered, cancels>>

TurnCancelled ==
    /\ task.at = "turn" /\ task.cancel
    /\ \E at \in {"cancelled", "failed", "returned"} : End(at, engine)
    /\ UNCHANGED <<listed, request, pending, queue, closing, closer, closes, delivery, delivered, faults, cancels>>

-----------------------------------------------------------------------------
(* session/close, and what shutdown does for every session.                *)

Close(c) ==
    /\ closes[c] = "new"
    /\ IF ~listed THEN closes' = [closes EXCEPT ![c] = "not_found"] /\ UNCHANGED <<closing, closer>>
       ELSE /\ closes' = [closes EXCEPT ![c] = "waiting"]
            /\ closing' = TRUE
            /\ closer' = IF closer = "none" THEN "created" ELSE closer
    /\ UNCHANGED <<listed, request, pending, queue, steer, task, delivery, engine, delivered, faults, cancels>>

\* Mutant: only the prompt is cancelled.
BeginCloseOfPrompt ==
    /\ closer = "created"
    /\ closer' = "queued" /\ queue' = Append(queue, CLOSE)
    /\ task' = [task EXCEPT !.cancel = task # NoTask]
    /\ UNCHANGED <<listed, closing, delivery, engine, delivered, faults, cancels, requests>>

BeginClose ==
    /\ closer = "created"
    /\ closer' = "queued" /\ queue' = Append(queue, CLOSE)
    /\ task' = [task EXCEPT !.cancel = task # NoTask]
    /\ delivery' = [delivery EXCEPT !.cancel = delivery # NoTask]
    /\ UNCHANGED <<listed, closing, engine, delivered, faults, cancels, requests>>

\* engine.aclose under the lock.
CloseEngine ==
    /\ closer = "queued" /\ queue[1] = CLOSE
    /\ engine' = [engine EXCEPT !.closed = TRUE]
    /\ closer' = "supervisor"
    /\ UNCHANGED <<listed, queue, closing, task, delivery, delivered, faults, cancels, requests>>

\* _aclose_impl: a supervisor already closed in vain raises what it raised then.
CloseSupervisor ==
    /\ closer = "supervisor"
    /\ \/ /\ engine.supervisor # "stuck"
          /\ engine' = [engine EXCEPT !.supervisor = IF @ = "up" THEN "closed" ELSE @]
          /\ UNCHANGED faults
       \/ /\ IF engine.supervisor = "stuck" THEN UNCHANGED faults ELSE engine.supervisor = "up" /\ Fault
          /\ engine' = [engine EXCEPT !.supervisor = "stuck"]
    /\ closer' = "local"
    /\ UNCHANGED <<listed, queue, closing, task, delivery, delivered, cancels, requests>>

\* _close_local whatever happened before; then the session is forgotten.
CloseLocal ==
    /\ closer = "local"
    /\ engine' = [engine EXCEPT !.kernel = "none"]
    /\ closer' = IF engine.supervisor = "stuck" THEN "failed" ELSE "closed"
    /\ listed' = FALSE /\ queue' = Tail(queue)
    /\ UNCHANGED <<closing, task, delivery, delivered, faults, cancels, requests>>

Closed(c) ==
    /\ closes[c] = "waiting" /\ closer \in {"closed", "failed"}
    /\ closes' = [closes EXCEPT ![c] = closer]
    /\ UNCHANGED <<listed, request, pending, queue, closing, closer, steer, task, delivery, engine, delivered, faults, cancels>>

-----------------------------------------------------------------------------
Handle(p) == LeaveQueue(p) \/ TakeLock(p) \/ Stop(p) \/ Stopped(p) \/ Prompted(p) \/ Retract(p) \/ Delivered(p)
Engine == BeginPrompt \/ StartSupervisor \/ StartKernel \/ CleanStart \/ TurnCancelled
CloseTask == BeginClose \/ CloseEngine \/ CloseSupervisor \/ CloseLocal

Next ==
    \/ NewSession \/ Cancel \/ Deliver \/ Drained \/ DeliveryCancelled \/ EndTurn
    \/ Engine \/ CloseTask
    \/ \E p \in Prompts : Prompt(p) \/ CancelRequest(p) \/ Handle(p)
    \/ \E s \in Steers : Steer(s) \/ Inject(s)
    \/ \E c \in Closers : Close(c) \/ Closed(c)

Spec == Init /\ [][Next]_vars

\* The event loop runs what is ready; a turn, the client and the peers owe nothing.
FairSpec ==
    /\ Spec
    /\ WF_vars(Engine) /\ WF_vars(CloseTask) /\ WF_vars(DeliveryCancelled)
    /\ \A p \in Prompts : WF_vars(Handle(p))
    /\ \A c \in Closers : WF_vars(Closed(c))

-----------------------------------------------------------------------------
(***************************************************************************)
(* The lock is the only thing between two prompts, and between a prompt    *)
(* and the close of its engine: no prompt is refused because another still *)
(* runs or the engine is closed, and the engine is not taken down under a  *)
(* call that is still going (prompt, _close_session, RLMEngine.prompt).    *)
(***************************************************************************)
EngineIsAlone ==
    /\ task.at = "created" => ~engine.active /\ ~engine.closed
    /\ engine.closed => ~Live(task) /\ ~engine.active

(***************************************************************************)
(* What a client is told is so: an answer that ended its turn was sent     *)
(* before, and once a close is over, well or not, no kernel and no prompt  *)
(* runs and nothing is still to be sent (_close_session, _aclose_impl).    *)
(***************************************************************************)
ToldIsSo ==
    /\ \A p \in Prompts : request[p] = "end_turn" => \E i \in DOMAIN delivered : delivered[i] = p
    /\ closer \in {"closed", "failed"} => engine.kernel = "none" /\ delivery = NoTask /\ task = NoTask

(***************************************************************************)
(* Closing a session ends every request of it, though the model may never  *)
(* answer and the client may have stopped reading: prompts are cancelled   *)
(* or refused, steering is settled, and every close gets an answer         *)
(* (close_session, and shutdown after a disconnect).                       *)
(***************************************************************************)
CloseSettles ==
    /\ \A p \in Prompts : (closing /\ request[p] \in Phases \ {"new"}) ~> request[p] \in Answers
    /\ \A s \in Steers : (closing /\ steer[s] = "waiting") ~> steer[s] # "waiting"
    /\ \A c \in Closers : closes[c] = "waiting" ~> closes[c] # "waiting"

(***************************************************************************)
(* A close comes at no call's expense, and nothing said of it is untrue.   *)
(***************************************************************************)
CloseIsOrderly == EngineIsAlone /\ ToldIsSo
=============================================================================
