----------------------------- MODULE AgentTree -----------------------------
(***************************************************************************)
(* The lifecycle of the agents of one session tree: SessionTreeSupervisor  *)
(* (supervisor.py) with as much of RLMEngine.prompt (engine.py) as decides *)
(* when an agent takes its parent's instructions and when its run ends.    *)
(*                                                                         *)
(* Everything runs on one asyncio event loop, so an action is what the     *)
(* code does between two awaits.  Each agent has up to two tasks: a runner *)
(* (_run_child), one per run, and a stop task (_stop_agent), shared by     *)
(* everybody who terminates the agent.  Either may carry out _release_agent*)
(* and its two awaits: the gather over everything the agent owns, and the  *)
(* engine's aclose.                                                        *)
(*                                                                         *)
(* The tree's shape is a parameter: Parent[c] is the agent that may spawn  *)
(* c, so names, ids and the depth limit, which only refuse a spawn, are    *)
(* not in the state.  The status "waiting" (InboxWait) counts as running.  *)
(* Shell jobs, subscriptions and scopes have modules of their own.         *)
(***************************************************************************)
EXTENDS Integers, FiniteSets

CONSTANTS Agents,     \* agents other than the root
          Root,       \* the root agent, which the supervisor does not run
          Parent,     \* Parent[c]: the agent that may spawn c
          Messages,   \* instructions that may be sent, one use each
          MaxCalls,   \* policy.max_subagent_calls
          MaxFaults   \* bound on the cleanup steps that fail

ASSUME TreeConstants ==
    /\ Root \notin Agents
    /\ Parent \in [Agents -> Agents \union {Root}]
    /\ MaxCalls \in Nat
    /\ MaxFaults \in Nat

VARIABLES
    status,      \* _Invocation.status; "unborn" before the spawn
    persistent,  \* _Invocation.persistent
    cap,         \* its capability is in self._capabilities
    runner,      \* where its runner is
    cancelReq,   \* runner.cancel() was called on that runner
    stop,        \* where its stop task is
    term,        \* its parent's release or aclose is terminating it
    err,         \* the current _release_agent collected an error
    engine,      \* _Invocation.engine is not None
    done,        \* its done event is set
    released,    \* _Invocation.released
    fresh,       \* len(inbox) > announced
    letter,      \* letter[m]: the m-th instruction, where it is and for whom
    calls,       \* self._total_calls
    spent,       \* _budget_exhausted: the tree's turns or tokens are used up
    faults,      \* cleanup steps that failed so far
    phase        \* the supervisor: open, closing (aclose) or closed

runVars == <<runner, cancelReq, engine>>
stopVars == <<stop, term, err>>
vars == <<status, persistent, cap, runner, cancelReq, stop, term, err, engine,
          done, released, fresh, letter, calls, spent, faults, phase>>

Terminal == {"completed", "failed", "cancelled"}
Active == {"starting", "running"}
Spawned(c) == status[c] # "unborn"
Children(p) == {c \in Agents : Parent[c] = p}

\* Its capability resolves: the root's until aclose clears the table.
Live(p) == IF p = Root THEN phase # "closed" ELSE cap[p]

\* Where an instruction is: unsent, queued in instructions, taken by a run,
\* or failed; with its kind and whether agent.delivery_failed was posted.
Unsent == [at |-> "unsent", to |-> Root, kind |-> "queue", reported |-> FALSE]
Queued(c) == {m \in Messages : letter[m].at = "queued" /\ letter[m].to = c}
----------------------------------------------------------------------------
Wakeable(st, a) == st[a] = "idle" /\ ~spent

\* _wake_agent for every agent of W that is idle while the budget lasts, on top
\* of statuses st, runners rn, cancellation flags cr and done events dn.  With a
\* spent budget an idle agent stays idle; its _fail_instructions then finds none
\* (IdleHasNothingToDo).
Wake(W, st, rn, cr, dn) ==
    LET up == {a \in W \intersect Agents : Wakeable(st, a)}
    IN  /\ status' = [a \in Agents |-> IF a \in up THEN "starting" ELSE st[a]]
        /\ runner' = [a \in Agents |-> IF a \in up THEN "scheduled" ELSE rn[a]]
        /\ cancelReq' = [a \in Agents |-> IF a \in up THEN FALSE ELSE cr[a]]
        /\ done' = [a \in Agents |-> IF a \in up THEN FALSE ELSE dn[a]]

\* The parent of c, if an event from c still reaches it (_publish).
Reached(c) == {p \in {Parent[c]} : Live(p)}

\* _fail_instructions(c): every queued instruction fails, and the parent hears.
Failed(c) ==
    [m \in Messages |->
        IF m \in Queued(c)
          THEN [letter[m] EXCEPT !.at = "failed", !.reported = Live(Parent[c])]
          ELSE letter[m]]

\* take_instructions(c) for the instructions in S: nothing once the budget is spent.
Taken(S) ==
    [m \in Messages |->
        IF m \in S /\ ~spent THEN [letter[m] EXCEPT !.at = "delivered"]
                             ELSE letter[m]]

Steers(c) == {m \in Queued(c) : letter[m].kind = "steer"}

StartReleaseSparesIdle(c) ==  \* a bug: persistent children outlive their parent
    /\ letter' = Failed(c)
    /\ cap' = [cap EXCEPT ![c] = FALSE]
    /\ err' = [err EXCEPT ![c] = FALSE]
    /\ term' = [d \in Agents |->
                  IF d \in Children(c) /\ status[d] \in Active THEN "due" ELSE term[d]]

\* The first, synchronous part of _release_agent(c).
StartRelease(c) ==
    /\ letter' = Failed(c)
    /\ cap' = [cap EXCEPT ![c] = FALSE]
    /\ err' = [err EXCEPT ![c] = FALSE]
    /\ term' = [d \in Agents |->
                  IF d \in Children(c) /\ Spawned(d) THEN "due" ELSE term[d]]

\* Who is told, and woken, when c's instructions fail.
ToldOfFailure(c) == IF Queued(c) = {} THEN {} ELSE Reached(c)
----------------------------------------------------------------------------
Init ==
    /\ status = [a \in Agents |-> "unborn"]
    /\ persistent = [a \in Agents |-> FALSE]
    /\ cap = [a \in Agents |-> FALSE]
    /\ runner = [a \in Agents |-> "none"]
    /\ cancelReq = [a \in Agents |-> FALSE]
    /\ stop = [a \in Agents |-> "none"]
    /\ term = [a \in Agents |-> "none"]
    /\ err = [a \in Agents |-> FALSE]
    /\ engine = [a \in Agents |-> FALSE]
    /\ done = [a \in Agents |-> FALSE]
    /\ released = [a \in Agents |-> FALSE]
    /\ fresh = [a \in Agents |-> FALSE]
    /\ letter = [m \in Messages |-> Unsent]
    /\ calls = 0
    /\ spent = FALSE
    /\ faults = 0
    /\ phase = "open"

\* _caller: p's capability is live and one of its cells is open, which for an
\* agent the supervisor runs means that its engine is inside a prompt.
MayCall(p) ==
    /\ phase = "open"
    /\ p # Root => cap[p] /\ runner[p] = "prompt"

\* agent.spawn
Spawn(c, keep) ==
    /\ MayCall(Parent[c])
    /\ ~Spawned(c)
    /\ calls < MaxCalls
    /\ ~spent
    /\ calls' = calls + 1
    /\ status' = [status EXCEPT ![c] = "starting"]
    /\ persistent' = [persistent EXCEPT ![c] = keep]
    /\ cap' = [cap EXCEPT ![c] = TRUE]
    /\ runner' = [runner EXCEPT ![c] = "scheduled"]
    /\ UNCHANGED <<cancelReq, stopVars, engine, done, released, fresh, letter,
                   spent, faults, phase>>

\* agent.send and agent.steer
Send(m, c, kind) ==
    /\ MayCall(Parent[c])
    /\ Spawned(c)
    /\ status[c] \notin Terminal
    /\ ~spent
    /\ letter[m].at = "unsent"
    /\ letter' = [letter EXCEPT ![m] =
                    [at |-> "queued", to |-> c, kind |-> kind, reported |-> FALSE]]
    /\ Wake({c}, status, runner, cancelReq, done)
    /\ UNCHANGED <<persistent, cap, stopVars, engine, released, fresh, calls,
                   spent, faults, phase>>

\* agent.report: a message into the parent's inbox (refused when that is full).
Report(c) ==
    /\ c \in Agents
    /\ MayCall(c)
    /\ Reached(c) \ {Root} # {}
    /\ fresh' = [a \in Agents |-> fresh[a] \/ a \in Reached(c)]
    /\ Wake(Reached(c), status, runner, cancelReq, done)
    /\ UNCHANGED <<persistent, cap, stopVars, engine, released, letter, calls,
                   spent, faults, phase>>

\* A watch or a shell job posts an event to its owner's inbox.
PostEvent(c) ==
    /\ cap[c]
    /\ phase = "open"
    /\ fresh' = [fresh EXCEPT ![c] = TRUE]
    /\ Wake({c}, status, runner, cancelReq, done)
    /\ UNCHANGED <<persistent, cap, stopVars, engine, released, letter, calls,
                   spent, faults, phase>>

\* record_call: a model call of any agent uses up the tree's turns or tokens.
Spend ==
    /\ phase # "closed"
    /\ ~spent
    /\ spent' = TRUE
    /\ UNCHANGED <<status, persistent, cap, runVars, stopVars, done, released,
                   fresh, letter, calls, faults, phase>>
----------------------------------------------------------------------------
\* _run_child up to engine.prompt: a first run makes the engine and prompts it
\* with the task, a later one takes every instruction.
StartRun(c) ==
    /\ runner[c] = "scheduled"
    /\ ~cancelReq[c]
    /\ runner' = [runner EXCEPT ![c] = "prompt"]
    /\ status' = [status EXCEPT ![c] = "running"]
    /\ engine' = [engine EXCEPT ![c] = TRUE]
    /\ letter' = IF engine[c] THEN Taken(Queued(c)) ELSE letter
    /\ UNCHANGED <<persistent, cap, cancelReq, stopVars, done, released, fresh,
                   calls, spent, faults, phase>>

\* A task cancelled before its first step ends without running any of its code.
DropRun(c) ==
    /\ runner[c] = "scheduled"
    /\ cancelReq[c]
    /\ runner' = [runner EXCEPT ![c] = "done"]
    /\ UNCHANGED <<status, persistent, cap, cancelReq, stopVars, engine, done,
                   released, fresh, letter, calls, spent, faults, phase>>

\* The top of _run_loop while the budget lasts: steering instructions and the
\* inbox notice go into the conversation before the next model call.
TurnBoundary(c) ==
    /\ runner[c] = "prompt"
    /\ ~cancelReq[c]
    /\ ~spent
    /\ letter' = Taken(Steers(c))
    /\ fresh' = [fresh EXCEPT ![c] = FALSE]
    /\ UNCHANGED <<status, persistent, cap, runVars, stopVars, done, released,
                   calls, spent, faults, phase>>

\* An answer without tool calls, or a native wait that ends, takes queued
\* instructions too; the run then goes on.
TakeQueue(c) ==
    /\ runner[c] = "prompt"
    /\ ~cancelReq[c]
    /\ ~spent
    /\ Queued(c) # {}
    /\ letter' = Taken(Queued(c))
    /\ UNCHANGED <<status, persistent, cap, runVars, stopVars, done, released,
                   fresh, calls, spent, faults, phase>>

RunAgainForInstructions(c) == Queued(c) # {}  \* a bug: inbox events are overlooked

\* A run that ends idle starts another one for what came in during its last steps.
RunAgain(c) == Queued(c) # {} \/ fresh[c]

\* engine.prompt returns to a persistent agent's runner, which ends in the same
\* step.  Only the answer path emptied the queue first: a cap, the completion
\* token budget or a failed compaction ends the loop with instructions pending.
GoIdle(c) ==
    /\ runner[c] = "prompt"
    /\ ~cancelReq[c]
    /\ persistent[c]
    /\ letter' = IF spent THEN Failed(c) ELSE letter
    /\ fresh' = [a \in Agents |-> fresh[a] \/ a \in Reached(c)]
    /\ Wake(Reached(c) \union (IF RunAgain(c) THEN {c} ELSE {}),
            [status EXCEPT ![c] = "idle"], [runner EXCEPT ![c] = "done"],
            cancelReq, [done EXCEPT ![c] = TRUE])
    /\ UNCHANGED <<persistent, cap, stopVars, engine, released, calls, spent,
                   faults, phase>>

\* engine.prompt returns to a one-shot agent's runner, raises, or is cancelled:
\* the runner records why and starts releasing the agent.
EndRun(c, why) ==
    /\ runner[c] = "prompt"
    /\ IF cancelReq[c] THEN why = "cancelled"
                       ELSE why = "failed" \/ (why = "completed" /\ ~persistent[c])
    /\ StartRelease(c)
    /\ fresh' = [a \in Agents |-> fresh[a] \/ a \in ToldOfFailure(c)]
    /\ Wake(ToldOfFailure(c), [status EXCEPT ![c] = why],
            [runner EXCEPT ![c] = "gather"], cancelReq, done)
    /\ UNCHANGED <<persistent, stop, engine, released, calls, spent, faults, phase>>
----------------------------------------------------------------------------
\* _terminate(c): join the stop task there is, or make one.
Joinable(c) == stop[c] \in {"scheduled", "joining", "gather", "closing"}

\* agent.cancel, by the parent's cell.
Cancel(c) ==
    /\ MayCall(Parent[c])
    /\ Spawned(c)
    /\ ~released[c]
    /\ ~Joinable(c)
    /\ stop' = [stop EXCEPT ![c] = "scheduled"]
    /\ UNCHANGED <<status, persistent, cap, runVars, term, err, done, released,
                   fresh, letter, calls, spent, faults, phase>>

\* The same on behalf of the parent's release, or of aclose for root's children.
JoinStop(c) ==
    /\ term[c] = "due"
    /\ ~released[c]
    /\ term' = [term EXCEPT ![c] = "joined"]
    /\ stop' = IF Joinable(c) THEN stop ELSE [stop EXCEPT ![c] = "scheduled"]
    /\ UNCHANGED <<status, persistent, cap, runVars, err, done, released, fresh,
                   letter, calls, spent, faults, phase>>

RunnerSettling(c) == runner[c] \in {"done", "gather", "closing"}  \* a bug

\* gather(child.runner) returns at once, or has returned.
RunnerGone(c) == runner[c] = "done"

StopCancelsRunning(c) ==  \* a bug: an agent that is starting is not cancelled
    /\ stop[c] = "scheduled"
    /\ ~RunnerGone(c)
    /\ stop' = [stop EXCEPT ![c] = "joining"]
    /\ cancelReq' = [cancelReq EXCEPT ![c] = @ \/ status[c] = "running"]
    /\ UNCHANGED <<status, persistent, cap, runner, term, err, engine, done,
                   released, fresh, letter, calls, spent, faults, phase>>

\* The stop task's first step while the runner is not done: cancel it, unless it
\* is already releasing the agent, and wait for it.
StopCancelsRunner(c) ==
    /\ stop[c] = "scheduled"
    /\ ~RunnerGone(c)
    /\ stop' = [stop EXCEPT ![c] = "joining"]
    /\ cancelReq' = [cancelReq EXCEPT ![c] = @ \/ status[c] \in Active]
    /\ UNCHANGED <<status, persistent, cap, runner, term, err, engine, done,
                   released, fresh, letter, calls, spent, faults, phase>>

\* ... and once the runner is done: nothing is left to do, or the release is.
StopFindsReleased(c) ==
    /\ stop[c] \in {"scheduled", "joining"}
    /\ RunnerGone(c)
    /\ released[c]
    /\ stop' = [stop EXCEPT ![c] = "done"]
    /\ UNCHANGED <<status, persistent, cap, runVars, term, err, done, released,
                   fresh, letter, calls, spent, faults, phase>>

StopReleases(c) ==
    /\ stop[c] \in {"scheduled", "joining"}
    /\ RunnerGone(c)
    /\ ~released[c]
    /\ stop' = [stop EXCEPT ![c] = "gather"]
    /\ StartRelease(c)
    /\ fresh' = [a \in Agents |-> fresh[a] \/ a \in ToldOfFailure(c)]
    /\ Wake(ToldOfFailure(c),
            [status EXCEPT ![c] = IF @ \in Terminal THEN @ ELSE "cancelled"],
            runner, cancelReq, done)
    /\ UNCHANGED <<persistent, engine, released, calls, spent, faults, phase>>
----------------------------------------------------------------------------
\* Termination of d, on behalf of a release or of aclose, has come to an end.
Settled(d) ==
    \/ term[d] = "none"
    \/ term[d] = "due" /\ released[d]
    \/ term[d] = "joined" /\ ~Joinable(d)

\* _release_agent's gather over everything c owns is over.  It keeps the errors
\* of the terminations and of closing c's jobs, subscriptions and scopes.
GatherDone(c, ok) ==
    /\ "gather" \in {runner[c], stop[c]}
    /\ \A d \in Children(c) : Settled(d)
    /\ ok \/ faults < MaxFaults
    /\ faults' = IF ok THEN faults ELSE faults + 1
    /\ err' = [err EXCEPT ![c] = ~ok \/ \E d \in Children(c) :
                                            term[d] # "none" /\ ~released[d]]
    /\ term' = [d \in Agents |-> IF d \in Children(c) THEN "none" ELSE term[d]]
    /\ runner' = [runner EXCEPT ![c] = IF @ = "gather" THEN "closing" ELSE @]
    /\ stop' = [stop EXCEPT ![c] = IF @ = "gather" THEN "closing" ELSE @]
    /\ UNCHANGED <<status, persistent, cap, cancelReq, engine, done, released,
                   fresh, letter, calls, spent, phase>>

\* released = not errors
Clean(c, ok) == ok /\ ~err[c]

\* engine.aclose ends, well or not, and with it _release_agent and its caller:
\* the runner announces agent.completed, the stop task passes an error on.
CloseEngine(c, ok) ==
    /\ "closing" \in {runner[c], stop[c]}
    /\ ok \/ (engine[c] /\ faults < MaxFaults)
    /\ faults' = IF ok THEN faults ELSE faults + 1
    /\ engine' = [engine EXCEPT ![c] = @ /\ ~ok]
    /\ released' = [released EXCEPT ![c] = Clean(c, ok)]
    /\ LET told == IF runner[c] = "closing" THEN Reached(c) ELSE {}
       IN  /\ fresh' = [a \in Agents |-> fresh[a] \/ a \in told]
           /\ Wake(told, status, [runner EXCEPT ![c] = "done"], cancelReq,
                   [done EXCEPT ![c] = TRUE])
    /\ stop' = [stop EXCEPT ![c] = IF @ # "closing" THEN @
                                   ELSE IF Clean(c, ok) THEN "done" ELSE "failed"]
    /\ UNCHANGED <<persistent, cap, term, err, letter, calls, spent, phase>>

\* aclose: no new operation, and the root's children are terminated.
Close ==
    /\ phase = "open"
    /\ phase' = "closing"
    /\ term' = [d \in Agents |->
                  IF d \in Children(Root) /\ Spawned(d) THEN "due" ELSE term[d]]
    /\ UNCHANGED <<status, persistent, cap, runVars, stop, err, done, released,
                   fresh, letter, calls, spent, faults>>

\* Every termination is over: the tasks that are left are cancelled, the
\* capabilities and invocations cleared.  Of the agents only a stop task that
\* has yet to notice a finished release can be left (ClosedIsQuiet).
CloseDone ==
    /\ phase = "closing"
    /\ \A d \in Children(Root) : Settled(d)
    /\ phase' = "closed"
    /\ cap' = [a \in Agents |-> FALSE]
    /\ stop' = [a \in Agents |-> 
                  IF stop[a] \in {"scheduled", "joining"} THEN "done" ELSE stop[a]]
    /\ UNCHANGED <<status, persistent, runVars, term, err, done, released, fresh,
                   letter, calls, spent, faults>>

Next ==
    \/ Spend \/ Close \/ CloseDone
    \/ \E c \in Agents :
         \/ \E keep \in BOOLEAN : Spawn(c, keep)
         \/ \E m \in Messages, kind \in {"queue", "steer"} : Send(m, c, kind)
         \/ Report(c) \/ PostEvent(c) \/ Cancel(c)
         \/ StartRun(c) \/ DropRun(c) \/ TurnBoundary(c) \/ TakeQueue(c)
         \/ GoIdle(c)
         \/ \E why \in Terminal : EndRun(c, why)
         \/ JoinStop(c) \/ StopCancelsRunner(c) \/ StopFindsReleased(c)
         \/ StopReleases(c)
         \/ \E ok \in BOOLEAN : GatherDone(c, ok) \/ CloseEngine(c, ok)

Spec == Init /\ [][Next]_vars

\* The event loop runs every task that is ready, a cancelled prompt settles (the
\* kernel is interrupted, then restarted), and engine.aclose ends.  Nothing
\* obliges a prompt to return, a caller to call or the session to be closed.
Fairness ==
    /\ \A c \in Agents :
         /\ WF_vars(StartRun(c)) /\ WF_vars(DropRun(c))
         /\ WF_vars(EndRun(c, "cancelled"))
         /\ WF_vars(JoinStop(c))
         /\ WF_vars(StopCancelsRunner(c) \/ StopFindsReleased(c) \/ StopReleases(c))
         /\ WF_vars(\E ok \in BOOLEAN : GatherDone(c, ok))
         /\ WF_vars(\E ok \in BOOLEAN : CloseEngine(c, ok))
    /\ WF_vars(CloseDone)

FairSpec == Spec /\ Fairness
----------------------------------------------------------------------------
\* No wakeup is lost: whenever an agent rests idle, every instruction sent to it
\* was taken or failed, and an inbox event it has not seen waits only because
\* the budget is spent.  Instructions and events race the end of a run, which
\* looks at both only after its last await (_run_child, _wake_agent).
IdleHasNothingToDo ==
    \A c \in Agents : status[c] = "idle" =>
        /\ Queued(c) = {}
        /\ fresh[c] => spent

\* An accepted instruction is not left behind by an agent that has ended, and
\* one that failed was reported to the parent, unless the parent had ended too
\* (docs/python-api.md: "An accepted instruction that cannot be delivered ... is
\* recorded ... and reported to the parent").
NoInstructionLost ==
    \A m \in Messages :
        LET c == letter[m].to
        IN  /\ letter[m].at = "queued" => cap[c]
            /\ letter[m].at = "failed" /\ Live(Parent[c]) => letter[m].reported

\* The runner and the stop task never release one agent at the same time, and
\* an agent that is being released does not run.
OneReleaseAtATime ==
    \A c \in Agents : stop[c] \in {"gather", "closing"} => runner[c] = "done"

\* A release that reports success is complete: capability revoked, engine
\* closed, no run left, and the same for every agent below.
ReleasedSubtree ==
    \A c \in Agents : released[c] =>
        /\ ~cap[c] /\ ~engine[c] /\ runner[c] = "done"
        /\ \A d \in Children(c) : Spawned(d) => released[d]

\* A release that fails ends the agents below all the same: once its gather is
\* over, no child runs or will, and nor does any agent once aclose has returned
\* (_release_agent collects the errors of the terminations it has awaited).
NoneOutlivesItsParent ==
    \A c \in Agents :
        LET p == Parent[c]
            Over == IF p = Root THEN phase = "closed"
                    ELSE status[p] \in Terminal /\ "gather" \notin {runner[p], stop[p]}
        IN  Spawned(c) /\ Over => status[c] \in Terminal /\ runner[c] = "done"

\* wait() and result() see an agent as ended only when no run of it is going on
\* or about to start.
DoneMeansResting ==
    \A c \in Agents : done[c] => status[c] = "idle" \/ status[c] \in Terminal

\* After aclose nothing of the tree still runs, even if cleanup failed: its last
\* sweep over self._tasks finds no agent to cancel.
ClosedIsQuiet ==
    phase = "closed" => \A c \in Agents :
        /\ runner[c] \in {"none", "done"} /\ ~Joinable(c)
        /\ Spawned(c) => released[c] \/ faults > 0

\* Cancelling an agent comes to an end, whatever it is doing, and so does aclose.
StopCompletes ==
    /\ \A c \in Agents : Joinable(c) ~> ~Joinable(c)
    /\ (phase = "closing") ~> (phase = "closed")

\* "A parent's end ends all its descendants" (docs/python-api.md), also one that
\* was being spawned, woken or cancelled, and even when the release fails.
NoOrphans ==
    \A c \in Agents :
        (Spawned(c) /\ ~Live(Parent[c])) ~> (status[c] \in Terminal /\ runner[c] = "done")

\* No wakeup and no instruction is missed: an agent rests only with nothing to do, and
\* what was accepted for it is delivered or reported as undelivered.
NothingIsMissed == IdleHasNothingToDo /\ NoInstructionLost

\* Ending an agent is orderly, in whatever order its runner, its stop task, its
\* parent's and aclose come to it.
EndsAreOrderly ==
    /\ OneReleaseAtATime /\ ReleasedSubtree /\ NoneOutlivesItsParent
    /\ DoneMeansResting /\ ClosedIsQuiet
============================================================================
