---------------------------- MODULE Conversation ----------------------------
(***************************************************************************)
(* One agent's prompts and what reaches its conversation meanwhile:        *)
(* RLMEngine.prompt, steer and the native wait (engine.py), with the       *)
(* supervisor's inbox, its unread notice and wait_for_events               *)
(* (supervisor.py).                                                        *)
(*                                                                         *)
(* A prompt's task is in one of a few awaits ("turn"); users steer it and  *)
(* cancel it, agents and jobs post events, and the kernel restarts, during *)
(* any of them.  A prompt that fails or is cancelled is rolled back: the   *)
(* conversation is put back, and with it what has to survive.              *)
(*                                                                         *)
(* The conversation is the sequence of what was put into it between model  *)
(* replies; replies and tool results are left out, and a compaction, which *)
(* keeps a message verbatim or in a summary, changes nothing here.         *)
(***************************************************************************)
EXTENDS Naturals, FiniteSets, Sequences

CONSTANTS Steers,     \* steering messages, each with a messageId
          Notices,    \* kernel recovery notices, each raised once
          MaxEvents   \* bound on the events posted to the inbox

ASSUME ConversationConstants == MaxEvents \in Nat

VARIABLES
    turn,        \* the prompt's await: none, starting, model, tool, wait, settled
    stop,        \* how the last prompt stopped: none, done, short or rolledback
    broken,      \* a write to the ledger failed: no more prompts
    context,     \* the conversation
    saved,       \* messages_before of the prompt
    queue,       \* _steering_pending
    applied,     \* _steering_applied
    receipt,     \* the answer to a steering message: none, pending, injected, refused
    ready,       \* _steering_ready is set
    raised,      \* notices the kernel tool has raised so far ...
    repl,        \* ... which the engine has not taken,
    pending,     \* _pending_kernel_notices and
    delivered,   \* _prompt_kernel_notices
    inbox,       \* the events, each loud or quiet (shell.completed), read or unread
    announced,   \* how many events, loud events and unread ones the agent was
                 \* last told of, and how many a wait has looked at
    changed,     \* the wait's event is set
    alarm        \* the wait's timer has fired

promptVars == <<turn, stop, broken, context, saved>>
steerVars == <<queue, applied, receipt, ready>>
kernelVars == <<raised, repl, pending, delivered>>
inboxVars == <<inbox, announced>>
waitVars == <<changed, alarm>>
vars == <<promptVars, steerVars, kernelVars, inboxVars, waitVars>>

Active == turn # "none"
Items(kind, s) == [i \in DOMAIN s |-> <<kind, s[i]>>]
Events == DOMAIN inbox
Loud == {i \in Events : inbox[i].loud}
Unread == Cardinality({i \in Loud : ~inbox[i].read})

\* ready() of wait_for_events; only agents below the root get instructions.
Ready ==
    \/ Len(inbox) > announced.all
    \/ \E i \in Events : i > announced.quiet /\ ~inbox[i].loud /\ ~inbox[i].read

\* inbox_notice: told when the number of unread events changed or more came.
UnreadNotice ==
    IF Unread > 0 /\ (Cardinality(Loud) > announced.loud \/ Unread # announced.unread)
      THEN << <<"unread", Unread>> >> ELSE << >>
----------------------------------------------------------------------------
Init ==
    /\ turn = "none"
    /\ stop = "none"
    /\ broken = FALSE
    /\ context = << >>
    /\ saved = << >>
    /\ queue = << >>
    /\ applied = << >>
    /\ receipt = [m \in Steers |-> "none"]
    /\ ready = FALSE
    /\ raised = {}
    /\ repl = << >>
    /\ pending = << >>
    /\ delivered = << >>
    /\ inbox = << >>
    /\ announced = [all |-> 0, loud |-> 0, unread |-> 0, quiet |-> 0]
    /\ changed = FALSE
    /\ alarm = FALSE

\* prompt up to its first await (the start of the kernel, or a host's refinement).
Begin ==
    /\ ~Active
    /\ ~broken
    /\ turn' = "starting"
    /\ stop' = "none"
    /\ saved' = context
    /\ applied' = << >>
    /\ delivered' = << >>
    /\ UNCHANGED <<broken, context, queue, receipt, ready, raised, repl, pending,
                   inboxVars, waitVars>>

\* steer: a message whose ID is known shares its receipt, and an idle engine
\* refuses without a trace, so a refused message may be sent again.
SteerUnseen(m) ==  \* a bug: the wait is not woken
    /\ Active
    /\ receipt[m] \in {"none", "refused"}
    /\ queue' = Append(queue, m)
    /\ receipt' = [receipt EXCEPT ![m] = "pending"]
    /\ UNCHANGED <<promptVars, applied, ready, kernelVars, inboxVars, waitVars>>

Steer(m) ==
    /\ Active
    /\ receipt[m] \in {"none", "refused"}
    /\ queue' = Append(queue, m)
    /\ receipt' = [receipt EXCEPT ![m] = "pending"]
    /\ ready' = TRUE
    /\ UNCHANGED <<promptVars, applied, kernelVars, inboxVars, waitVars>>

\* _apply_steering for the first n messages of the queue.
Inject(n) ==
    /\ queue' = SubSeq(queue, n + 1, Len(queue))
    /\ applied' = applied \o SubSeq(queue, 1, n)
    /\ receipt' = [m \in Steers |->
                     IF \E i \in 1 .. n : queue[i] = m THEN "injected" ELSE receipt[m]]

Steering(n) == Items("steer", SubSeq(queue, 1, n))
Recovery == Items("kernel", pending \o repl)

\* _deliver_kernel_notices
DeliverRecovery ==
    /\ delivered' = delivered \o pending \o repl
    /\ pending' = << >>
    /\ repl' = << >>
    /\ UNCHANGED raised

\* The top of _run_loop, also where a reply lets the loop go on without an await:
\* steering, kernel notices and the inbox notice, then the model is called.
Boundary ==
    /\ turn \in {"starting", "model", "settled"}
    /\ Inject(Len(queue))
    /\ ready' = FALSE
    /\ DeliverRecovery
    /\ context' = context \o Steering(Len(queue)) \o Recovery \o UnreadNotice
    /\ announced' = [announced EXCEPT !.all = Len(inbox), !.loud = Cardinality(Loud),
                                      !.unread = Unread]
    /\ turn' = "model"
    /\ UNCHANGED <<stop, broken, saved, inbox, waitVars>>

\* The reply calls a tool; the tool's end is logged, then a compaction may follow.
CallTool ==
    /\ turn = "model"
    /\ turn' = "tool"
    /\ UNCHANGED <<stop, broken, context, saved, steerVars, kernelVars, inboxVars,
                   waitVars>>

ToolDone ==
    /\ turn = "tool"
    /\ turn' = "settled"
    /\ DeliverRecovery
    /\ context' = context \o Recovery
    /\ UNCHANGED <<stop, broken, saved, steerVars, inboxVars, waitVars>>

\* The reply calls wait.  Without anything new the agent waits, or, with a
\* timeout of 0, is told so at once.
WaitBegin(block) ==
    /\ turn = "model"
    /\ block => ~Ready
    /\ changed' = FALSE
    /\ alarm' = FALSE
    /\ turn' = IF block THEN "wait" ELSE "settled"
    /\ announced' = IF block THEN announced ELSE [announced EXCEPT !.quiet = Len(inbox)]
    /\ UNCHANGED <<stop, broken, context, saved, steerVars, kernelVars, inbox>>

\* wait_for_events resumes: its event is set, or its timer has fired.
WaitWoken ==
    /\ turn = "wait"
    /\ changed
    /\ turn' = "settled"
    /\ announced' = [announced EXCEPT !.quiet = Len(inbox)]
    /\ UNCHANGED <<stop, broken, context, saved, steerVars, kernelVars, inbox, waitVars>>

WaitTimedOut ==
    /\ turn = "wait"
    /\ alarm
    /\ turn' = "settled"
    /\ UNCHANGED <<stop, broken, context, saved, steerVars, kernelVars, inboxVars,
                   waitVars>>

\* Cancelling wait_for_events may come too late to stop it (before Python 3.12).
WaitCancelled ==
    \/ UNCHANGED announced
    \/ turn = "wait" /\ changed /\ announced' = [announced EXCEPT !.quiet = Len(inbox)]

\* Steering ends the wait first.
WaitSteered ==
    /\ turn = "wait"
    /\ ready
    /\ turn' = "settled"
    /\ WaitCancelled
    /\ UNCHANGED <<stop, broken, context, saved, steerVars, kernelVars, inbox, waitVars>>

\* prompt's finally: what is still queued is refused, to be prompted anew.
EndPrompt(q, r) ==
    /\ turn' = "none"
    /\ queue' = << >>
    /\ receipt' = [m \in Steers |->
                     IF \E i \in DOMAIN q : q[i] = m THEN "refused" ELSE r[m]]
    /\ ready' = FALSE
    /\ saved' = << >>

\* A reply without tool calls ends the prompt unless a steering message waits.

Answer ==
    /\ turn = "model"
    /\ queue = << >>
    /\ stop' = "done"
    /\ EndPrompt(queue, receipt)
    /\ UNCHANGED <<broken, context, applied, kernelVars, inboxVars, waitVars>>

\* A spent budget, or a conversation that cannot be compacted, stops it anyway.
StopShort ==
    /\ turn \in {"starting", "model", "settled"}
    /\ stop' = "short"
    /\ EndPrompt(queue, receipt)
    /\ UNCHANGED <<broken, context, applied, kernelVars, inboxVars, waitVars>>

\* _prompt's except: the conversation as it was, and the steering that was applied.
RestoredBare(done) == saved  \* a bug: injected messages go with the rest
Restored(done) == saved \o Items("steer", done)

RecoveryAgain == pending \o delivered

Rollback(done, q, r) ==
    /\ stop' = "rolledback"
    /\ context' = Restored(done)
    /\ pending' = RecoveryAgain
    /\ EndPrompt(q, r)
    /\ UNCHANGED <<raised, repl, delivered>>

\* The prompt is cancelled (a tool is interrupted and settles first) or fails.
Fail ==
    /\ Active
    /\ Rollback(applied, queue, receipt)
    /\ WaitCancelled
    /\ UNCHANGED <<broken, applied, inbox, waitVars>>

\* The ledger cannot be written while the n + 1st steering message is logged.
WriteFails(n) ==
    /\ turn \in {"starting", "model", "settled"}
    /\ n < Len(queue)
    /\ broken' = TRUE
    /\ applied' = applied \o SubSeq(queue, 1, n)
    /\ Rollback(applied \o SubSeq(queue, 1, n), SubSeq(queue, n + 1, Len(queue)),
                [m \in Steers |-> IF \E i \in 1 .. n : queue[i] = m THEN "injected"
                                                                  ELSE receipt[m]])
    /\ UNCHANGED <<inboxVars, waitVars>>
----------------------------------------------------------------------------
\* The kernel restarts or recovers during a cell: take_recovery_notices.
Recover(n) ==
    /\ turn = "tool"
    /\ n \notin raised
    /\ raised' = raised \union {n}
    /\ repl' = Append(repl, n)
    /\ UNCHANGED <<promptVars, steerVars, pending, delivered, inboxVars, waitVars>>

\* _publish into this agent's inbox, at any time.
PublishSilently(loud) ==  \* a bug: agent.changed is not set
    /\ Len(inbox) < MaxEvents
    /\ inbox' = Append(inbox, [loud |-> loud, read |-> FALSE])
    /\ UNCHANGED <<promptVars, steerVars, kernelVars, announced, waitVars>>

Publish(loud) ==
    /\ Len(inbox) < MaxEvents
    /\ inbox' = Append(inbox, [loud |-> loud, read |-> FALSE])
    /\ changed' = TRUE
    /\ UNCHANGED <<promptVars, steerVars, kernelVars, announced, alarm>>

\* rlm.inbox.read, or shell.result for a completion, in a cell.
Read(i) ==
    /\ turn = "tool"
    /\ i \in Events
    /\ ~inbox[i].read
    /\ inbox' = [inbox EXCEPT ![i].read = TRUE]
    /\ UNCHANGED <<promptVars, steerVars, kernelVars, announced, waitVars>>

Alarm ==
    /\ turn = "wait"
    /\ ~alarm
    /\ alarm' = TRUE
    /\ UNCHANGED <<promptVars, steerVars, kernelVars, inboxVars, changed>>

Next ==
    \/ Begin \/ Boundary \/ CallTool \/ ToolDone
    \/ \E block \in BOOLEAN : WaitBegin(block)
    \/ WaitWoken \/ WaitTimedOut \/ WaitSteered
    \/ Answer \/ StopShort \/ Fail \/ Alarm
    \/ \E n \in 0 .. Cardinality(Steers) : WriteFails(n)
    \/ \E m \in Steers : Steer(m)
    \/ \E n \in Notices : Recover(n)
    \/ \E loud \in BOOLEAN : Publish(loud)
    \/ \E i \in 1 .. MaxEvents : Read(i)

Spec == Init /\ [][Next]_vars

\* The event loop runs ready tasks, model calls are retried a bounded number of
\* times and cells have a time limit.  The wait's timer is not relied upon.
Fairness ==
    /\ WF_vars(turn \in {"starting", "settled"} /\ Boundary)
    /\ WF_vars(turn = "model" /\ (Boundary \/ CallTool \/ Answer \/ StopShort
                                    \/ \E block \in BOOLEAN : WaitBegin(block)))
    /\ WF_vars(ToolDone) /\ WF_vars(WaitWoken) /\ WF_vars(WaitSteered)

FairSpec == Spec /\ Fairness
----------------------------------------------------------------------------
Times(x) == Cardinality({i \in DOMAIN context : context[i] = x})

\* A steering message answered "injected" is in the conversation exactly once,
\* through rollbacks, retries of the same ID and failing writes, and any other is
\* not ("Injected messages survive prompt rollback ... Queued messages that cannot
\* be applied stay unconsumed", docs/runtime-contract.md).
InjectedOnce ==
    \A m \in Steers : Times(<<"steer", m>>) = IF receipt[m] = "injected" THEN 1 ELSE 0

\* A kernel recovery notice is never lost and never told twice: it is on its way
\* or in the conversation, also when the prompt that was told of it is rolled back.
NoticesKept ==
    \A n \in raised :
        Times(<<"kernel", n>>)
          + Cardinality({i \in DOMAIN (pending \o repl) : (pending \o repl)[i] = n}) = 1

\* No wakeup of a wait is missed, and none is spurious.
WaitIsWoken ==
    turn = "wait" => (Ready <=> changed) /\ (queue # << >> => ready)

\* Every steering message is answered, even if the agent waits meanwhile for events
\* that never come ("It wakes the native `wait` tool", docs/runtime-contract.md).
SteeringSettles ==
    \A m \in Steers : receipt[m] = "pending" ~> receipt[m] # "pending"

\* What a prompt is told besides its own messages is told once, however it is cut short,
\* rolled back and repeated.
ToldOnce == InjectedOnce /\ NoticesKept
============================================================================
