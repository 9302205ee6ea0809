------------------------------- MODULE Kernel -------------------------------
(***************************************************************************)
(* One cell after the other in an IPython kernel that a worker runs: the   *)
(* engine's call and its cancellation (_run_loop), the client of the       *)
(* worker with its control thread (RemoteREPL, _Peer), the worker's        *)
(* handlers (_Worker) and the REPL that interrupts, recovers and restarts  *)
(* the kernel (IPythonREPL). Locally the control calls take effect at      *)
(* once: every behaviour of a local kernel is one of this module.          *)
(*                                                                         *)
(* Handlers run in threads of their own; the REPL runs tools one by one on *)
(* its thread. Messages take any time; a control call waits 5 seconds.     *)
(***************************************************************************)
EXTENDS Integers, Sequences

CONSTANTS RecoveryLimit, \* MAX_RECOVERY_ATTEMPTS
          MaxCells,      \* bound: cells
          MaxCancels,    \* bound: cancellations of running cells
          MaxCrashes,    \* bound: deaths of the kernel, and failed restarts
          MaxErrors,     \* bound: failed calls
          MaxTimeouts    \* bound: control calls that take more than 5 seconds

VARIABLES
    at,        \* the engine: between cells, calling, or settling a cancelled call
    call,      \* the thread in execute_tool
    ahead,     \* control calls it waits for
    control,   \* the control thread's queue; its head may be under way
    sent,      \* id of the control request under way, or 0
    wire,      \* control requests the worker has not finished
    flag,      \* _interrupt_requested
    repl,      \* the REPL thread
    submitted, \* _cell_submitted
    failed,    \* _recovery_failed
    attempts,  \* _recovery_attempts
    notices,   \* _recovery_notices of the worker's REPL
    carried,   \* _recovery_notices of the RemoteREPL
    told,      \* notices delivered to the conversation, or gone with a lost reply
    kernel,    \* idle, installing a scope, running the cell, ignoring signals, dead
    gen,       \* restarts of the kernel
    ledger,    \* chunks of messages.jsonl,
    synced,    \*   those the engine knows to be sent (_history_sent),
    copy,      \*   and those in the worker's copy
    count,     \* cells, cancellations, crashes, errors, timeouts so far
    cut,       \* auxiliary: the current cell has been cancelled
    strayed,   \* auxiliary: an interrupt hit a cell that was not cancelled
    late,      \* auxiliary: a control call timed out
    torn       \* auxiliary: the worker was asked to write beyond its copy

engineVars == <<at, ledger, told>>
clientVars == <<call, ahead, synced, carried>>
controlVars == <<control, sent, late>>
replVars == <<repl, submitted, failed, attempts, notices, copy, torn>>
kernelVars == <<kernel, gen>>
vars == <<engineVars, clientVars, controlVars, wire, flag, replVars, kernelVars, count, cut, strayed>>

Under(what, bound) == count[what] < bound
Counted(what) == count' = [count EXCEPT ![what] = @ + 1]

Init == /\ at = "between" /\ call = "none" /\ ahead = 0 /\ cut = FALSE
        /\ control = <<>> /\ sent = 0 /\ wire = {} /\ late = FALSE
        /\ flag = FALSE /\ repl = "free" /\ submitted = FALSE
        /\ failed = FALSE /\ attempts = 0 /\ notices = {} /\ carried = {} /\ told = {}
        /\ kernel = "idle" /\ gen = 0
        /\ ledger = 1 /\ synced = 0 /\ copy = 0
        /\ count = [cells |-> 0, cancels |-> 0, crashes |-> 0, errors |-> 0, timeouts |-> 0, controls |-> 0]
        /\ strayed = FALSE /\ torn = FALSE

(***************************************************************************)
(* The engine.                                                             *)
(***************************************************************************)
Control(kind) == control' = Append(control, kind)

\* A tool call: what was said since the last one is in the ledger.
Start == /\ at = "between" /\ Under("cells", MaxCells) /\ Counted("cells")
         /\ at' = "calling" /\ cut' = FALSE
         /\ \E n \in 1 .. 2 : ledger' = ledger + n
         /\ call' = "control" /\ ahead' = Len(control)
         /\ UNCHANGED <<told, synced, carried, controlVars, wire, flag, replVars, kernelVars, strayed>>

\* The prompt is cancelled, or cancelled again while the call settles.
Cancel == /\ at \in {"calling", "settling"} /\ Under("cancels", MaxCancels) /\ Counted("cancels")
          /\ at' = "settling" /\ cut' = TRUE
          /\ Control("interrupt")
          /\ UNCHANGED <<ledger, told, clientVars, sent, late, wire, flag, replVars, kernelVars, strayed>>

\* _deliver_kernel_notices, after the result is logged. An error ends the prompt.
Result == /\ at = "calling" /\ call \in {"ok", "error"}
          /\ at' = "between" /\ call' = "none"
          /\ IF call = "ok" THEN told' = told \union carried /\ carried' = {}
                            ELSE UNCHANGED <<told, carried>>
          /\ UNCHANGED <<ledger, ahead, synced, controlVars, wire, flag, replVars, kernelVars, count, cut, strayed>>

Settled == /\ at = "settling" /\ call \in {"ok", "error"}
           /\ at' = "between" /\ call' = "none"
           /\ Control("finish")
           /\ UNCHANGED <<ledger, told, ahead, synced, carried, sent, late, wire, flag, replVars, kernelVars, count,
                          cut, strayed>>

(***************************************************************************)
(* The client: execute_tool waits for the control calls made before it,    *)
(* sends the chunks of the ledger but the last, and the call with the last.*)
(***************************************************************************)
Ahead(n) == ahead' = n

\* Mutant: a tool call overtakes the control calls.
MayProceedAtOnce == TRUE

MayProceed == ahead = 0
WorkerCall == /\ call = "control"
              /\ MayProceed
              /\ call' = "history"
              /\ UNCHANGED <<engineVars, ahead, synced, carried, controlVars, wire, flag, replVars, kernelVars, count,
                             cut, strayed>>

Sync(n) == IF copy < synced THEN torn' = TRUE /\ UNCHANGED copy ELSE copy' = n /\ UNCHANGED torn

SendChunk == /\ call = "history" /\ ledger - synced > 1
             /\ Sync(synced + 1)
             /\ synced' = synced + 1
             /\ UNCHANGED <<engineVars, call, ahead, carried, controlVars, wire, flag, repl, submitted, failed, attempts,
                            notices, kernelVars, count, cut, strayed>>

SendTool == /\ call = "history" /\ ledger - synced <= 1
            /\ call' = "tool"
            /\ repl' = "asked"
            /\ UNCHANGED <<engineVars, ahead, synced, carried, controlVars, wire, flag, submitted, failed, attempts,
                           notices, copy, torn, kernelVars, count, cut, strayed>>

\* The worker takes no more requests.
Refuse == /\ \/ call = "history" /\ UNCHANGED repl
             \/ call = "tool" /\ repl = "asked" /\ repl' = "free"
          /\ Under("errors", MaxErrors) /\ Counted("errors")
          /\ call' = "error"
          /\ UNCHANGED <<engineVars, ahead, synced, carried, controlVars, wire, flag, submitted, failed, attempts,
                         notices, copy, torn, kernelVars, cut, strayed>>

\* The one control thread.
SendControl == /\ control # <<>> /\ sent = 0
               /\ Counted("controls")
               /\ sent' = count.controls + 1
               /\ wire' = wire \union {[id |-> sent', kind |-> Head(control), step |-> "new"]}
               /\ UNCHANGED <<engineVars, clientVars, control, late, flag, replVars, kernelVars, cut, strayed>>

Popped == /\ control' = Tail(control) /\ sent' = 0
          /\ Ahead(IF ahead > 0 THEN ahead - 1 ELSE 0)
          /\ UNCHANGED <<engineVars, call, synced, carried, wire, flag, replVars, kernelVars, cut, strayed>>

Answered == /\ sent # 0 /\ \A r \in wire : r.id # sent
            /\ Popped
            /\ UNCHANGED <<late, count>>

TimeOut == /\ sent # 0 /\ \E r \in wire : r.id = sent
           /\ Under("timeouts", MaxTimeouts) /\ Counted("timeouts")
           /\ late' = TRUE
           /\ Popped

(***************************************************************************)
(* The worker's control handlers. A SIGINT reaches what the kernel runs:   *)
(* the cell ends, or catches it and runs on; a scope fails to install.     *)
(***************************************************************************)
Stray == strayed' = (strayed \/ (call = "tool" /\ ~cut))

Signalled ==
    \/ kernel = "cell" /\ kernel' \in {"idle", "deaf"}
    \/ kernel = "scope" /\ kernel' = "noscope"
    \/ kernel \in {"idle", "deaf", "dead", "noscope"} /\ UNCHANGED kernel

HandleInterrupt(r) ==
    /\ r \in wire /\ r.kind = "interrupt" /\ r.step = "new"
    /\ flag' = TRUE
    /\ wire' = (wire \ {r}) \union {[r EXCEPT !.step = "flagged"]}
    /\ UNCHANGED <<engineVars, clientVars, controlVars, replVars, kernelVars, count, cut, strayed>>

HandleSignal(r) ==
    /\ r \in wire /\ r.step = "flagged"
    /\ wire' = wire \ {r}
    /\ Signalled
    /\ IF kernel \in {"cell", "scope"} THEN Stray ELSE UNCHANGED strayed
    /\ UNCHANGED <<engineVars, clientVars, controlVars, flag, replVars, gen, count, cut>>

HandleFinish(r) ==
    /\ r \in wire /\ r.kind = "finish"
    /\ wire' = wire \ {r}
    /\ flag' = FALSE
    /\ UNCHANGED <<engineVars, clientVars, controlVars, replVars, kernelVars, count, cut, strayed>>

(***************************************************************************)
(* The REPL thread: IPythonREPL.execute.                                   *)
(***************************************************************************)
replRest == <<engineVars, clientVars, controlVars, wire, count, cut>>

TakeTool == /\ repl = "asked"
            /\ Sync(ledger)
            /\ repl' = "begin"
            /\ UNCHANGED <<replRest, flag, submitted, failed, attempts, notices, kernelVars, strayed>>

Return == repl' = "reply" /\ flag' = FALSE

\* Mutant: execute forgets an interrupt that came before it.
BeginAfresh == /\ repl = "begin"
               /\ submitted' = FALSE
               /\ flag' = FALSE
               /\ repl' = IF failed \/ kernel = "dead" THEN "recover" ELSE "scope"
               /\ UNCHANGED <<replRest, failed, attempts, notices, copy, torn, kernelVars, strayed>>

\* An interrupt that came before: nothing is executed. A kernel that is not
\* there is restarted, and the cell is not executed.
Begin == /\ repl = "begin"
         /\ submitted' = FALSE
         /\ IF flag
            THEN Return /\ Stray
            ELSE /\ repl' = IF failed \/ kernel = "dead" THEN "recover" ELSE "scope"
                 /\ UNCHANGED <<flag, strayed>>
         /\ UNCHANGED <<replRest, failed, attempts, notices, copy, torn, kernelVars>>

\* _execute_silent: the scope of the call's capability.
InstallScope == /\ repl = "scope" /\ kernel = "idle" /\ ~flag
                /\ kernel' = "scope" /\ repl' = "install"
                /\ UNCHANGED <<replRest, flag, submitted, failed, attempts, notices, copy, torn, gen, strayed>>

ScopeInterrupted == /\ flag
                    /\ \/ repl = "scope" /\ Return
                       \/ repl = "install" /\ repl' = "interrupt" /\ UNCHANGED flag
                    /\ Stray
                    /\ UNCHANGED <<replRest, submitted, failed, attempts, notices, copy, torn, kernelVars>>

ScopeInstalled == /\ repl = "install" /\ kernel = "scope"
                  /\ kernel' = "idle" /\ repl' = "submit"
                  /\ UNCHANGED <<replRest, flag, submitted, failed, attempts, notices, copy, torn, gen, strayed>>

\* It raised, or did not answer in 30 seconds, or the kernel died.
ScopeFailed == /\ \/ repl = "install"
                  \/ repl = "scope" /\ kernel = "dead"
               /\ repl' = "recover"
               /\ UNCHANGED <<replRest, flag, submitted, failed, attempts, notices, copy, torn, kernelVars, strayed>>

Submit == /\ repl = "submit"
          /\ IF flag
             THEN Return /\ Stray /\ UNCHANGED <<submitted, kernel>>
             ELSE /\ submitted' = TRUE /\ repl' = "run"
                  /\ kernel' = IF kernel = "idle" THEN "cell" ELSE kernel
                  /\ UNCHANGED <<flag, strayed>>
          /\ UNCHANGED <<replRest, failed, attempts, notices, copy, torn, gen>>

\* The cell went through: the attempts count only restarts in a row.
Clean == attempts' = IF notices = {} THEN 0 ELSE attempts

RunEnds == /\ repl = "run" /\ kernel = "idle"
           /\ Return /\ Clean
           /\ UNCHANGED <<replRest, submitted, failed, notices, copy, torn, kernelVars, strayed>>

RunDies == /\ repl \in {"run", "interrupt"} /\ kernel = "dead"
           /\ repl' = "recover"
           /\ UNCHANGED <<replRest, flag, submitted, failed, attempts, notices, copy, torn, kernelVars, strayed>>

RunInterrupted == /\ repl = "run" /\ flag
                  /\ repl' = "interrupt"
                  /\ Stray
                  /\ UNCHANGED <<replRest, flag, submitted, failed, attempts, notices, copy, torn, kernelVars>>

DeadlinePasses == /\ repl = "run" /\ kernel \in {"cell", "deaf"}
                  /\ repl' = "interrupt"
                  /\ UNCHANGED <<replRest, flag, submitted, failed, attempts, notices, copy, torn, kernelVars, strayed>>

\* The kernel is idle again, or 2 seconds pass.
WaitForIdle(idle) == IF idle THEN kernel # "deaf" /\ kernel' = "idle" ELSE kernel # "idle" /\ kernel' = "deaf"

\* _interrupt_and_recover: a kernel that is idle again within 2 seconds keeps
\* its state, another is restarted.
InterruptKernel ==
    /\ repl = "interrupt" /\ kernel # "dead"
    /\ \/ /\ WaitForIdle(TRUE)
          /\ Return
          /\ IF submitted THEN Clean ELSE UNCHANGED attempts
       \/ /\ WaitForIdle(FALSE)
          /\ repl' = "recover"
          /\ UNCHANGED <<flag, attempts>>
    /\ UNCHANGED <<replRest, submitted, failed, notices, copy, torn, gen, strayed>>

RestartKernel == kernel' = "idle" /\ gen' = gen + 1

\* _recover: the limit, a restart that fails, or a new kernel. A notice tells
\* of each: the number of the kernel that is new, or 0.
Recover == /\ repl = "recover"
           /\ Return
           /\ \/ /\ attempts >= RecoveryLimit
                 /\ failed' = TRUE
                 /\ notices' = notices \union {0}
                 /\ UNCHANGED <<attempts, kernelVars, count>>
              \/ /\ attempts < RecoveryLimit
                 /\ attempts' = attempts + 1
                 /\ \/ /\ failed' = TRUE /\ kernel' = "dead"
                       /\ Under("crashes", MaxCrashes) /\ Counted("crashes")
                       /\ notices' = notices \union {0}
                       /\ UNCHANGED gen
                    \/ /\ failed' = FALSE
                       /\ RestartKernel
                       /\ notices' = notices \union {gen'}
                       /\ UNCHANGED count
           /\ UNCHANGED <<engineVars, clientVars, controlVars, wire, submitted, copy, torn, cut, strayed>>

\* The reply takes the notices with it, and then the chunk counts as sent.
Reply == /\ repl = "reply"
         /\ repl' = "free" /\ call' = "ok"
         /\ carried' = carried \union notices /\ notices' = {}
         /\ synced' = ledger
         /\ UNCHANGED <<engineVars, ahead, controlVars, wire, flag, submitted, failed, attempts, copy, torn,
                        kernelVars, count, cut, strayed>>

\* Mutant: the notices are taken before the reply is complete.
ReplyFailsLate == /\ repl = "reply"
                  /\ Under("errors", MaxErrors) /\ Counted("errors")
                  /\ repl' = "free" /\ call' = "error" /\ notices' = {}
                  /\ UNCHANGED <<engineVars, ahead, synced, carried, controlVars, wire, flag, submitted, failed, attempts,
                                 copy, torn, kernelVars, cut, strayed>>

\* Collecting the skills fails: the notices wait for the next call.
ReplyFails == /\ repl = "reply"
              /\ Under("errors", MaxErrors) /\ Counted("errors")
              /\ repl' = "free" /\ call' = "error"
              /\ UNCHANGED <<engineVars, ahead, synced, carried, controlVars, wire, flag, submitted, failed, attempts,
                             notices, copy, torn, kernelVars, cut, strayed>>

\* The reply does not fit a frame, or the client fails to apply the skills in it: the
\* notices it took along are gone.
ReplyLost == /\ repl = "reply"
             /\ Under("errors", MaxErrors) /\ Counted("errors")
             /\ repl' = "free" /\ call' = "error"
             /\ told' = told \union notices /\ notices' = {}
             /\ synced' \in {synced, ledger}
             /\ UNCHANGED <<at, ledger, ahead, carried, controlVars, wire, flag, submitted, failed,
                            attempts, copy, torn, kernelVars, cut, strayed>>

(***************************************************************************)
(* The kernel.                                                             *)
(***************************************************************************)
CellEnds == /\ kernel \in {"cell", "deaf"} /\ kernel' = "idle"
            /\ UNCHANGED <<engineVars, clientVars, controlVars, wire, flag, replVars, gen, count, cut, strayed>>

Crash == /\ kernel # "dead" /\ kernel' = "dead"
         /\ Under("crashes", MaxCrashes) /\ Counted("crashes")
         /\ UNCHANGED <<engineVars, clientVars, controlVars, wire, flag, replVars, gen, cut, strayed>>

ReplStep == \/ TakeTool \/ Begin \/ InstallScope \/ ScopeInterrupted \/ ScopeInstalled \/ ScopeFailed \/ Submit
            \/ RunEnds \/ RunDies \/ RunInterrupted \/ InterruptKernel \/ Recover \/ Reply \/ ReplyFails \/ ReplyLost
Requests == [id : 1 .. 2 * MaxCancels + 1, kind : {"interrupt", "finish"}, step : {"new", "flagged"}]
Handle == \E r \in Requests : HandleInterrupt(r) \/ HandleSignal(r) \/ HandleFinish(r)
Client == WorkerCall \/ SendChunk \/ SendTool \/ SendControl \/ Answered
Engine == Result \/ Settled

Next == \/ Start \/ Cancel \/ Engine
        \/ Client \/ Refuse \/ TimeOut
        \/ Handle
        \/ ReplStep \/ DeadlinePasses
        \/ CellEnds \/ Crash

Spec == Init /\ [][Next]_vars

\* Every thread runs on and messages arrive. A cell need not end, and its
\* deadline may be far off.
FairSpec == Spec /\ WF_vars(ReplStep) /\ WF_vars(Handle) /\ WF_vars(Client) /\ WF_vars(Engine)

-----------------------------------------------------------------------------
\* When a result is in the conversation, so is the notice of every restart
\* that lost the kernel's state, also of one whose cell was cancelled or whose
\* reply failed, unless the notice is gone with a reply that was lost.
LossIsTold == [][call = "ok" /\ at = "calling" /\ at' = "between" => 1 .. gen \subseteq told']_vars

\* An interrupt ends no other cell than the one that was cancelled, unless a
\* control call took longer than it may.
InterruptStaysInCell == strayed => late

\* The worker's copy of the ledger is never behind what it is taken to hold,
\* whatever calls fail.
InSync == ~torn

\* A cancelled call settles, also when its cell would run for ever.
CancelSettles == at = "settling" ~> at # "settling" \/ late

\* A call that is cancelled or fails disturbs neither the cells after it nor the worker's
\* copy of the ledger.
CallsAreApart == InterruptStaysInCell /\ InSync
=============================================================================
