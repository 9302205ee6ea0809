----------------------------- MODULE ShellJobs -----------------------------
(***************************************************************************)
(* The shell jobs of a session tree: ShellJobs (shell_jobs.py), which runs *)
(* each command in a process group of its own, and the shell operations of *)
(* the supervisor (supervisor.py), which wait for a job for a while, hand  *)
(* it back if it still runs, and publish its completion to the inbox.      *)
(*                                                                         *)
(* Three parties interleave: the job's task, which polls the process every *)
(* 10 ms; the calls that wait for that task; and the processes and the     *)
(* clock.  A wait's timer and its resumption are separate events of the    *)
(* event loop, so the job may end between them.  Output is left out but    *)
(* for what decides a job's end: whether the pipe is still held open.      *)
(***************************************************************************)
EXTENDS Naturals, FiniteSets

CONSTANTS Owners,     \* agents that run jobs
          Jobs,       \* job ids
          Owner,      \* Owner[j]: the agent that may start j
          Calls,      \* concurrent waits of an agent's cells on one job
          MaxActive   \* MAX_ACTIVE_JOBS

ASSUME JobConstants ==
    /\ Owner \in [Jobs -> Owners]
    /\ MaxActive \in Nat \ {0}

VARIABLES
    status,     \* JobInfo.status; "absent" before the start
    task,       \* the _run task; its job.finished is set in the step that ends it
    bash,       \* the bash process
    others,     \* its descendants in the group: none, holding the pipe, or detached
    timer,      \* timer[j][k]: a moment in time, not set, ahead or past
    cancelReq,  \* job.cancel_requested
    timedOut,   \* job.timed_out
    notify,     \* job.notify
    event,      \* shell.completed in the owner's inbox: none, unread or read
    call,       \* call[j][k]: a shell.run or shell.result waiting for the task
    alarm,      \* alarm[j][k]: the timer of that wait has fired
    given,      \* given[j]: what calls answered: "early" and "late" (handed back
                \* with running=True before and after its end), "result"
    phase       \* the owner: live, closing (its capability is gone) or closed

procVars == <<bash, others>>
callVars == <<call, alarm, given>>
vars == <<status, task, procVars, timer, cancelReq, timedOut, notify, event,
          callVars, phase>>

Moments == {"deadline", "grace", "drain"}  \* timeout=, 0.2 s, DRAIN_SECONDS
Off == [k \in Moments |-> "off"]
Set(t, k) == [t EXCEPT ![k] = IF @ = "off" THEN "ahead" ELSE @]

Finished(j) == task[j] = "done"
Active == {j \in Jobs : task[j] # "none" /\ ~Finished(j)}

\* _publish_job, in the step that ends the job's task.
Publish(j) ==
    event' = IF notify[j] /\ phase[Owner[j]] = "live"
               THEN [event EXCEPT ![j] = "unread"] ELSE event
----------------------------------------------------------------------------
Init ==
    /\ status = [j \in Jobs |-> "absent"]
    /\ task = [j \in Jobs |-> "none"]
    /\ bash = [j \in Jobs |-> "none"]
    /\ others = [j \in Jobs |-> "none"]
    /\ timer = [j \in Jobs |-> Off]
    /\ cancelReq = [j \in Jobs |-> FALSE]
    /\ timedOut = [j \in Jobs |-> FALSE]
    /\ notify = [j \in Jobs |-> FALSE]
    /\ event = [j \in Jobs |-> "none"]
    /\ call = [j \in Jobs |-> [k \in Calls |-> "none"]]
    /\ alarm = [j \in Jobs |-> [k \in Calls |-> FALSE]]
    /\ given = [j \in Jobs |-> {}]
    /\ phase = [o \in Owners |-> "live"]

\* shell.run, with a kill deadline or none, waiting for the job or not.
Run(j, k, timeout, block) ==
    /\ phase[Owner[j]] = "live"
    /\ task[j] = "none"
    /\ Cardinality(Active) < MaxActive
    /\ status' = [status EXCEPT ![j] = "starting"]
    /\ task' = [task EXCEPT ![j] = "scheduled"]
    /\ timer' = IF timeout THEN [timer EXCEPT ![j] = Set(@, "deadline")] ELSE timer
    /\ notify' = [notify EXCEPT ![j] = ~block]
    /\ IF block
         THEN call' = [call EXCEPT ![j][k] = "run"] /\ UNCHANGED given
         ELSE given' = [given EXCEPT ![j] = @ \union {"early"}] /\ UNCHANGED call
    /\ UNCHANGED <<procVars, cancelReq, timedOut, event, alarm, phase>>

\* The finished payload of shell.result: the completion event, if any, is read.
Collect(j) == event' = [event EXCEPT ![j] = IF @ = "unread" THEN "read" ELSE @]

\* shell.result of a job that runs: the call waits.
Wait(j, k) ==
    /\ phase[Owner[j]] = "live"
    /\ task[j] \notin {"none", "done"}
    /\ call[j][k] = "none"
    /\ call' = [call EXCEPT ![j][k] = "result"]
    /\ UNCHANGED <<status, task, procVars, timer, cancelReq, timedOut, notify,
                   event, alarm, given, phase>>

\* ... and of one that has ended.
Result(j) ==
    /\ phase[Owner[j]] = "live"
    /\ Finished(j)
    /\ Collect(j)
    /\ given' = [given EXCEPT ![j] = @ \union {"result"}]
    /\ UNCHANGED <<status, task, procVars, timer, cancelReq, timedOut, notify,
                   call, alarm, phase>>

\* The timer of a waiting call fires; the call itself resumes later.
Alarm(j, k) ==
    /\ call[j][k] # "none"
    /\ alarm' = [alarm EXCEPT ![j][k] = TRUE]
    /\ UNCHANGED <<status, task, procVars, timer, cancelReq, timedOut, notify,
                   event, call, given, phase>>

EndCall(j, k) ==
    /\ call' = [call EXCEPT ![j][k] = "none"]
    /\ alarm' = [alarm EXCEPT ![j][k] = FALSE]

\* The wait resumes after its timer: wait_for raises TimeoutError, also when the
\* job's task has ended in between.
HandBackQuietly(j, k) ==  \* a bug: the completion is not announced
    /\ call[j][k] # "none"
    /\ alarm[j][k]
    /\ EndCall(j, k)
    /\ given' = [given EXCEPT ![j] =
                   @ \union {IF Finished(j) THEN "late" ELSE "early"}]
    /\ UNCHANGED <<status, task, procVars, timer, cancelReq, timedOut, notify,
                   event, phase>>

HandBack(j, k) ==
    /\ call[j][k] # "none"
    /\ alarm[j][k]
    /\ EndCall(j, k)
    /\ notify' = [notify EXCEPT ![j] = TRUE]
    /\ given' = [given EXCEPT ![j] =
                   @ \union {IF Finished(j) THEN "late" ELSE "early"}]
    /\ UNCHANGED <<status, task, procVars, timer, cancelReq, timedOut, event, phase>>

\* The wait resumes after the task's end, whether or not its timer has fired:
\* which of the two wins differs between Python versions.
Return(j, k) ==
    /\ call[j][k] # "none"
    /\ Finished(j)
    /\ EndCall(j, k)
    /\ IF call[j][k] = "result"
         THEN Collect(j) /\ given' = [given EXCEPT ![j] = @ \union {"result"}]
         ELSE UNCHANGED <<event, given>>
    /\ UNCHANGED <<status, task, procVars, timer, cancelReq, timedOut, notify, phase>>

\* The cell that made the call ends or is interrupted; the job runs on.
DropCall(j, k) ==
    /\ call[j][k] # "none"
    /\ EndCall(j, k)
    /\ UNCHANGED <<status, task, procVars, timer, cancelReq, timedOut, notify,
                   event, given, phase>>

\* shell.cancel: the request is all of it, then the call waits for the task.
Cancel(j) ==
    /\ phase[Owner[j]] = "live"
    /\ task[j] # "none"
    /\ cancelReq' = [cancelReq EXCEPT ![j] = TRUE]
    /\ UNCHANGED <<status, task, procVars, timer, timedOut, notify, event,
                   callVars, phase>>

\* ShellJobs.close on behalf of an owner's release or of aclose, up to its await.
Close(o) ==
    /\ phase[o] = "live"
    /\ phase' = [phase EXCEPT ![o] = "closing"]
    /\ cancelReq' = [j \in Jobs |-> cancelReq[j] \/ (Owner[j] = o /\ task[j] # "none")]
    /\ UNCHANGED <<status, task, procVars, timer, timedOut, notify, event, callVars>>

AwaitedRunning(o) ==  \* a bug: a process that is being reaped is not awaited
    {j \in Active : Owner[j] = o /\ status[j] = "running"}
Awaited(o) == {j \in Active : Owner[j] = o}

CloseDone(o) ==
    /\ phase[o] = "closing"
    /\ Awaited(o) = {}
    /\ phase' = [phase EXCEPT ![o] = "closed"]
    /\ UNCHANGED <<status, task, procVars, timer, cancelReq, timedOut, notify,
                   event, callVars>>
----------------------------------------------------------------------------
\* _run without a process: the job was cancelled before it began, or Popen fails.
NeverRun(j, why) ==
    /\ task[j] = "scheduled"
    /\ why = IF cancelReq[j] THEN "cancelled" ELSE "failed"
    /\ status' = [status EXCEPT ![j] = why]
    /\ task' = [task EXCEPT ![j] = "done"]
    /\ timer' = [timer EXCEPT ![j] = Off]
    /\ Publish(j)
    /\ UNCHANGED <<procVars, cancelReq, timedOut, notify, callVars, phase>>

\* _run starts the process.
Launch(j) ==
    /\ task[j] = "scheduled"
    /\ ~cancelReq[j]
    /\ status' = [status EXCEPT ![j] = "running"]
    /\ task' = [task EXCEPT ![j] = "polling"]
    /\ bash' = [bash EXCEPT ![j] = "running"]
    /\ UNCHANGED <<others, timer, cancelReq, timedOut, notify, event, callVars, phase>>

\* A pass of _run's loop.  The deadline passes for a process that has not exited.
Expires(j) == bash[j] = "running" /\ timer[j]["deadline"] = "past" /\ ~cancelReq[j]

KillsNever(j) == FALSE  \* a bug
Kills(j) == timer[j]["grace"] = "past"

\* End of file: nobody holds the pipe.  Otherwise capture stops after a while.
Ends(j) ==
    /\ bash[j] # "running"
    /\ others[j] # "holding" \/ timer[j]["drain"] = "past"

\* A pass that goes on: SIGTERM once, SIGKILL after the grace period.  What the
\* signals do is the processes' business, but nothing survives SIGKILL.
Poll(j) ==
    /\ task[j] = "polling"
    /\ ~Ends(j)
    /\ timedOut' = [timedOut EXCEPT ![j] = @ \/ Expires(j)]
    /\ cancelReq' = [cancelReq EXCEPT ![j] = @ \/ Expires(j)]
    /\ timer' = [timer EXCEPT ![j] =
                   LET t == IF cancelReq'[j] THEN Set(@, "grace") ELSE @
                   IN  IF bash[j] # "running" THEN Set(t, "drain") ELSE t]
    /\ bash' = [bash EXCEPT ![j] = IF Kills(j) THEN "exited" ELSE @]
    /\ others' = [others EXCEPT ![j] = IF Kills(j) THEN "none" ELSE @]
    /\ UNCHANGED <<status, task, notify, event, callVars, phase>>

Outcome(j) ==
    IF timedOut[j] THEN "timed_out"
    ELSE IF cancelReq[j] THEN "cancelled" ELSE "completed"

\* finally: whatever is left in the group is killed before the job is finished.
SparesGroup(j) == UNCHANGED procVars  \* a bug
KillGroup(j) ==
    /\ bash' = [bash EXCEPT ![j] = "exited"]
    /\ others' = [others EXCEPT ![j] = "none"]

\* The last pass, by the process's end or by an error of the capture.
Stop(j, why) ==
    /\ task[j] = "polling"
    /\ why = "failed" \/ (why = Outcome(j) /\ Ends(j))
    /\ status' = [status EXCEPT ![j] = why]
    /\ KillGroup(j)
    /\ task' = [task EXCEPT ![j] = "reaping"]
    /\ timer' = [timer EXCEPT ![j] = Off]  \* nothing looks at the clock any more
    /\ UNCHANGED << cancelReq, timedOut, notify, event, callVars, phase>>

\* process.wait() returns in its thread: finished, and the event is published.
Reap(j) ==
    /\ task[j] = "reaping"
    /\ task' = [task EXCEPT ![j] = "done"]
    /\ Publish(j)
    /\ UNCHANGED <<status, procVars, timer, cancelReq, timedOut, notify, callVars, phase>>
----------------------------------------------------------------------------
\* The processes and the clock.
Exit(j) ==
    /\ bash[j] = "running"
    /\ bash' = [bash EXCEPT ![j] = "exited"]
    /\ UNCHANGED <<status, task, others, timer, cancelReq, timedOut, notify,
                   event, callVars, phase>>

Descend(j, how) ==
    /\ \/ bash[j] = "running"
       \/ others[j] = "holding" /\ how # "holding"
       \/ others[j] = "detached" /\ how = "none"
    /\ others' = [others EXCEPT ![j] = how]
    /\ UNCHANGED <<status, task, bash, timer, cancelReq, timedOut, notify, event,
                   callVars, phase>>

Tick(j, k) ==
    /\ timer[j][k] = "ahead"
    /\ timer' = [timer EXCEPT ![j][k] = "past"]
    /\ UNCHANGED <<status, task, procVars, cancelReq, timedOut, notify, event,
                   callVars, phase>>

Next ==
    \/ \E o \in Owners : Close(o) \/ CloseDone(o)
    \/ \E j \in Jobs :
         \/ \E k \in Calls :
              \/ \E timeout, block \in BOOLEAN : Run(j, k, timeout, block)
              \/ Wait(j, k) \/ Alarm(j, k) \/ HandBack(j, k)
              \/ Return(j, k) \/ DropCall(j, k)
         \/ Result(j) \/ Cancel(j)
         \/ Launch(j) \/ Poll(j) \/ Reap(j)
         \/ \E why \in {"cancelled", "failed"} : NeverRun(j, why)
         \/ \E why \in {"completed", "cancelled", "timed_out", "failed"} : Stop(j, why)
         \/ Exit(j)
         \/ \E how \in {"none", "holding", "detached"} : Descend(j, how)
         \/ \E k \in Moments : Tick(j, k)

Spec == Init /\ [][Next]_vars

\* The event loop runs ready tasks, time passes and a killed process can be
\* waited for.  No process, caller or cell is obliged to do anything.
Fairness ==
    /\ \A o \in Owners : WF_vars(CloseDone(o))
    /\ \A j \in Jobs :
         /\ WF_vars(Launch(j)) /\ WF_vars(NeverRun(j, "cancelled"))
         /\ WF_vars(Poll(j)) /\ WF_vars(Stop(j, Outcome(j))) /\ WF_vars(Reap(j))
         /\ \A k \in Moments : WF_vars(Tick(j, k))

FairSpec == Spec /\ Fairness
----------------------------------------------------------------------------
\* Every variable stays in its range, and the limit on active jobs holds.
TypeOK ==
    /\ status \in [Jobs -> {"absent", "starting", "running", "completed",
                            "cancelled", "timed_out", "failed"}]
    /\ task \in [Jobs -> {"none", "scheduled", "polling", "reaping", "done"}]
    /\ bash \in [Jobs -> {"none", "running", "exited"}]
    /\ others \in [Jobs -> {"none", "holding", "detached"}]
    /\ timer \in [Jobs -> [Moments -> {"off", "ahead", "past"}]]
    /\ cancelReq \in [Jobs -> BOOLEAN]
    /\ timedOut \in [Jobs -> BOOLEAN]
    /\ notify \in [Jobs -> BOOLEAN]
    /\ event \in [Jobs -> {"none", "unread", "read"}]
    /\ call \in [Jobs -> [Calls -> {"none", "run", "result"}]]
    /\ alarm \in [Jobs -> [Calls -> BOOLEAN]]
    /\ given \in [Jobs -> SUBSET {"early", "late", "result"}]
    /\ phase \in [Owners -> {"live", "closing", "closed"}]
    /\ Cardinality(Active) <= MaxActive

\* No process of a finished job's group is left, not even a descendant that
\* closed the pipe or outlived bash (the comment in _run's finally).
NoStrayProcess ==
    \A j \in Jobs : Finished(j) => bash[j] # "running" /\ others[j] = "none"

\* "A job ends with its owner" (docs/python-api.md): once the owner's jobs are
\* closed no job of it runs or starts, however early in its life it was.
JobsEndWithOwner ==
    \A j \in Jobs : phase[Owner[j]] = "closed" =>
        /\ j \notin Active
        /\ bash[j] # "running" /\ others[j] = "none"

\* A job is relabelled "timed out" only while its process runs: one that exited
\* keeps its status, even with its pipe open past the deadline (_run's comment).
TimeoutOnlyOfRunning ==
    [][\A j \in Jobs : timedOut'[j] /\ ~timedOut[j] => bash[j] = "running"]_vars

\* A job handed back while it ran announces its end to an owner that is still
\* live, whoever waits for it in between and whatever ended it.
HandedBackIsAnnounced ==
    \A j \in Jobs :
        Finished(j) /\ "early" \in given[j] /\ phase[Owner[j]] = "live"
            => event[j] # "none"

\* A result that was collected leaves no unread event behind to wake a wait for
\* nothing, also when calls overlap ("`result()` marks them read").
CollectedIsRead ==
    \A j \in Jobs : "result" \in given[j] => event[j] # "unread"

\* Whoever waits for a job hears of its end once: by the result or by an event.
EndsAreTold == HandedBackIsAnnounced /\ CollectedIsRead

\* A job that is cancelled, times out or has lost its process ends, whatever its
\* processes do with SIGTERM or with the pipe, and so does closing an owner.
JobsEnd ==
    /\ \A j \in Jobs : (cancelReq[j] \/ bash[j] = "exited") ~> Finished(j)
    /\ \A o \in Owners : (phase[o] = "closing") ~> (phase[o] = "closed")
============================================================================
