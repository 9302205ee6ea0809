----------------------------- MODULE RemoteJobs -----------------------------
(***************************************************************************)
(* Shell jobs under split execution (workspace_host.py).  The worker runs  *)
(* the processes (WorkspaceHost, with the ShellJobs of module ShellJobs)   *)
(* and the supervisor keeps a record and a copy of the output of each      *)
(* (RemoteShellJobs), which a pump fills from one long poll after another  *)
(* (RemoteHost._pump, host.events).                                        *)
(*                                                                         *)
(* Requests share one connection (_Peer, execution.py).  The worker gives  *)
(* each a thread, so they overtake each other, and refuses what exceeds    *)
(* its slots; a request whose caller is cancelled still runs.  A reply and *)
(* an events call can be read in either order, so a job's events may come  *)
(* before the record they belong to.                                       *)
(***************************************************************************)
EXTENDS Naturals, FiniteSets

CONSTANTS Owners,     \* agents that run jobs
          Jobs,       \* job ids
          Owner,      \* Owner[j]: the agent that may start j
          Slots,      \* requests the worker handles at a time (_Peer.slots)
          MaxOutput,  \* bound on the output of a job, in blocks
          EventBytes  \* EVENT_BYTES, in blocks: the output one reply carries

ASSUME RemoteConstants ==
    /\ Owner \in [Jobs -> Owners]
    /\ MaxOutput \in Nat
    /\ {Slots, EventBytes} \subseteq Nat \ {0}

Starts == {"start"} \X Jobs
Cancels == {"cancel"} \X Jobs
Closes == {"close"} \X Owners
Poll == <<"events", "pump">>
Requests == Starts \union Cancels \union Closes \union {Poll}

VARIABLES
    up,       \* the connection lasts
    rpc,      \* rpc[r]: idle, sent, handling, ok or error (answered)
    record,   \* the supervisor's record: none, starting (start_remote awaits),
              \* dropped (its caller was cancelled), running or finished
    ended,    \* how it ended: none, worker or disconnect
    copied,   \* blocks in the supervisor's copy of the output
    early,    \* early[j]: events that came before the record
    pump,     \* the pump: running or down
    phase,    \* the owner: live, closing or closed
    closing,  \* closing[o]: the jobs its close awaits
    work,     \* the worker's job: none, running or finished
    asked,    \* the worker's job was cancelled
    out,      \* blocks of output the worker retains
    sent,     \* _sent: blocks already reported
    changed,  \* _jobs_changed: no, output or finished
    batch     \* the events in a reply to the poll

supervisorVars == <<record, ended, copied, early, pump, phase, closing>>
workerVars == <<work, asked, out, sent, changed, batch>>
vars == <<up, rpc, supervisorVars, workerVars>>

NoEvent == [n |-> 0, last |-> FALSE]
Empty == [j \in Jobs |-> NoEvent]
Outstanding == {r \in Requests : rpc[r] = "handling"}
Send(r, state) == [state EXCEPT ![r] = IF up THEN "sent" ELSE "error"]
----------------------------------------------------------------------------
Init ==
    /\ up = TRUE
    /\ rpc = [r \in Requests |-> IF r = Poll THEN "sent" ELSE "idle"]
    /\ record = [j \in Jobs |-> "none"]
    /\ ended = [j \in Jobs |-> "none"]
    /\ copied = [j \in Jobs |-> 0]
    /\ early = Empty
    /\ pump = "running"
    /\ phase = [o \in Owners |-> "live"]
    /\ closing = [o \in Owners |-> {}]
    /\ work = [j \in Jobs |-> "none"]
    /\ asked = [j \in Jobs |-> FALSE]
    /\ out = [j \in Jobs |-> 0]
    /\ sent = [j \in Jobs |-> 0]
    /\ changed = [j \in Jobs |-> "no"]
    /\ batch = Empty

\* start_remote up to its await.
Start(j) ==
    /\ phase[Owner[j]] = "live"
    /\ record[j] = "none"
    /\ record' = [record EXCEPT ![j] = "starting"]
    /\ rpc' = Send(<<"start", j>>, rpc)
    /\ UNCHANGED <<up, ended, copied, early, pump, phase, closing, workerVars>>

\* Its caller's cell ends, or its caller is released: the request goes on.
DropStart(j) ==
    /\ record[j] = "starting"
    /\ record' = [record EXCEPT ![j] = "dropped"]
    /\ UNCHANGED <<up, rpc, ended, copied, early, pump, phase, closing, workerVars>>

\* The events kept for a job without a record, by their output and their last.
EarlyForgotten(j) == NoEvent  \* a bug
Early(j) == early[j]

\* The reply to jobs.start: the record, and the events that were faster.
StartReturns(j) ==
    /\ record[j] = "starting"
    /\ rpc[<<"start", j>>] = "ok"
    /\ rpc' = [rpc EXCEPT ![<<"start", j>>] = "idle"]
    /\ copied' = [copied EXCEPT ![j] = Early(j).n]
    /\ record' = [record EXCEPT ![j] = IF Early(j).last THEN "finished"
                                                             ELSE "running"]
    /\ ended' = [ended EXCEPT ![j] = IF Early(j).last THEN "worker" ELSE @]
    /\ early' = [early EXCEPT ![j] = NoEvent]
    /\ UNCHANGED <<up, pump, phase, closing, workerVars>>

StartFails(j) ==
    /\ record[j] = "starting"
    /\ rpc[<<"start", j>>] = "error"
    /\ rpc' = [rpc EXCEPT ![<<"start", j>>] = "idle"]
    /\ record' = [record EXCEPT ![j] = "dropped"]
    /\ UNCHANGED <<up, ended, copied, early, pump, phase, closing, workerVars>>

\* shell.cancel of a running job; an error is raised to the caller.
Cancel(j) ==
    /\ phase[Owner[j]] = "live"
    /\ record[j] = "running"
    /\ rpc[<<"cancel", j>>] = "idle"
    /\ rpc' = Send(<<"cancel", j>>, rpc)
    /\ UNCHANGED <<up, supervisorVars, workerVars>>

CancelReturns(j) ==
    /\ rpc[<<"cancel", j>>] \in {"ok", "error"}
    /\ rpc' = [rpc EXCEPT ![<<"cancel", j>>] = "idle"]
    /\ UNCHANGED <<up, supervisorVars, workerVars>>

\* close(o): a request only if a record of o is running.
Close(o) ==
    /\ phase[o] = "live"
    /\ LET mine == {j \in Jobs : Owner[j] = o /\ record[j] = "running"}
       IN  /\ closing' = [closing EXCEPT ![o] = mine]
           /\ phase' = [phase EXCEPT ![o] = IF mine = {} THEN "closed" ELSE "closing"]
           /\ rpc' = IF mine = {} THEN rpc ELSE Send(<<"close", o>>, rpc)
    /\ UNCHANGED <<up, record, ended, copied, early, pump, workerVars>>

\* disconnect(): every running record fails, whoever owns it.
Disconnect ==
    /\ record' = [j \in Jobs |-> IF record[j] = "running" THEN "finished" ELSE record[j]]
    /\ ended' = [j \in Jobs |-> IF record[j] = "running" THEN "disconnect" ELSE ended[j]]

CloseFails(o) ==
    /\ rpc[<<"close", o>>] = "error"
    /\ rpc' = [rpc EXCEPT ![<<"close", o>>] = "idle"]
    /\ Disconnect
    /\ UNCHANGED <<up, copied, early, pump, phase, closing, workerVars>>

CloseReturns(o) ==
    /\ phase[o] = "closing"
    /\ rpc[<<"close", o>>] \in {"ok", "idle"}
    /\ \A j \in closing[o] : record[j] = "finished"
    /\ rpc' = [rpc EXCEPT ![<<"close", o>>] = "idle"]
    /\ phase' = [phase EXCEPT ![o] = "closed"]
    /\ UNCHANGED <<up, record, ended, copied, early, pump, closing, workerVars>>

\* The pump applies the events of a reply and asks for more, until an error.
Apply ==
    /\ rpc[Poll] = "ok"
    /\ rpc' = Send(Poll, rpc)
    /\ early' = [j \in Jobs |->
                   IF record[j] \in {"running", "finished"} THEN early[j]
                   ELSE [n |-> early[j].n + batch[j].n,
                         last |-> early[j].last \/ batch[j].last]]
    /\ copied' = [j \in Jobs |->
                    IF record[j] = "running" THEN copied[j] + batch[j].n ELSE copied[j]]
    /\ record' = [j \in Jobs |->
                    IF record[j] = "running" /\ batch[j].last THEN "finished"
                                                              ELSE record[j]]
    /\ ended' = [j \in Jobs |->
                   IF record[j] = "running" /\ batch[j].last THEN "worker" ELSE ended[j]]
    /\ batch' = Empty
    /\ UNCHANGED <<up, pump, phase, closing, work, asked, out, sent, changed>>

PumpEnds ==
    /\ rpc[Poll] = "error"
    /\ rpc' = [rpc EXCEPT ![Poll] = "idle"]
    /\ pump' = "down"
    /\ Disconnect
    /\ UNCHANGED <<up, copied, early, phase, closing, workerVars>>
----------------------------------------------------------------------------
\* The worker refuses a request beyond its slots, the poll not excepted: _listen.
Refuse(r) ==
    /\ up
    /\ rpc[r] = "sent"
    /\ Cardinality(Outstanding) >= Slots
    /\ rpc' = [rpc EXCEPT ![r] = "error"]
    /\ UNCHANGED <<up, supervisorVars, workerVars>>

\* jobs.start runs the process; cancel and close ask for its end.
Handle(r) ==
    /\ up
    /\ rpc[r] = "sent"
    /\ Cardinality(Outstanding) < Slots
    /\ rpc' = [rpc EXCEPT ![r] = "handling"]
    /\ work' = [j \in Jobs |-> IF r = <<"start", j>> THEN "running" ELSE work[j]]
    /\ asked' = [j \in Jobs |-> asked[j] \/ r = <<"cancel", j>>
                                 \/ (r = <<"close", Owner[j]>> /\ work[j] # "none")]
    /\ UNCHANGED <<up, supervisorVars, out, sent, changed, batch>>

\* A request other than the poll is answered: cancel and close await the jobs.
Reply(r) ==
    /\ r # Poll
    /\ rpc[r] = "handling"
    /\ \A j \in Jobs : (r = <<"cancel", j>> \/ (r = <<"close", Owner[j]>> /\ asked[j]))
                          => work[j] # "running"
    /\ rpc' = [rpc EXCEPT ![r] = "ok"]
    /\ UNCHANGED <<up, supervisorVars, workerVars>>

\* The process writes, or ends: _output and _finished.
Output(j) ==
    /\ work[j] = "running"
    /\ out[j] < MaxOutput
    /\ out' = [out EXCEPT ![j] = @ + 1]
    /\ changed' = [changed EXCEPT ![j] = "output"]
    /\ UNCHANGED <<up, rpc, supervisorVars, work, asked, sent, batch>>

End(j) ==
    /\ work[j] = "running"
    /\ work' = [work EXCEPT ![j] = "finished"]
    /\ changed' = [changed EXCEPT ![j] = "finished"]
    /\ UNCHANGED <<up, rpc, supervisorVars, asked, out, sent, batch>>

\* host.events: what changed, with at most EventBytes of output; a job whose
\* output did not fit stays changed, and is not yet reported as finished.
MoreIgnored(j, n) == FALSE  \* a bug: the job is reported finished too early
More(j, n) == sent[j] + n < out[j]

Advanced(j, n) == sent[j] + n

ForgetsRest(j, n) == "no"  \* a bug: nobody comes back for the rest
StaysChanged(j, n) == IF More(j, n) THEN changed[j] ELSE "no"

\* What a reply takes of each job: all there is, or as much as fits.
Fits(take) ==
    LET due == {j \in Jobs : changed[j] # "no"}
        total[S \in SUBSET due] ==
            IF S = {} THEN 0
            ELSE LET j == CHOOSE j \in S : TRUE IN take[j] + total[S \ {j}]
    IN  \/ total[due] = EventBytes
        \/ total[due] < EventBytes /\ \A j \in due : sent[j] + take[j] = out[j]

Events(take) ==
    /\ rpc[Poll] = "handling"
    /\ \A j \in Jobs : take[j] <= (IF changed[j] = "no" THEN 0 ELSE out[j] - sent[j])
    /\ Fits(take)
    /\ rpc' = [rpc EXCEPT ![Poll] = "ok"]
    /\ batch' = [j \in Jobs |->
                   [n |-> take[j], last |-> changed[j] = "finished" /\ ~More(j, take[j])]]
    /\ sent' = [j \in Jobs |-> Advanced(j, take[j])]
    /\ changed' = [j \in Jobs |-> StaysChanged(j, take[j])]
    /\ UNCHANGED <<up, supervisorVars, work, asked, out>>

\* The connection is lost: what was not answered fails, an answer under way may be
\* lost too, and the worker, whose session is over, ends every job
\* (WorkspaceHost.close).
Lose ==
    /\ up
    /\ up' = FALSE
    /\ \E lost \in SUBSET {r \in Requests : rpc[r] = "ok"} :
         rpc' = [r \in Requests |->
                   IF rpc[r] \in {"sent", "handling"} \/ r \in lost THEN "error"
                                                                   ELSE rpc[r]]
    /\ asked' = [j \in Jobs |-> asked[j] \/ work[j] # "none"]
    /\ UNCHANGED <<supervisorVars, work, out, sent, changed, batch>>

Next ==
    \/ Apply \/ PumpEnds \/ Lose
    \/ \E take \in [Jobs -> 0 .. EventBytes] : Events(take)
    \/ \E r \in Requests : Refuse(r) \/ Handle(r) \/ Reply(r)
    \/ \E o \in Owners : Close(o) \/ CloseFails(o) \/ CloseReturns(o)
    \/ \E j \in Jobs :
         \/ Start(j) \/ DropStart(j) \/ StartReturns(j) \/ StartFails(j)
         \/ Cancel(j) \/ CancelReturns(j) \/ Output(j) \/ End(j)

Spec == Init /\ [][Next]_vars

\* Both event loops and the connection's threads keep running, and a job that is
\* cancelled ends (JobsEnd of module ShellJobs).
Fairness ==
    /\ WF_vars(Apply) /\ WF_vars(PumpEnds)
    /\ WF_vars(\E take \in [Jobs -> 0 .. EventBytes] : Events(take))
    /\ \A r \in Requests : WF_vars(Handle(r) \/ Refuse(r)) /\ WF_vars(Reply(r))
    /\ \A o \in Owners : WF_vars(CloseFails(o)) /\ WF_vars(CloseReturns(o))
    /\ \A j \in Jobs : WF_vars(StartReturns(j)) /\ WF_vars(asked[j] /\ End(j))

FairSpec == Spec /\ Fairness
----------------------------------------------------------------------------
\* Every variable stays in its range, and the worker never reports more than the
\* job wrote.
TypeOK ==
    /\ up \in BOOLEAN
    /\ rpc \in [Requests -> {"idle", "sent", "handling", "ok", "error"}]
    /\ record \in [Jobs -> {"none", "starting", "dropped", "running", "finished"}]
    /\ ended \in [Jobs -> {"none", "worker", "disconnect"}]
    /\ \A j \in Jobs : out[j] \in 0 .. MaxOutput /\ sent[j] \in 0 .. out[j]
                       /\ copied[j] \in 0 .. sent[j]
    /\ pump \in {"running", "down"}
    /\ phase \in [Owners -> {"live", "closing", "closed"}]
    /\ \A o \in Owners : closing[o] \subseteq Jobs
    /\ work \in [Jobs -> {"none", "running", "finished"}]
    /\ asked \in [Jobs -> BOOLEAN]
    /\ changed \in [Jobs -> {"no", "output", "finished"}]

\* A job that the worker reported finished has its whole output in the copy,
\* however its events, its reply and the size limit of a reply interleaved.
CopyIsWhole ==
    \A j \in Jobs : ended[j] = "worker" => work[j] = "finished" /\ copied[j] = out[j]

\* No output is lost or copied twice: while the pump lives, every block the worker
\* counts as reported is in the copy, in the events kept for the record, or in the
\* reply under way.
OutputAccounted ==
    \A j \in Jobs : pump = "running" /\ ended[j] # "disconnect" =>
        copied[j] + early[j].n + batch[j].n = sent[j]

\* While the pump lives, the end of a job reaches its record and closing an owner
\* comes to an end.
EndsReported ==
    /\ \A j \in Jobs : (record[j] = "running" /\ work[j] = "finished")
                           ~> (record[j] = "finished" \/ pump = "down")
    /\ \A o \in Owners :
         (phase[o] = "closing") ~> (phase[o] = "closed" \/ pump = "down")

============================================================================
