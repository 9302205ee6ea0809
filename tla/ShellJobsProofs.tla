-------------------------- MODULE ShellJobsProofs --------------------------
(***************************************************************************)
(* For any owners, jobs, calls and any limit: the variables of ShellJobs   *)
(* keep their types and the limit on active jobs holds, no process         *)
(* survives its job or its owner, every hand-back of a running job is      *)
(* announced and what was collected is read.                               *)
(***************************************************************************)
EXTENDS ShellJobs, FiniteSetTheorems, TLAPS

Types ==
    /\ status \in [Jobs -> {"absent", "starting", "running", "completed",
                            "cancelled", "timed_out", "failed"}]
    /\ task \in [Jobs -> {"none", "scheduled", "polling", "reaping", "done"}]
    /\ bash \in [Jobs -> {"none", "running", "exited"}]
    /\ others \in [Jobs -> {"none", "holding", "detached"}]
    /\ timer \in [Jobs -> [Moments -> {"off", "ahead", "past"}]]
    /\ cancelReq \in [Jobs -> BOOLEAN]
    /\ timedOut \in [Jobs -> BOOLEAN]
    /\ notify \in [Jobs -> BOOLEAN]
    /\ event \in [Jobs -> {"none", "unread", "read"}]
    /\ call \in [Jobs -> [Calls -> {"none", "run", "result"}]]
    /\ alarm \in [Jobs -> [Calls -> BOOLEAN]]
    /\ given \in [Jobs -> SUBSET {"early", "late", "result"}]
    /\ phase \in [Owners -> {"live", "closing", "closed"}]

\* The limit counts every job whose task has begun and not ended.
Limit == IsFiniteSet(Active) /\ Cardinality(Active) <= MaxActive

\* Before its launch a job has no process, and from the last pass on none is left.
ProcessInv == \A j \in Jobs :
    /\ task[j] \in {"none", "scheduled"} => bash[j] = "none" /\ others[j] = "none"
    /\ task[j] \in {"reaping", "done"} => bash[j] # "running" /\ others[j] = "none"

\* A close waits for the owner's tasks, and none is created once it has begun.
OwnerInv == \A j \in Jobs : phase[Owner[j]] = "closed" => task[j] \in {"none", "done"}

\* What calls were answered, against the job's announcement: an early hand-back
\* keeps the promise until the end, and a result is given only after it.
AnswerInv == \A j \in Jobs :
    /\ task[j] = "none" => given[j] = {} /\ \A k \in Calls : call[j][k] = "none"
    /\ "early" \in given[j] /\ ~Finished(j) => notify[j]
    /\ "early" \in given[j] /\ Finished(j) /\ phase[Owner[j]] = "live" => event[j] # "none"
    /\ "result" \in given[j] => Finished(j) /\ event[j] # "unread"

Inv == Types /\ Limit /\ ProcessInv /\ OwnerInv /\ AnswerInv
----------------------------------------------------------------------------
\* The limit is looked at in the step that starts a job; every other step leaves
\* the set of active jobs alone or takes one away.
LEMMA LimitKept ==
    ASSUME Types, Limit, Types',
           \/ Active' \subseteq Active
           \/ Cardinality(Active) < MaxActive /\ \E j \in Jobs : Active' = Active \union {j}
    PROVE  Limit'
<1>1. /\ MaxActive \in Nat /\ Cardinality(Active) \in Nat
  BY JobConstants, FS_CardinalityType DEF Limit
<1>2. CASE Active' \subseteq Active
  <2>1. IsFiniteSet(Active') /\ Cardinality(Active') <= Cardinality(Active)
    BY <1>2, FS_Subset DEF Limit
  <2>2. Cardinality(Active') \in Nat
    BY <2>1, FS_CardinalityType
  <2> QED BY <1>1, <2>1, <2>2 DEF Limit
<1>3. CASE Cardinality(Active) < MaxActive /\ \E j \in Jobs : Active' = Active \union {j}
  <2>1. PICK j \in Jobs : Active' = Active \union {j}
    BY <1>3
  <2>2. /\ IsFiniteSet(Active')
        /\ Cardinality(Active') = IF j \in Active THEN Cardinality(Active)
                                                  ELSE Cardinality(Active) + 1
    BY <2>1, FS_AddElement DEF Limit
  <2> QED BY <1>1, <1>3, <2>2 DEF Limit
<1> QED BY <1>2, <1>3

LEMMA InitInv == Init => Inv
<1> SUFFICES ASSUME Init PROVE Inv
  OBVIOUS
<1>1. Types
  BY DEF Init, Types, Off
<1>2. Active = {}
  BY DEF Init, Active
<1>3. Limit
  BY <1>2, FS_EmptySet, JobConstants DEF Limit
<1> QED
  BY <1>1, <1>3 DEF Init, Inv, ProcessInv, OwnerInv, AnswerInv, Finished

\* Every step keeps the variables in their ranges.
LEMMA StepTypes == Types /\ [Next]_vars => Types'
<1> SUFFICES ASSUME Types, [Next]_vars PROVE Types'
  OBVIOUS
<1> USE JobConstants
<1>1. ASSUME NEW o \in Owners, Close(o) PROVE Types'
  <2>1. cancelReq' \in [Jobs -> BOOLEAN]
    BY <1>1, Zenon DEF Types, Close
  <2>2. phase' \in [Owners -> {"live", "closing", "closed"}]
    BY <1>1 DEF Types, Close
  <2> QED BY <1>1, <2>1, <2>2 DEF Types, Close, procVars, callVars
<1>2. ASSUME NEW o \in Owners, CloseDone(o) PROVE Types'
  <2>1. phase' \in [Owners -> {"live", "closing", "closed"}]
    BY <1>2 DEF Types, CloseDone
  <2> QED BY <1>2, <2>1 DEF Types, CloseDone, procVars, callVars
<1>3. ASSUME NEW j \in Jobs, NEW k \in Calls, NEW timeout \in BOOLEAN,
             NEW block \in BOOLEAN, Run(j, k, timeout, block)
      PROVE  Types'
  <2>1. timer' \in [Jobs -> [Moments -> {"off", "ahead", "past"}]]
    BY <1>3 DEF Types, Run, Set, Moments
  <2>2. call' \in [Jobs -> [Calls -> {"none", "run", "result"}]]
    <3>1. call' = call \/ call' = [call EXCEPT ![j][k] = "run"]
      BY <1>3 DEF Run
    <3>2. [call EXCEPT ![j][k] = "run"] \in [Jobs -> [Calls -> {"none", "run", "result"}]]
      BY DEF Types
    <3> QED BY <3>1, <3>2 DEF Types
  <2>3. given' \in [Jobs -> SUBSET {"early", "late", "result"}]
    <3>1. given' = given \/ given' = [given EXCEPT ![j] = @ \union {"early"}]
      BY <1>3 DEF Run
    <3>2. [given EXCEPT ![j] = @ \union {"early"}]
              \in [Jobs -> SUBSET {"early", "late", "result"}]
      BY DEF Types
    <3> QED BY <3>1, <3>2 DEF Types
  <2>4. notify' \in [Jobs -> BOOLEAN]
    BY <1>3 DEF Types, Run
  <2> QED BY <1>3, <2>1, <2>2, <2>3, <2>4 DEF Types, Run, procVars, callVars
<1>4. ASSUME NEW j \in Jobs, NEW k \in Calls, Wait(j, k)
      PROVE  Types'
  BY <1>4 DEF Types, Wait, procVars, callVars
<1>5. ASSUME NEW j \in Jobs, NEW k \in Calls, Alarm(j, k)
      PROVE  Types'
  BY <1>5 DEF Types, Alarm, procVars, callVars
<1>6. ASSUME NEW j \in Jobs, NEW k \in Calls, DropCall(j, k)
      PROVE  Types'
  BY <1>6 DEF Types, DropCall, EndCall, procVars, callVars
<1>7. ASSUME NEW j \in Jobs, NEW k \in Calls, HandBack(j, k)
      PROVE  Types'
  BY <1>7 DEF Types, HandBack, EndCall, procVars, callVars
<1>8. ASSUME NEW j \in Jobs, NEW k \in Calls, Return(j, k)
      PROVE  Types'
  <2>1. event' \in [Jobs -> {"none", "unread", "read"}]
    BY <1>8 DEF Types, Return, Collect
  <2>2. given' \in [Jobs -> SUBSET {"early", "late", "result"}]
    <3>1. given' = given \/ given' = [given EXCEPT ![j] = @ \union {"result"}]
      BY <1>8 DEF Return
    <3>2. [given EXCEPT ![j] = @ \union {"result"}]
              \in [Jobs -> SUBSET {"early", "late", "result"}]
      BY DEF Types
    <3> QED BY <3>1, <3>2 DEF Types
  <2> QED BY <1>8, <2>1, <2>2 DEF Types, Return, EndCall, procVars, callVars
<1>9. ASSUME NEW j \in Jobs, Result(j)
      PROVE  Types'
  BY <1>9 DEF Types, Result, Collect, procVars, callVars
<1>10. ASSUME NEW j \in Jobs, Cancel(j)
      PROVE  Types'
  BY <1>10 DEF Types, Cancel, procVars, callVars
<1>11. ASSUME NEW j \in Jobs, Launch(j)
      PROVE  Types'
  BY <1>11 DEF Types, Launch, procVars, callVars
<1>12. ASSUME NEW j \in Jobs, Reap(j)
      PROVE  Types'
  BY <1>12 DEF Types, Reap, Publish, procVars, callVars
<1>13. ASSUME NEW j \in Jobs, Poll(j)
      PROVE  Types'
  BY <1>13 DEF Types, Poll, Expires, Kills, Set, Moments, procVars, callVars
<1>14. ASSUME NEW j \in Jobs, NEW why \in {"cancelled", "failed"}, NeverRun(j, why)
      PROVE  Types'
  BY <1>14 DEF Types, NeverRun, Publish, Off, procVars, callVars
<1>15. ASSUME NEW j \in Jobs, 
             NEW why \in {"completed", "cancelled", "timed_out", "failed"}, Stop(j, why)
      PROVE  Types'
  BY <1>15 DEF Types, Stop, KillGroup, Off, procVars, callVars
<1>16. ASSUME NEW j \in Jobs, Exit(j)
      PROVE  Types'
  BY <1>16 DEF Types, Exit, procVars, callVars
<1>17. ASSUME NEW j \in Jobs, NEW how \in {"none", "holding", "detached"}, Descend(j, how)
      PROVE  Types'
  BY <1>17 DEF Types, Descend, procVars, callVars
<1>18. ASSUME NEW j \in Jobs, NEW k \in Moments, Tick(j, k)
      PROVE  Types'
  BY <1>18 DEF Types, Tick, procVars, callVars
<1>19. CASE UNCHANGED vars
  BY <1>19 DEF Types, vars, procVars, callVars
<1> QED
  BY <1>1, <1>2, <1>3, <1>4, <1>5, <1>6, <1>7, <1>8, <1>9, <1>10, <1>11, <1>12, <1>13, <1>14, <1>15, <1>16, <1>17, <1>18, <1>19
     DEF Next

LEMMA StepLimit == Types /\ Limit /\ [Next]_vars => Limit'
<1> SUFFICES ASSUME Types, Limit, [Next]_vars PROVE Limit'
  OBVIOUS
<1>1. Types'
  BY StepTypes
<1>2. CASE task' = task
  BY <1>1, <1>2, LimitKept DEF Active, Finished
<1>3. ASSUME NEW j \in Jobs, NEW k \in Calls, NEW timeout \in BOOLEAN,
             NEW block \in BOOLEAN, Run(j, k, timeout, block)
      PROVE  Limit'
  <2>1. Active' = Active \union {j} /\ Cardinality(Active) < MaxActive
    BY <1>3 DEF Run, Active, Finished, Types
  <2> QED BY <1>1, <2>1, LimitKept
<1>4. ASSUME NEW j \in Jobs, task[j] \notin {"none", "done"}, NEW now,
             task' = [task EXCEPT ![j] = now]
      PROVE  Limit'
  <2>1. Active' \subseteq Active
    BY <1>4 DEF Active, Finished, Types
  <2> QED BY <1>1, <2>1, LimitKept
<1>5. ASSUME NEW j \in Jobs,
             \/ Launch(j) \/ Reap(j) \/ \E why \in {"cancelled", "failed"} : NeverRun(j, why)
             \/ \E why \in {"completed", "cancelled", "timed_out", "failed"} : Stop(j, why)
      PROVE  Limit'
  <2>1. task[j] \notin {"none", "done"} /\ \E now : task' = [task EXCEPT ![j] = now]
    BY <1>5 DEF Launch, Reap, NeverRun, Stop
  <2> QED BY <1>4, <2>1
<1> QED
  BY <1>2, <1>3, <1>5
     DEF Next, vars, Close, CloseDone, Wait, Alarm, HandBack, Return, DropCall, Result,
         Cancel, Poll, Exit, Descend, Tick

\* Processes appear in a launch, and only die once the last pass has killed the group.
LEMMA StepProcess == Types /\ ProcessInv /\ [Next]_vars => ProcessInv'
<1> SUFFICES ASSUME Types, ProcessInv, [Next]_vars PROVE ProcessInv'
  OBVIOUS
<1>1. CASE task' = task /\ UNCHANGED procVars
  BY <1>1 DEF ProcessInv, procVars
<1>2. ASSUME NEW j \in Jobs, NEW k \in Calls, NEW timeout \in BOOLEAN,
             NEW block \in BOOLEAN, Run(j, k, timeout, block)
      PROVE  ProcessInv'
  BY <1>2 DEF ProcessInv, Types, Run, procVars
<1>3. ASSUME NEW j \in Jobs, Launch(j) PROVE ProcessInv'
  BY <1>3 DEF ProcessInv, Types, Launch
<1>4. ASSUME NEW j \in Jobs, NEW why, NeverRun(j, why) PROVE ProcessInv'
  BY <1>4 DEF ProcessInv, Types, NeverRun, procVars
<1>5. ASSUME NEW j \in Jobs, Poll(j) PROVE ProcessInv'
  BY <1>5 DEF ProcessInv, Types, Poll
<1>6. ASSUME NEW j \in Jobs, NEW why, Stop(j, why) PROVE ProcessInv'
  BY <1>6 DEF ProcessInv, Types, Stop, KillGroup
<1>7. ASSUME NEW j \in Jobs, Reap(j) PROVE ProcessInv'
  BY <1>7 DEF ProcessInv, Types, Reap, procVars
<1>8. ASSUME NEW j \in Jobs, Exit(j) PROVE ProcessInv'
  BY <1>8 DEF ProcessInv, Types, Exit
<1>9. ASSUME NEW j \in Jobs, NEW how, Descend(j, how) PROVE ProcessInv'
  BY <1>9 DEF ProcessInv, Types, Descend
<1> QED
  BY <1>1, <1>2, <1>3, <1>4, <1>5, <1>6, <1>7, <1>8, <1>9
     DEF Next, vars, Close, CloseDone, Wait, Alarm, HandBack, Return, DropCall, Result,
         Cancel, Tick

\* No task is created for an owner that is closing, and a close ends with none left.
LEMMA StepOwner == Types /\ OwnerInv /\ [Next]_vars => OwnerInv'
<1> SUFFICES ASSUME Types, OwnerInv, [Next]_vars PROVE OwnerInv'
  OBVIOUS
<1>1. CASE task' = task /\ phase' = phase
  BY <1>1 DEF OwnerInv
<1>2. ASSUME NEW o \in Owners, Close(o) PROVE OwnerInv'
  BY <1>2, JobConstants DEF OwnerInv, Types, Close
<1>3. ASSUME NEW o \in Owners, CloseDone(o) PROVE OwnerInv'
  <2>1. \A j \in Jobs : Owner[j] = o => task[j] \in {"none", "done"}
    BY <1>3 DEF CloseDone, Awaited, Active, Finished
  <2> QED BY <1>3, <2>1, JobConstants DEF OwnerInv, Types, CloseDone
<1>4. ASSUME NEW j \in Jobs, NEW k \in Calls, NEW timeout \in BOOLEAN,
             NEW block \in BOOLEAN, Run(j, k, timeout, block)
      PROVE  OwnerInv'
  BY <1>4 DEF OwnerInv, Types, Run
<1>5. ASSUME NEW j \in Jobs, Launch(j) \/ \E why : Stop(j, why) PROVE OwnerInv'
  BY <1>5, SMTT(30) DEF OwnerInv, Types, Launch, Stop
<1>6. ASSUME NEW j \in Jobs, Reap(j) PROVE OwnerInv'
  BY <1>6 DEF OwnerInv, Types, Reap
<1>7. ASSUME NEW j \in Jobs, NEW why, NeverRun(j, why) PROVE OwnerInv'
  BY <1>7 DEF OwnerInv, Types, NeverRun
<1> QED
  BY <1>1, <1>2, <1>3, <1>4, <1>5, <1>6, <1>7
     DEF Next, vars, Wait, Alarm, HandBack, Return, DropCall, Result, Cancel, Poll, Exit,
         Descend, Tick

\* A hand-back sets the job's announcement, the end of the job keeps it, and only
\* the end makes an event unread, before any result.
LEMMA StepAnswer == Types /\ AnswerInv /\ [Next]_vars => AnswerInv'
<1> SUFFICES ASSUME Types, AnswerInv, [Next]_vars PROVE AnswerInv'
  OBVIOUS
<1> USE DEF Finished
<1>1. CASE UNCHANGED <<task, notify, event, call, given>> /\ phase' = phase
  BY <1>1 DEF AnswerInv
<1>2. ASSUME NEW o \in Owners, Close(o) \/ CloseDone(o) PROVE AnswerInv'
  <2>1. /\ UNCHANGED <<task, notify, event, call, given>>
        /\ \A p \in Owners : phase'[p] = "live" => phase[p] = "live"
    BY <1>2 DEF Types, Close, CloseDone, callVars
  <2> QED BY <2>1, JobConstants DEF AnswerInv
<1>3. ASSUME NEW j \in Jobs, NEW k \in Calls, NEW timeout \in BOOLEAN,
             NEW block \in BOOLEAN, Run(j, k, timeout, block)
      PROVE  AnswerInv'
  <2>1. CASE block
    BY <1>3, <2>1 DEF AnswerInv, Types, Run
  <2>2. CASE ~block
    <3>1. given[j] = {} /\ given' = [given EXCEPT ![j] = {"early"}]
      BY <1>3, <2>2 DEF AnswerInv, Run
    <3>2. task'[j] = "scheduled" /\ notify'[j] /\ given'[j] = {"early"}
      <4>1. notify'[j] = ~block
        BY <1>3, ZenonT(40) DEF Types, Run
      <4> QED BY <1>3, <2>2, <3>1, <4>1 DEF Types, Run
    <3>3. \A i \in Jobs \ {j} :
            task'[i] = task[i] /\ notify'[i] = notify[i] /\ given'[i] = given[i]
      BY <1>3, <3>1 DEF Types, Run
    <3>4. UNCHANGED <<call, event, phase>>
      BY <1>3, <2>2 DEF Run
    <3> QED BY <3>2, <3>3, <3>4 DEF AnswerInv
  <2> QED BY <2>1, <2>2
<1>4. ASSUME NEW j \in Jobs, NEW k \in Calls, Wait(j, k) PROVE AnswerInv'
  BY <1>4 DEF AnswerInv, Types, Wait
<1>5. ASSUME NEW j \in Jobs, NEW k \in Calls, HandBack(j, k) PROVE AnswerInv'
  BY <1>5 DEF AnswerInv, Types, HandBack, EndCall
<1>6. ASSUME NEW j \in Jobs, NEW k \in Calls, Return(j, k) PROVE AnswerInv'
  BY <1>6 DEF AnswerInv, Types, Return, Collect, EndCall
<1>7. ASSUME NEW j \in Jobs, NEW k \in Calls, DropCall(j, k) PROVE AnswerInv'
  BY <1>7 DEF AnswerInv, Types, DropCall, EndCall
<1>8. ASSUME NEW j \in Jobs, Result(j) PROVE AnswerInv'
  BY <1>8 DEF AnswerInv, Types, Result, Collect
<1>9. ASSUME NEW j \in Jobs, Launch(j) PROVE AnswerInv'
  BY <1>9 DEF AnswerInv, Types, Launch, callVars
<1>10. ASSUME NEW j \in Jobs, NEW why, NeverRun(j, why) PROVE AnswerInv'
  BY <1>10, JobConstants DEF AnswerInv, Types, NeverRun, Publish, callVars
<1>11. ASSUME NEW j \in Jobs, NEW why, Stop(j, why) PROVE AnswerInv'
  BY <1>11 DEF AnswerInv, Types, Stop, callVars
<1>12. ASSUME NEW j \in Jobs, Reap(j) PROVE AnswerInv'
  BY <1>12, JobConstants DEF AnswerInv, Types, Reap, Publish, callVars
<1> QED
  BY <1>1, <1>2, <1>3, <1>4, <1>5, <1>6, <1>7, <1>8, <1>9, <1>10, <1>11, <1>12
     DEF Next, vars, callVars, Alarm, Cancel, Poll, Exit, Descend, Tick

LEMMA InvHolds == Spec => []Inv
<1>1. Inv /\ [Next]_vars => Inv'
  BY StepTypes, StepLimit, StepProcess, StepOwner, StepAnswer DEF Inv
<1> QED
  BY InitInv, <1>1, PTL DEF Spec
----------------------------------------------------------------------------
\* Every variable stays in its range, and at most MAX_ACTIVE_JOBS jobs are active,
\* those that are being reaped included (ShellJobs.start, _run).
THEOREM TypeCorrect == Spec => []TypeOK
<1>1. Inv => TypeOK
  BY DEF Inv, Types, Limit, TypeOK
<1> QED
  BY <1>1, InvHolds, PTL

\* A finished job leaves no process, whether it ended by itself, was cancelled or
\* timed out, failed or never ran (_run's finally).
THEOREM NothingStrays == Spec => []NoStrayProcess
<1>1. Inv => NoStrayProcess
  BY DEF Inv, ProcessInv, NoStrayProcess, Finished
<1> QED
  BY <1>1, InvHolds, PTL

\* When an owner's jobs are closed none of its jobs runs or will run (close).
THEOREM OwnersTakeTheirJobs == Spec => []JobsEndWithOwner
<1>1. Inv => JobsEndWithOwner
  BY DEF Inv, ProcessInv, OwnerInv, JobsEndWithOwner, Active, Finished
<1> QED
  BY <1>1, InvHolds, PTL

\* A job handed back while it ran announces its end, and a collected result leaves no
\* unread event, however many calls overlap (the notify flag of shell.run and
\* shell.result, _publish_job, the finished payload of the calls).
THEOREM EndsTold == Spec => []EndsAreTold
<1>1. Inv => HandedBackIsAnnounced
  BY DEF Inv, AnswerInv, HandedBackIsAnnounced
<1>2. Inv => CollectedIsRead
  BY DEF Inv, AnswerInv, CollectedIsRead
<1>3. Inv => EndsAreTold
  BY <1>1, <1>2 DEF EndsAreTold
<1> QED
  BY <1>3, InvHolds, PTL

\* The deadline relabels only a process that still runs (_run's loop).
THEOREM DeadlineSparesExited == Spec => TimeoutOnlyOfRunning
<1>1. Types /\ [Next]_vars =>
          [\A j \in Jobs : timedOut'[j] /\ ~timedOut[j] => bash[j] = "running"]_vars
  <2> SUFFICES ASSUME Types, [Next]_vars
               PROVE  \A j \in Jobs : timedOut'[j] /\ ~timedOut[j] => bash[j] = "running"
    OBVIOUS
  <2>1. CASE timedOut' = timedOut
    BY <2>1
  <2>2. ASSUME NEW j \in Jobs, Poll(j)
        PROVE  \A i \in Jobs : timedOut'[i] /\ ~timedOut[i] => bash[i] = "running"
    BY <2>2 DEF Poll, Expires, Types
  <2> QED
    BY <2>1, <2>2
       DEF Next, vars, Close, CloseDone, Run, Wait, Alarm, HandBack, Return, DropCall,
           Result, Cancel, Launch, NeverRun, Stop, Reap, Exit, Descend, Tick
<1>2. Inv => Types
  BY DEF Inv
<1> QED
  BY <1>1, <1>2, InvHolds, PTL DEF Spec, TimeoutOnlyOfRunning
============================================================================
