-------------------------- MODULE RemoteJobsProofs --------------------------
(***************************************************************************)
(* For any owners, jobs, slots and sizes: the variables of RemoteJobs keep *)
(* their types, no block of output is lost or copied twice while the pump  *)
(* lives, and the copy of a job reported finished is whole.                *)
(***************************************************************************)
EXTENDS RemoteJobs, TLAPS

EventRange == [n : Nat, last : BOOLEAN]

Types ==
    /\ up \in BOOLEAN
    /\ rpc \in [Requests -> {"idle", "sent", "handling", "ok", "error"}]
    /\ record \in [Jobs -> {"none", "starting", "dropped", "running", "finished"}]
    /\ ended \in [Jobs -> {"none", "worker", "disconnect"}]
    /\ copied \in [Jobs -> Nat]
    /\ early \in [Jobs -> EventRange]
    /\ pump \in {"running", "down"}
    /\ phase \in [Owners -> {"live", "closing", "closed"}]
    /\ closing \in [Owners -> SUBSET Jobs]
    /\ work \in [Jobs -> {"none", "running", "finished"}]
    /\ asked \in [Jobs -> BOOLEAN]
    /\ out \in [Jobs -> Nat]
    /\ sent \in [Jobs -> Nat]
    /\ changed \in [Jobs -> {"no", "output", "finished"}]
    /\ batch \in [Jobs -> EventRange]

Sizes == \A j \in Jobs :
    out[j] <= MaxOutput /\ sent[j] <= out[j] /\ copied[j] <= sent[j]

\* A request to start a job is made once, before the job exists at the worker, and
\* a reply of the poll lies ready only until the pump has applied it.
ProtocolInv ==
    /\ \A j \in Jobs :
         /\ record[j] = "none" => rpc[<<"start", j>>] = "idle" /\ work[j] = "none"
         /\ rpc[<<"start", j>>] = "sent" => work[j] = "none"
         /\ changed[j] = "finished" => work[j] = "finished"
    /\ rpc[Poll] \in {"sent", "handling"} => batch = Empty

\* What a record says of its end, and when it holds a copy or early events.
RecordInv == \A j \in Jobs :
    /\ record[j] = "finished" <=> ended[j] # "none"
    /\ record[j] \in {"none", "starting", "dropped"} => copied[j] = 0
    /\ record[j] \in {"running", "finished"} => early[j] = NoEvent

\* Every block the worker counts as reported is somewhere.
Accounted == \A j \in Jobs :
    ended[j] # "disconnect" => copied[j] + early[j].n + batch[j].n = sent[j]

\* Nothing more comes for a job whose last event is on its way or was applied.
Final(j) == work[j] = "finished" /\ changed[j] = "no" /\ sent[j] = out[j]
LastInv == \A j \in Jobs :
    /\ batch[j].last => Final(j)
    /\ early[j].last => Final(j) /\ batch[j].n = 0
    /\ ended[j] = "worker" => Final(j) /\ batch[j].n = 0

Parts == Sizes /\ ProtocolInv /\ RecordInv /\ Accounted /\ LastInv
Inv == Types /\ Parts
----------------------------------------------------------------------------
\* Requests of different kinds, or for different jobs, are different.
LEMMA RequestsDiffer ==
    /\ Poll \in Requests
    /\ \A j \in Jobs : <<"start", j>> \in Requests /\ <<"cancel", j>> \in Requests
    /\ \A o \in Owners : <<"close", o>> \in Requests
    /\ \A x : <<"start", x>> # Poll /\ <<"cancel", x>> # Poll /\ <<"close", x>> # Poll
    /\ \A x, y : /\ <<"start", x>> # <<"cancel", y>>
                 /\ <<"start", x>> # <<"close", y>>
                 /\ <<"start", x>> = <<"start", y>> => x = y
BY DEF Requests, Starts, Cancels, Closes, Poll

LEMMA InitInv == Init => Inv
<1> SUFFICES ASSUME Init PROVE Inv
  OBVIOUS
<1>1. Types
  BY DEF Init, Types, EventRange, Empty, NoEvent
<1>2. Sizes /\ RecordInv /\ Accounted
  BY RemoteConstants DEF Init, Sizes, RecordInv, Accounted, Empty, NoEvent
<1>3. ProtocolInv
  BY RequestsDiffer DEF Init, ProtocolInv
<1>4. LastInv
  BY DEF Init, LastInv, Empty, NoEvent
<1> QED
  BY <1>1, <1>2, <1>3, <1>4 DEF Inv, Parts

LEMMA StepTypes == Types /\ [Next]_vars => Types'
<1> SUFFICES ASSUME Types, [Next]_vars PROVE Types'
  OBVIOUS
<1> USE RequestsDiffer, RemoteConstants DEF supervisorVars, workerVars
<1>1. ASSUME NEW j \in Jobs, Start(j) PROVE Types'
  BY <1>1 DEF Types, Start, Send
<1>2. ASSUME NEW j \in Jobs, DropStart(j) PROVE Types'
  BY <1>2 DEF Types, DropStart
<1>3. ASSUME NEW j \in Jobs, StartReturns(j) PROVE Types'
  BY <1>3 DEF Types, StartReturns, Early, EventRange, NoEvent
<1>4. ASSUME NEW j \in Jobs, StartFails(j) PROVE Types'
  BY <1>4 DEF Types, StartFails
<1>5. ASSUME NEW j \in Jobs, Cancel(j) PROVE Types'
  BY <1>5 DEF Types, Cancel, Send
<1>6. ASSUME NEW j \in Jobs, CancelReturns(j) PROVE Types'
  BY <1>6 DEF Types, CancelReturns
<1>7. ASSUME NEW o \in Owners, Close(o) PROVE Types'
  BY <1>7 DEF Types, Close, Send
<1>8. ASSUME NEW o \in Owners, CloseFails(o) PROVE Types'
  BY <1>8 DEF Types, CloseFails, Disconnect
<1>9. ASSUME NEW o \in Owners, CloseReturns(o) PROVE Types'
  BY <1>9 DEF Types, CloseReturns
<1>10. ASSUME Apply PROVE Types'
  BY <1>10 DEF Types, Apply, Send, EventRange, Empty, NoEvent
<1>11. ASSUME PumpEnds PROVE Types'
  BY <1>11 DEF Types, PumpEnds, Disconnect
<1>12. ASSUME NEW r \in Requests, Refuse(r) PROVE Types'
  BY <1>12 DEF Types, Refuse
<1>13. ASSUME NEW r \in Requests, Handle(r) PROVE Types'
  BY <1>13 DEF Types, Handle
<1>14. ASSUME NEW r \in Requests, Reply(r) PROVE Types'
  BY <1>14 DEF Types, Reply
<1>15. ASSUME NEW j \in Jobs, Output(j) PROVE Types'
  BY <1>15 DEF Types, Output
<1>16. ASSUME NEW j \in Jobs, End(j) PROVE Types'
  BY <1>16 DEF Types, End
<1>17. ASSUME NEW take \in [Jobs -> 0 .. EventBytes], Events(take) PROVE Types'
  BY <1>17 DEF Types, Events, Advanced, More, StaysChanged, EventRange
<1>18. ASSUME Lose PROVE Types'
  <2>1. rpc' \in [Requests -> {"idle", "sent", "handling", "ok", "error"}]
    <3>1. PICK lost : rpc' = [r \in Requests |->
                   IF rpc[r] \in {"sent", "handling"} \/ r \in lost THEN "error"
                                                                   ELSE rpc[r]]
      BY <1>18 DEF Lose
    <3> QED BY <3>1 DEF Types
  <2>2. asked' \in [Jobs -> BOOLEAN]
    BY <1>18, Zenon DEF Types, Lose
  <2> QED BY <1>18, <2>1, <2>2 DEF Types, Lose
<1>19. CASE UNCHANGED vars
  BY <1>19 DEF Types, vars
<1> QED
  BY <1>1, <1>2, <1>3, <1>4, <1>5, <1>6, <1>7, <1>8, <1>9, <1>10, <1>11, <1>12, <1>13, <1>14, <1>15, <1>16, <1>17, <1>18, <1>19
     DEF Next

\* The pump adds a reply to the copy of a running job, and keeps it for one
\* without a record; a finished record gets none, for none is left.
LEMMA ApplyStep ==
    ASSUME Inv, Apply PROVE Parts'
<1> USE DEF Inv, Parts
<1>1. ASSUME NEW j \in Jobs
      PROVE  /\ copied[j] \in Nat /\ early[j].n \in Nat /\ batch[j].n \in Nat /\ sent[j] \in Nat
             /\ early'[j].n = IF record[j] \in {"running", "finished"}
                                THEN early[j].n ELSE early[j].n + batch[j].n
             /\ early'[j].last <=> early[j].last
                    \/ (record[j] \notin {"running", "finished"} /\ batch[j].last)
             /\ record[j] \in {"running", "finished"} => early'[j] = early[j]
             /\ copied'[j] = IF record[j] = "running" THEN copied[j] + batch[j].n ELSE copied[j]
             /\ record'[j] = IF record[j] = "running" /\ batch[j].last THEN "finished"
                                                                      ELSE record[j]
             /\ ended'[j] = IF record[j] = "running" /\ batch[j].last THEN "worker" ELSE ended[j]
             /\ batch'[j].n = 0 /\ ~batch'[j].last
  BY DEF Types, EventRange, Apply, Empty, NoEvent
<1>2. UNCHANGED <<work, out, sent, changed>> /\ batch' = Empty
  BY DEF Apply
<1>3. ASSUME NEW j \in Jobs, record[j] = "running"
      PROVE  ended[j] = "none" /\ early[j].n = 0 /\ copied[j] + batch[j].n = sent[j]
  BY <1>1, <1>3 DEF RecordInv, Accounted, NoEvent
<1>4. Sizes'
  <2>1. ASSUME NEW j \in Jobs PROVE copied'[j] <= sent[j]
    BY <1>1, <1>3 DEF Sizes
  <2> QED BY <1>2, <2>1 DEF Sizes
<1>5. ProtocolInv'
  <2>1. ASSUME NEW j \in Jobs
        PROVE  rpc'[<<"start", j>>] = rpc[<<"start", j>>] /\ (record'[j] = "none" => record[j] = "none")
    BY <1>1, RequestsDiffer DEF Apply, Send, Types
  <2> QED BY <1>2, <2>1 DEF ProtocolInv
<1>6. RecordInv'
  BY <1>1 DEF RecordInv
<1>7. Accounted'
  <2>1. ASSUME NEW j \in Jobs, ended'[j] # "disconnect"
        PROVE  copied'[j] + early'[j].n + batch'[j].n = sent[j]
    <3>1. copied[j] + early[j].n + batch[j].n = sent[j]
      BY <1>1, <1>3, <2>1 DEF Accounted
    <3>2. CASE record[j] = "running"
      BY <1>1, <1>3, <3>2
    <3>3. CASE record[j] = "finished"
      <4>1. batch[j].n = 0
        BY <1>1, <2>1, <3>3 DEF RecordInv, LastInv, Types
      <4> QED BY <1>1, <3>1, <3>3, <4>1
    <3>4. CASE record[j] \notin {"running", "finished"}
      BY <1>1, <3>1, <3>4
    <3> QED BY <3>2, <3>3, <3>4
  <2> QED BY <1>2, <2>1 DEF Accounted
<1>8. LastInv'
  BY <1>1, <1>2 DEF LastInv, Final
<1> QED
  BY <1>4, <1>5, <1>6, <1>7, <1>8

\* A job is started before it has output or an end.
LEMMA HandleStep ==
    ASSUME Inv, NEW r \in Requests, Handle(r) PROVE Parts'
<1> USE DEF Inv, Parts
<1>1. UNCHANGED <<record, ended, copied, early, out, sent, changed, batch>>
  BY DEF Handle, supervisorVars
<1>2. rpc[r] = "sent" /\ \A q \in Requests : rpc'[q] = IF q = r THEN "handling" ELSE rpc[q]
  BY DEF Handle, Types
<1>3. ASSUME NEW j \in Jobs, r = <<"start", j>>
      PROVE  work[j] = "none" /\ record[j] # "none" /\ work'[j] = "running"
  BY <1>2, <1>3 DEF ProtocolInv, Handle
<1>4. ASSUME NEW j \in Jobs, r # <<"start", j>>
      PROVE  work'[j] = work[j]
  BY <1>4 DEF Handle
<1>5. Sizes' /\ RecordInv' /\ Accounted'
  BY <1>1 DEF Sizes, RecordInv, Accounted
<1>6. ProtocolInv'
  <2>1. ASSUME NEW j \in Jobs
        PROVE  /\ record[j] = "none" => rpc'[<<"start", j>>] = "idle" /\ work'[j] = "none"
               /\ rpc'[<<"start", j>>] = "sent" => work'[j] = "none"
               /\ changed[j] = "finished" => work'[j] = "finished"
    <3>1. CASE r = <<"start", j>>
      BY <1>2, <1>3, <3>1 DEF ProtocolInv
    <3>2. CASE r # <<"start", j>>
      BY <1>2, <1>4, <3>2, RequestsDiffer DEF ProtocolInv
    <3> QED BY <3>1, <3>2
  <2>2. rpc'[Poll] \in {"sent", "handling"} => batch = Empty
    BY <1>2, RequestsDiffer DEF ProtocolInv
  <2> QED BY <1>1, <2>1, <2>2 DEF ProtocolInv
<1>7. LastInv'
  <2>1. ASSUME NEW j \in Jobs, Final(j) PROVE Final(j)'
    BY <1>1, <1>3, <1>4, <2>1 DEF Final
  <2> QED BY <1>1, <2>1 DEF LastInv
<1> QED
  BY <1>5, <1>6, <1>7

\* A reply takes what it reports from the output that was not reported, and calls
\* an event the last one only if nothing is left behind.
LEMMA EventsStep ==
    ASSUME Inv, NEW take \in [Jobs -> 0 .. EventBytes], Events(take) PROVE Parts'
<1> USE DEF Inv, Parts
<1>1. batch = Empty
  BY DEF Events, ProtocolInv
<1>2. ASSUME NEW j \in Jobs
      PROVE  /\ take[j] \in Nat /\ sent[j] \in Nat /\ out[j] \in Nat /\ copied[j] \in Nat
             /\ early[j].n \in Nat
             /\ changed[j] = "no" => take[j] = 0
             /\ sent[j] + take[j] <= out[j]
             /\ batch'[j].n = take[j]
             /\ batch'[j].last <=> changed[j] = "finished" /\ ~(sent[j] + take[j] < out[j])
             /\ sent'[j] = sent[j] + take[j]
             /\ changed'[j] = IF sent[j] + take[j] < out[j] THEN changed[j] ELSE "no"
  <2>1. take[j] <= (IF changed[j] = "no" THEN 0 ELSE out[j] - sent[j])
    BY DEF Events
  <2>2. /\ take[j] \in Nat /\ sent[j] \in Nat /\ out[j] \in Nat /\ copied[j] \in Nat
        /\ early[j].n \in Nat /\ sent[j] <= out[j]
    BY RemoteConstants DEF Types, EventRange, Sizes
  <2>3. /\ batch'[j].n = take[j]
        /\ batch'[j].last <=> changed[j] = "finished" /\ ~(sent[j] + take[j] < out[j])
        /\ sent'[j] = sent[j] + take[j]
        /\ changed'[j] = IF sent[j] + take[j] < out[j] THEN changed[j] ELSE "no"
    BY DEF Events, Advanced, StaysChanged, More
  <2> QED BY <2>1, <2>2, <2>3
<1>3. UNCHANGED <<record, ended, copied, early, work, out>>
  BY DEF Events, supervisorVars
<1>4. Sizes'
  BY <1>2, <1>3 DEF Sizes
<1>5. ProtocolInv'
  <2>1. rpc'[Poll] = "ok" /\ \A j \in Jobs : rpc'[<<"start", j>>] = rpc[<<"start", j>>]
    BY RequestsDiffer DEF Events, Types
  <2>2. ASSUME NEW j \in Jobs, changed'[j] = "finished" PROVE changed[j] = "finished"
    BY <1>2, <2>2
  <2> QED BY <1>3, <2>1, <2>2 DEF ProtocolInv
<1>6. RecordInv'
  BY <1>3 DEF RecordInv
<1>7. Accounted'
  <2>1. ASSUME NEW j \in Jobs, ended[j] # "disconnect"
        PROVE  copied[j] + early[j].n + batch'[j].n = sent'[j]
    <3>1. copied[j] + early[j].n + 0 = sent[j]
      BY <1>1, <2>1 DEF Accounted, Empty, NoEvent
    <3> QED BY <1>2, <3>1
  <2> QED BY <1>3, <2>1 DEF Accounted
<1>8. LastInv'
  <2>1. ASSUME NEW j \in Jobs, Final(j)
        PROVE  Final(j)' /\ batch'[j].n = 0
    BY <1>2, <1>3, <2>1 DEF Final
  <2>2. ASSUME NEW j \in Jobs, batch'[j].last PROVE Final(j)'
    <3>1. work[j] = "finished"
      BY <1>2, <2>2 DEF ProtocolInv
    <3> QED BY <1>2, <1>3, <2>2, <3>1 DEF Final
  <2> QED BY <1>3, <2>1, <2>2 DEF LastInv
<1> QED
  BY <1>4, <1>5, <1>6, <1>7, <1>8

\* The loss of the connection turns requests into errors and changes no count.
LEMMA LoseStep ==
    ASSUME Inv, Lose PROVE Parts'
<1> USE DEF Inv, Parts
<1>1. UNCHANGED <<record, ended, copied, early, work, out, sent, changed, batch>>
  BY DEF Lose, supervisorVars
<1>2. \A r \in Requests : rpc'[r] = rpc[r] \/ (rpc'[r] = "error" /\ rpc[r] # "idle")
  <2>1. PICK lost \in SUBSET {r \in Requests : rpc[r] = "ok"} :
           rpc' = [r \in Requests |->
                     IF rpc[r] \in {"sent", "handling"} \/ r \in lost THEN "error"
                                                                     ELSE rpc[r]]
    BY DEF Lose
  <2>2. \A r \in lost : rpc[r] = "ok"
    OBVIOUS
  <2> QED BY <2>1, <2>2
<1>3. ProtocolInv'
  BY <1>1, <1>2, RequestsDiffer DEF ProtocolInv
<1> QED
  BY <1>1, <1>3 DEF Sizes, RecordInv, Accounted, LastInv, Final

LEMMA StepInv == Inv /\ [Next]_vars => Inv'
<1> SUFFICES ASSUME Inv, [Next]_vars PROVE Inv'
  OBVIOUS
<1>0. Types'
  BY StepTypes DEF Inv
<1> USE RequestsDiffer, RemoteConstants
      DEF Inv, Parts, Types, supervisorVars, workerVars, EventRange
<1>1. ASSUME NEW j \in Jobs, Start(j) PROVE Parts'
  BY <1>1 DEF Sizes, ProtocolInv, RecordInv, Accounted, LastInv, Final,
                Start, Send
<1>2. ASSUME NEW j \in Jobs, DropStart(j) PROVE Parts'
  BY <1>2 DEF Sizes, ProtocolInv, RecordInv, Accounted, LastInv, Final,
                DropStart
<1>3. ASSUME NEW j \in Jobs, StartReturns(j) PROVE Parts'
  BY <1>3 DEF Sizes, ProtocolInv, RecordInv, Accounted, LastInv, Final,
                StartReturns, Early, NoEvent
<1>4. ASSUME NEW j \in Jobs, StartFails(j) PROVE Parts'
  BY <1>4 DEF Sizes, ProtocolInv, RecordInv, Accounted, LastInv, Final,
                StartFails
<1>5. ASSUME NEW j \in Jobs, Cancel(j) PROVE Parts'
  BY <1>5 DEF Sizes, ProtocolInv, RecordInv, Accounted, LastInv, Final,
                Cancel, Send
<1>6. ASSUME NEW j \in Jobs, CancelReturns(j) PROVE Parts'
  BY <1>6 DEF Sizes, ProtocolInv, RecordInv, Accounted, LastInv, Final,
                CancelReturns
<1>7. ASSUME NEW o \in Owners, Close(o) PROVE Parts'
  BY <1>7 DEF Sizes, ProtocolInv, RecordInv, Accounted, LastInv, Final,
                Close, Send
<1>8. ASSUME NEW o \in Owners, CloseFails(o) PROVE Parts'
  BY <1>8 DEF Sizes, ProtocolInv, RecordInv, Accounted, LastInv, Final,
                CloseFails, Disconnect
<1>9. ASSUME NEW o \in Owners, CloseReturns(o) PROVE Parts'
  BY <1>9 DEF Sizes, ProtocolInv, RecordInv, Accounted, LastInv, Final,
                CloseReturns
<1>10. ASSUME Apply PROVE Parts'
  BY <1>10, ApplyStep
<1>11. ASSUME PumpEnds PROVE Parts'
  BY <1>11 DEF Sizes, ProtocolInv, RecordInv, Accounted, LastInv, Final,
                PumpEnds, Disconnect
<1>12. ASSUME NEW r \in Requests, Refuse(r) PROVE Parts'
  BY <1>12 DEF Sizes, ProtocolInv, RecordInv, Accounted, LastInv, Final,
                Refuse
<1>13. ASSUME NEW r \in Requests, Handle(r) PROVE Parts'
  BY <1>13, HandleStep
<1>14. ASSUME NEW r \in Requests, Reply(r) PROVE Parts'
  BY <1>14 DEF Sizes, ProtocolInv, RecordInv, Accounted, LastInv, Final,
                Reply
<1>15. ASSUME NEW j \in Jobs, Output(j) PROVE Parts'
  BY <1>15 DEF Sizes, ProtocolInv, RecordInv, Accounted, LastInv, Final,
                Output
<1>16. ASSUME NEW j \in Jobs, End(j) PROVE Parts'
  BY <1>16 DEF Sizes, ProtocolInv, RecordInv, Accounted, LastInv, Final,
                End
<1>17. ASSUME NEW take \in [Jobs -> 0 .. EventBytes], Events(take) PROVE Parts'
  BY <1>17, EventsStep
<1>18. ASSUME Lose PROVE Parts'
  BY <1>18, LoseStep
<1>19. CASE UNCHANGED vars
  BY <1>19 DEF Sizes, ProtocolInv, RecordInv, Accounted, LastInv, Final, vars
<1> QED
  BY <1>0, <1>1, <1>2, <1>3, <1>4, <1>5, <1>6, <1>7, <1>8, <1>9, <1>10,
     <1>11, <1>12, <1>13, <1>14, <1>15, <1>16, <1>17, <1>18, <1>19
     DEF Next

LEMMA InvHolds == Spec => []Inv
  BY InitInv, StepInv, PTL DEF Spec
----------------------------------------------------------------------------
\* Every variable stays in its range: the worker reports at most what the job
\* wrote, and the supervisor copies at most what was reported.
THEOREM TypeCorrect == Spec => []TypeOK
<1>1. Inv => TypeOK
  <2> SUFFICES ASSUME Inv PROVE TypeOK
    OBVIOUS
  <2>1. ASSUME NEW j \in Jobs
        PROVE  out[j] \in 0 .. MaxOutput /\ sent[j] \in 0 .. out[j] /\ copied[j] \in 0 .. sent[j]
    BY RemoteConstants DEF Inv, Parts, Types, Sizes
  <2> QED BY <2>1 DEF Inv, Types, TypeOK
<1> QED
  BY <1>1, InvHolds, PTL

\* However events, replies and requests overtake each other, and however little a
\* reply carries, no block of any job's output is lost or copied twice while the
\* pump lives (RemoteShellJobs.apply and start_remote, WorkspaceHost._events).
THEOREM OutputArrives == Spec => []OutputAccounted
<1>1. Inv => OutputAccounted
  BY DEF Inv, Parts, Accounted, OutputAccounted
<1> QED
  BY <1>1, InvHolds, PTL

\* The copy of a job reported finished is whole: "finished and not more" comes with
\* the last block (WorkspaceHost._events, RemoteShellJobs.apply).
THEOREM CopiesWhole == Spec => []CopyIsWhole
<1>1. Inv => CopyIsWhole
  <2> SUFFICES ASSUME Inv, NEW j \in Jobs, ended[j] = "worker"
               PROVE  work[j] = "finished" /\ copied[j] = out[j]
    BY DEF CopyIsWhole
  <2>1. Final(j) /\ batch[j].n = 0
    BY DEF Inv, Parts, LastInv
  <2>2. early[j].n = 0
    BY DEF Inv, Parts, Types, RecordInv, NoEvent
  <2>3. copied[j] + early[j].n + batch[j].n = sent[j]
    BY DEF Inv, Parts, Accounted
  <2> QED BY <2>1, <2>2, <2>3 DEF Final, Inv, Types
<1> QED
  BY <1>1, InvHolds, PTL
=============================================================================
