---------------------------- MODULE PartsProofs ----------------------------
(***************************************************************************)
(* What is proved of the parts that Parts composes, for all values of the  *)
(* constants: the worker's listener, services, path watches, skills        *)
(* mirrors, the ledger, the transcript and the catalog (their definitions  *)
(* carry the name of their instance: Workers!, Hosts!, Paths!, Skills!,    *)
(* File!, Talk!, Mcp!), and the broker, the model calls and the            *)
(* subscriptions, which Parts extends. Each part has an invariant of its   *)
(* own, one lemma for its initial states and one for each kind of step; a  *)
(* step of another part leaves it as it is (OnePartSteps).                 *)
(***************************************************************************)
EXTENDS Parts, FiniteSetTheorems, SequenceTheorems, WellFoundedInduction, TLAPS

\* A step of the composition is one of a part, and leaves the others alone.
LEMMA OnePartSteps ==
    ASSUME [PartsNext]_allVars
    PROVE  /\ Workers!NextWorker \/ UNCHANGED slotVars
           /\ Hosts!NextServices \/ UNCHANGED hostVars
           /\ Paths!NextWatches \/ UNCHANGED pathVars
           /\ Skills!NextSkills \/ UNCHANGED skillsVars
           /\ Mcp!NextCatalog \/ UNCHANGED mcpVars
           /\ File!NextLedger \/ UNCHANGED filesVars
           /\ Talk!NextTalk \/ UNCHANGED talksVars
  BY DEF PartsNext, BrokerSteps, ContextSteps, EventSteps, SkillSteps, ServiceSteps, PathSteps,
         WorkerSteps, TurnSteps, TalkSteps, FileSteps, McpSteps, Rest1, Rest2, Rest3, allVars

-----------------------------------------------------------------------------
(* The worker of split execution.                                          *)

WorkerTypes ==
    /\ harness \in [Sessions -> {"none", "connecting", "starting", "ready", "closing", "closed"}]
    /\ link \in [Sessions -> {"none", "open", "cut"}]
    /\ serve \in [Sessions -> {"none", "accepted", "serving", "ended"}]
    /\ start \in [Sessions -> {"none", "preparing", "assigned", "launching", "waiting", "done", "failed"}]
    /\ repl \in [Sessions -> BOOLEAN]
    /\ shut \in [Sessions -> BOOLEAN]
    /\ held \in [Sessions -> BOOLEAN]
    /\ kernel \in [Sessions -> {"none", "runs", "gone"}]
    /\ free \in Int
    /\ up \subseteq Sessions

\* A kernel that can be found belongs to a REPL that can be closed, and one that is
\* ready can be found: whoever ends the session ends it.
SessionInv(s) ==
    /\ harness[s] = "none" => serve[s] = "none" /\ link[s] = "none"
    /\ serve[s] = "ended" => link[s] = "cut"
    /\ harness[s] = "starting" => serve[s] \in {"serving", "ended"}
    /\ start[s] = "assigned" => repl[s] \/ shut[s]
    /\ start[s] \in {"launching", "waiting", "done"} /\ held[s] => repl[s]
    /\ start[s] = "done" /\ kernel[s] = "runs" => held[s]
    /\ s \in up => start[s] = "done" /\ serve[s] \in {"serving", "ended"}

WorkerInv ==
    /\ WorkerTypes
    /\ \A s \in Sessions : SessionInv(s)
    /\ Workers!SlotsAreReturned
    /\ Workers!KernelEndsWithSession

\* Worker counts with an instance of Cardinality.
LEMMA SameCardinality == \A S : Workers!Cardinality(S) = Cardinality(S)
  BY DEF Workers!Cardinality, Cardinality

LEMMA WorkerStarts ==
    ASSUME Workers!InitWorker, Slots \in Nat
    PROVE  WorkerInv
<1>1. Workers!Served = {}
  BY DEF Workers!InitWorker, Workers!Served
<1>2. Workers!SlotsAreReturned
  BY <1>1, FS_EmptySet, SameCardinality DEF Workers!InitWorker, Workers!SlotsAreReturned
<1> QED
  BY <1>2 DEF WorkerInv, Workers!InitWorker, WorkerTypes, SessionInv, Workers!KernelEndsWithSession

\* One action of one session, and what it leaves of the others.
SessionStep(s) ==
    \/ Workers!Connect(s) \/ Workers!Authenticated(s) \/ Workers!Started(s)
    \/ Workers!StartFails(s) \/ Workers!Shutdown(s) \/ Workers!CloseTransport(s) \/ Workers!Cut(s)
    \/ Workers!Accept(s) \/ Workers!Authenticate(s) \/ Workers!Unauthenticated(s)
    \/ Workers!StartRequested(s) \/ Workers!Prepared(s) \/ Workers!Submitted(s)
    \/ Workers!Launched(s) \/ Workers!Ready(s) \/ Workers!NotReady(s)
    \/ Workers!CloseRequested(s) \/ Workers!Close(s)

Elsewhere(s) ==
    \A r \in Sessions : r # s =>
        /\ harness'[r] = harness[r] /\ link'[r] = link[r] /\ serve'[r] = serve[r]
        /\ start'[r] = start[r] /\ repl'[r] = repl[r] /\ shut'[r] = shut[r]
        /\ held'[r] = held[r] /\ kernel'[r] = kernel[r] /\ (r \in up' <=> r \in up)

\* What a step of a session does to the listener's slots.
SlotStep(s) ==
    \/ free' = free /\ (s \in Workers!Served <=> s \in Workers!Served')
    \/ free' = free - 1 /\ s \notin Workers!Served /\ s \in Workers!Served'
    \/ free' = free + 1 /\ s \in Workers!Served /\ s \notin Workers!Served'

LEMMA HarnessStep ==
    ASSUME WorkerInv, NEW s \in Sessions,
           \/ Workers!Connect(s) \/ Workers!Authenticated(s) \/ Workers!Started(s)
           \/ Workers!StartFails(s) \/ Workers!Shutdown(s) \/ Workers!CloseTransport(s) \/ Workers!Cut(s)
    PROVE  /\ WorkerTypes' /\ SessionInv(s)' /\ Elsewhere(s) /\ SlotStep(s)
           /\ s \in up' /\ serve'[s] = "ended" => kernel'[s] # "runs"
<1>1. WorkerTypes /\ SessionInv(s) /\ (s \in up /\ serve[s] = "ended" => kernel[s] # "runs")
  BY DEF WorkerInv, Workers!KernelEndsWithSession
<1>2. CASE Workers!Connect(s)
  BY <1>1, <1>2 DEF Workers!Connect, WorkerTypes, SessionInv, Elsewhere, SlotStep, Workers!Served
<1>3. CASE Workers!Authenticated(s)
  BY <1>1, <1>3 DEF Workers!Authenticated, WorkerTypes, SessionInv, Elsewhere, SlotStep, Workers!Served
<1>4. CASE Workers!Started(s)
  BY <1>1, <1>4 DEF Workers!Started, WorkerTypes, SessionInv, Elsewhere, SlotStep, Workers!Served
<1>5. CASE Workers!StartFails(s)
  BY <1>1, <1>5 DEF Workers!StartFails, WorkerTypes, SessionInv, Elsewhere, SlotStep, Workers!Served
<1>6. CASE Workers!Shutdown(s)
  BY <1>1, <1>6 DEF Workers!Shutdown, WorkerTypes, SessionInv, Elsewhere, SlotStep, Workers!Served
<1>7. CASE Workers!CloseTransport(s)
  BY <1>1, <1>7 DEF Workers!CloseTransport, WorkerTypes, SessionInv, Elsewhere, SlotStep, Workers!Served
<1>8. CASE Workers!Cut(s)
  BY <1>1, <1>8 DEF Workers!Cut, WorkerTypes, SessionInv, Elsewhere, SlotStep, Workers!Served
<1> QED
  BY <1>2, <1>3, <1>4, <1>5, <1>6, <1>7, <1>8

LEMMA ListenerStep ==
    ASSUME WorkerInv, NEW s \in Sessions,
           \/ Workers!Accept(s) \/ Workers!Authenticate(s) \/ Workers!Unauthenticated(s)
           \/ Workers!CloseRequested(s) \/ Workers!Close(s)
    PROVE  /\ WorkerTypes' /\ SessionInv(s)' /\ Elsewhere(s) /\ SlotStep(s)
           /\ s \in up' /\ serve'[s] = "ended" => kernel'[s] # "runs"
<1>1. WorkerTypes /\ SessionInv(s) /\ (s \in up /\ serve[s] = "ended" => kernel[s] # "runs")
  BY DEF WorkerInv, Workers!KernelEndsWithSession
<1>2. CASE Workers!Accept(s)
  <2>1. CASE free = 0
    BY <1>1, <1>2, <2>1 DEF Workers!Accept, WorkerTypes, SessionInv, Elsewhere, SlotStep, Workers!Served
  <2>2. CASE free # 0
    BY <1>1, <1>2, <2>2 DEF Workers!Accept, WorkerTypes, SessionInv, Elsewhere, SlotStep, Workers!Served
  <2> QED
    BY <2>1, <2>2
<1>3. CASE Workers!Authenticate(s)
  BY <1>1, <1>3 DEF Workers!Authenticate, WorkerTypes, SessionInv, Elsewhere, SlotStep, Workers!Served
<1>4. CASE Workers!Unauthenticated(s)
  BY <1>1, <1>4 DEF Workers!Unauthenticated, WorkerTypes, SessionInv, Elsewhere, SlotStep, Workers!Served
<1>5. CASE Workers!CloseRequested(s)
  BY <1>1, <1>5 DEF Workers!CloseRequested, Workers!StopKernel, WorkerTypes, SessionInv,
                    Elsewhere, SlotStep, Workers!Served
<1>6. CASE Workers!Close(s)
  <2>1. Elsewhere(s) /\ SlotStep(s)
    BY <1>1, <1>6 DEF Workers!Close, Workers!StopKernel, WorkerTypes, Elsewhere, SlotStep, Workers!Served
  <2>2. CASE repl[s]
    <3>1. /\ serve'[s] = "ended" /\ link[s] = "cut" /\ link' = link /\ start' = start /\ up' = up
          /\ harness' = harness /\ repl' = repl /\ shut'[s] = TRUE /\ held'[s] = FALSE
          /\ kernel'[s] = (IF held[s] /\ kernel[s] = "runs" THEN "gone" ELSE kernel[s])
      BY <1>6, <2>2, <1>1 DEF Workers!Close, Workers!StopKernel, WorkerTypes
    <3>2. kernel' \in [Sessions -> {"none", "runs", "gone"}] /\ free' \in Int
      BY <1>1, <1>6, <2>2 DEF Workers!Close, Workers!StopKernel, WorkerTypes
    <3>3. WorkerTypes'
      BY <1>1, <1>6, <2>2, <3>2 DEF Workers!Close, Workers!StopKernel, WorkerTypes
    <3> QED
      BY <1>1, <2>1, <3>1, <3>3 DEF SessionInv
  <2>3. CASE ~repl[s]
    BY <1>1, <1>6, <2>1, <2>3 DEF Workers!Close, WorkerTypes, SessionInv
  <2> QED
    BY <2>2, <2>3
<1> QED
  BY <1>2, <1>3, <1>4, <1>5, <1>6

LEMMA KernelStep ==
    ASSUME WorkerInv, NEW s \in Sessions,
           \/ Workers!StartRequested(s) \/ Workers!Prepared(s) \/ Workers!Submitted(s)
           \/ Workers!Launched(s) \/ Workers!Ready(s) \/ Workers!NotReady(s)
    PROVE  /\ WorkerTypes' /\ SessionInv(s)' /\ Elsewhere(s) /\ SlotStep(s)
           /\ s \in up' /\ serve'[s] = "ended" => kernel'[s] # "runs"
<1>1. WorkerTypes /\ SessionInv(s) /\ (s \in up /\ serve[s] = "ended" => kernel[s] # "runs")
  BY DEF WorkerInv, Workers!KernelEndsWithSession
<1>2. CASE Workers!StartRequested(s)
  BY <1>1, <1>2 DEF Workers!StartRequested, WorkerTypes, SessionInv, Elsewhere, SlotStep, Workers!Served
<1>3. CASE Workers!Prepared(s)
  BY <1>1, <1>3 DEF Workers!Prepared, WorkerTypes, SessionInv, Elsewhere, SlotStep, Workers!Served
<1>4. CASE Workers!Submitted(s)
  BY <1>1, <1>4 DEF Workers!Submitted, WorkerTypes, SessionInv, Elsewhere, SlotStep, Workers!Served
<1>5. CASE Workers!Launched(s)
  BY <1>1, <1>5 DEF Workers!Launched, WorkerTypes, SessionInv, Elsewhere, SlotStep, Workers!Served
<1>6. CASE Workers!Ready(s)
  BY <1>1, <1>6 DEF Workers!Ready, WorkerTypes, SessionInv, Elsewhere, SlotStep, Workers!Served
<1>7. CASE Workers!NotReady(s)
  BY <1>1, <1>7 DEF Workers!NotReady, WorkerTypes, SessionInv, Elsewhere, SlotStep, Workers!Served
<1> QED
  BY <1>2, <1>3, <1>4, <1>5, <1>6, <1>7

\* A slot is taken and given back with the session that it serves.
LEMMA SlotsKept ==
    ASSUME IsFiniteSet(Sessions), Slots \in Nat, WorkerInv, NEW s \in Sessions,
           Elsewhere(s), SlotStep(s)
    PROVE  Workers!SlotsAreReturned'
<1>1. IsFiniteSet(Workers!Served) /\ IsFiniteSet(Workers!Served')
  BY FS_Subset DEF Workers!Served
<1>2. Cardinality(Workers!Served) \in Nat /\ Cardinality(Workers!Served') \in Nat /\ free \in Int
  BY <1>1, FS_CardinalityType DEF WorkerInv, WorkerTypes
<1>3. free + Cardinality(Workers!Served) = Slots
  BY SameCardinality DEF WorkerInv, Workers!SlotsAreReturned
<1>4. \A r \in Sessions : r # s => (r \in Workers!Served <=> r \in Workers!Served')
  BY DEF Elsewhere, Workers!Served
<1>5. Workers!Served \subseteq Sessions /\ Workers!Served' \subseteq Sessions
  BY DEF Workers!Served
<1>6. CASE free' = free /\ (s \in Workers!Served <=> s \in Workers!Served')
  <2>1. Workers!Served' = Workers!Served
    BY <1>4, <1>5, <1>6
  <2> QED
    BY <1>3, <1>6, <2>1, SameCardinality DEF Workers!SlotsAreReturned
<1>7. CASE free' = free - 1 /\ s \notin Workers!Served /\ s \in Workers!Served'
  <2>1. Workers!Served' = Workers!Served \union {s}
    BY <1>4, <1>5, <1>7
  <2>2. Cardinality(Workers!Served') = Cardinality(Workers!Served) + 1
    BY <1>1, <1>7, <2>1, FS_AddElement
  <2>3. free' + Cardinality(Workers!Served') = Slots
    BY <1>2, <1>3, <1>7, <2>2
  <2> QED
    BY <2>3, SameCardinality DEF Workers!SlotsAreReturned
<1>8. CASE free' = free + 1 /\ s \in Workers!Served /\ s \notin Workers!Served'
  <2>1. Workers!Served' = Workers!Served \ {s}
    BY <1>4, <1>5, <1>8
  <2>2. Cardinality(Workers!Served') = Cardinality(Workers!Served) - 1
    BY <1>1, <1>8, <2>1, FS_RemoveElement
  <2>3. free' + Cardinality(Workers!Served') = Slots
    BY <1>2, <1>3, <1>8, <2>2
  <2> QED
    BY <2>3, SameCardinality DEF Workers!SlotsAreReturned
<1> QED
  BY <1>6, <1>7, <1>8 DEF SlotStep

LEMMA WorkerStep ==
    ASSUME IsFiniteSet(Sessions), Slots \in Nat, WorkerInv, Workers!NextWorker
    PROVE  WorkerInv'
<1>1. PICK s \in Sessions : SessionStep(s)
  BY DEF Workers!NextWorker, SessionStep
<1>2. /\ WorkerTypes' /\ SessionInv(s)' /\ Elsewhere(s) /\ SlotStep(s)
      /\ s \in up' /\ serve'[s] = "ended" => kernel'[s] # "runs"
  BY <1>1, HarnessStep, ListenerStep, KernelStep DEF SessionStep
<1>3. \A r \in Sessions : SessionInv(r)'
  BY <1>2 DEF Elsewhere, SessionInv, WorkerInv
<1>4. Workers!KernelEndsWithSession'
  BY <1>2 DEF Elsewhere, WorkerInv, WorkerTypes, Workers!KernelEndsWithSession
<1>5. Workers!SlotsAreReturned'
  BY <1>2, SlotsKept
<1> QED
  BY <1>2, <1>3, <1>4, <1>5 DEF WorkerInv

LEMMA WorkerRests ==
    ASSUME WorkerInv, UNCHANGED slotVars
    PROVE  WorkerInv'
  BY DEF WorkerInv, slotVars, WorkerTypes, SessionInv, Workers!SlotsAreReturned, Workers!Served,
         Workers!KernelEndsWithSession

\* Every slot of the listener is free or serves a session, and a kernel the harness
\* was given ends with its session: for any sessions and slots (_serve_tcp, _Worker.close).
THEOREM SessionsCleared ==
    ASSUME IsFiniteSet(Sessions), Slots \in Nat
    PROVE  PartsSpec => []SessionsAreCleared
<1>1. PartsInit => WorkerInv
  BY WorkerStarts DEF PartsInit
<1>2. WorkerInv /\ [PartsNext]_allVars => WorkerInv'
  BY OnePartSteps, WorkerStep, WorkerRests
<1>3. WorkerInv => SessionsAreCleared
  BY DEF WorkerInv, SessionsAreCleared
<1> QED
  BY <1>1, <1>2, <1>3, PTL DEF PartsSpec

-----------------------------------------------------------------------------
(* Services.                                                               *)

ServiceInv ==
    /\ hosted \in BOOLEAN
    /\ record \in Pids \union {Hosts!NoPid}
    /\ mine \in [pid : Pids \union {Hosts!NoPid}, exited : BOOLEAN]
    /\ process \in [Pids -> {"none", "service", "zombie", "stranger"}]
    /\ \A r \in Requests : request[r].at \in {"checked", "spawned"} => hosted
    /\ ~hosted => \A p \in Pids : process[p] = "service" => p = record
    /\ \A p \in Pids : mine.pid = p =>
          IF mine.exited THEN process[p] # "service" ELSE process[p] \in {"service", "zombie"}

RequestTypes == request \in [Requests -> [at : {"none", "checked", "spawned", "grace", "killed", "done"},
                                          pid : Pids \union {Hosts!NoPid}]]

LEMMA ServicesStart ==
    ASSUME Hosts!InitServices, Hosts!NoPid \notin Pids
    PROVE  ServiceInv /\ RequestTypes
  BY DEF Hosts!InitServices, Hosts!NoRequest, ServiceInv, RequestTypes

\* What a request does to the table of requests.
LEMMA Answers ==
    ASSUME RequestTypes, NEW r \in Requests,
           NEW a \in {"none", "checked", "spawned", "grace", "killed", "done"},
           NEW p \in Pids \union {Hosts!NoPid},
           request' = [request EXCEPT ![r] = [at |-> a, pid |-> p]]
    PROVE  /\ RequestTypes'
           /\ request'[r].at = a
           /\ \A q \in Requests : q # r => request'[q] = request[q]
  BY DEF RequestTypes

LEMMA ServiceStep ==
    ASSUME ServiceInv, RequestTypes, Hosts!NoPid \notin Pids, Hosts!NextServices
    PROVE  ServiceInv' /\ RequestTypes'
<1>1. ASSUME NEW r \in Requests,
             \/ Hosts!StartRefused(r) \/ Hosts!StopIdle(r) \/ Hosts!StopEnds(r)
             \/ Hosts!StopTerm(r) \/ Hosts!StartChecked(r)
      PROVE  ServiceInv' /\ RequestTypes'
  <2>1. UNCHANGED <<hosted, record, mine, process>>
    BY <1>1 DEF Hosts!StartRefused, Hosts!StopIdle, Hosts!StopEnds, Hosts!StopTerm, Hosts!StartChecked
  <2>2. /\ RequestTypes'
        /\ \A q \in Requests : request'[q].at \in {"checked", "spawned"} =>
              request[q].at \in {"checked", "spawned"} \/ hosted
    <3>1. CASE Hosts!StartRefused(r) \/ Hosts!StopIdle(r) \/ Hosts!StopEnds(r)
      <4>1. request' = [request EXCEPT ![r] = [at |-> "done", pid |-> Hosts!NoPid]]
        BY <3>1 DEF Hosts!StartRefused, Hosts!StopIdle, Hosts!StopEnds, Hosts!Answered
      <4> QED
        BY <4>1, Answers
    <3>2. CASE Hosts!StopTerm(r)
      <4>1. request' = [request EXCEPT ![r] = [at |-> "grace", pid |-> record]]
        BY <3>2 DEF Hosts!StopTerm
      <4>2. record \in Pids \union {Hosts!NoPid}
        BY DEF ServiceInv
      <4> QED
        BY <4>1, <4>2, Answers
    <3>3. CASE Hosts!StartChecked(r)
      BY <3>3 DEF Hosts!StartChecked, RequestTypes
    <3> QED
      BY <1>1, <3>1, <3>2, <3>3
  <2> QED
    BY <2>1, <2>2 DEF ServiceInv
<1>2. ASSUME NEW r \in Requests, Hosts!Start(r)
      PROVE  ServiceInv' /\ RequestTypes'
  <2>1. PICK p \in Pids : Hosts!Popen(p) /\ record' = p
    BY <1>2 DEF Hosts!Start
  <2>2. ~hosted /\ hosted' = hosted /\ ~Hosts!Running(record)
    BY <1>2 DEF Hosts!Start
  <2>3. /\ process[p] = "none" /\ process' = [process EXCEPT ![p] = "service"]
        /\ mine' = [pid |-> p, exited |-> FALSE]
    BY <2>1 DEF Hosts!Popen
  <2>4. request' = [request EXCEPT ![r] = [at |-> "done", pid |-> Hosts!NoPid]]
    BY <1>2 DEF Hosts!Start, Hosts!Answered
  <2>5. RequestTypes' /\ \A q \in Requests : request'[q].at \notin {"checked", "spawned"}
    BY <2>2, <2>4, Answers DEF ServiceInv
  <2>6. \A q \in Pids : process[q] # "service"
    BY <2>2 DEF ServiceInv, Hosts!Running, Hosts!Alive
  <2>7. \A q \in Pids : process'[q] = IF q = p THEN "service" ELSE process[q]
    BY <2>3 DEF ServiceInv
  <2>8. /\ process' \in [Pids -> {"none", "service", "zombie", "stranger"}]
        /\ mine' \in [pid : Pids \union {Hosts!NoPid}, exited : BOOLEAN]
    BY <2>3 DEF ServiceInv
  <2>9. mine'.pid = p /\ mine'.exited = FALSE
    BY <2>3
  <2> QED
    BY <2>1, <2>2, <2>5, <2>6, <2>7, <2>8, <2>9 DEF ServiceInv
<1>3. ASSUME NEW r \in Requests, Hosts!StartSpawns(r)
      PROVE  ServiceInv' /\ RequestTypes'
  <2>1. PICK p \in Pids : /\ Hosts!Popen(p)
                          /\ request' = [request EXCEPT ![r] = [at |-> "spawned", pid |-> p]]
    BY <1>3 DEF Hosts!StartSpawns
  <2>2. hosted /\ hosted' = hosted /\ record' = record
    BY <1>3 DEF Hosts!StartSpawns, ServiceInv
  <2>3. /\ process' = [process EXCEPT ![p] = "service"] /\ mine' = [pid |-> p, exited |-> FALSE]
    BY <2>1 DEF Hosts!Popen
  <2>4. RequestTypes'
    BY <2>1, Answers
  <2>5. /\ process' \in [Pids -> {"none", "service", "zombie", "stranger"}]
        /\ mine' \in [pid : Pids \union {Hosts!NoPid}, exited : BOOLEAN]
        /\ mine'.pid = p /\ mine'.exited = FALSE /\ process'[p] = "service"
    BY <2>3 DEF ServiceInv
  <2> QED
    BY <2>2, <2>4, <2>5 DEF ServiceInv
<1>4. ASSUME NEW r \in Requests, Hosts!StartRecorded(r)
      PROVE  ServiceInv' /\ RequestTypes'
  <2>1. hosted /\ record' \in Pids \union {Hosts!NoPid} /\ UNCHANGED <<hosted, mine, process>>
    BY <1>4 DEF Hosts!StartRecorded, ServiceInv, RequestTypes
  <2>2. request' = [request EXCEPT ![r] = [at |-> "done", pid |-> Hosts!NoPid]]
    BY <1>4 DEF Hosts!StartRecorded, Hosts!Answered
  <2>3. RequestTypes'
    BY <2>2, Answers
  <2> QED
    BY <2>1, <2>3 DEF ServiceInv
<1>5. ASSUME NEW r \in Requests, Hosts!StopKill(r)
      PROVE  ServiceInv' /\ RequestTypes'
  <2> DEFINE p == request[r].pid
  <2>1. UNCHANGED <<hosted, record, mine>> /\ p \in Pids /\ process[p] \in {"service", "stranger"}
    BY <1>5 DEF Hosts!StopKill, Hosts!Running, Hosts!Alive, RequestTypes
  <2>2. process' = [process EXCEPT ![p] = IF process[p] = "service" THEN "zombie" ELSE "none"]
    BY <1>5 DEF Hosts!StopKill
  <2>3. request' = [request EXCEPT ![r].at = "killed"]
    BY <1>5 DEF Hosts!StopKill
  <2>4. RequestTypes' /\ \A q \in Requests : request'[q].at \in {"checked", "spawned"} =>
                                                request[q].at \in {"checked", "spawned"}
    BY <2>3 DEF RequestTypes
  <2> HIDE DEF p
  <2>5. /\ process' \in [Pids -> {"none", "service", "zombie", "stranger"}]
        /\ \A q \in Pids : process'[q] = IF q # p THEN process[q]
                                         ELSE IF process[p] = "service" THEN "zombie" ELSE "none"
    BY <2>1, <2>2 DEF ServiceInv
  <2> QED
    BY <2>1, <2>4, <2>5 DEF ServiceInv
<1>6. ASSUME NEW p \in Pids, Hosts!ServiceExits(p) \/ Hosts!Stranger(p)
      PROVE  ServiceInv' /\ RequestTypes'
  <2>1. UNCHANGED <<hosted, record, mine, request>>
    BY <1>6 DEF Hosts!ServiceExits, Hosts!Stranger
  <2>2. /\ process' \in [Pids -> {"none", "service", "zombie", "stranger"}]
        /\ \A q \in Pids : q # p => process'[q] = process[q]
        /\ \/ process[p] = "service" /\ process'[p] = "zombie"
           \/ process[p] = "none" /\ process'[p] = "stranger"
           \/ process[p] = "stranger" /\ process'[p] = "none"
    BY <1>6 DEF Hosts!ServiceExits, Hosts!Stranger, ServiceInv
  <2> QED
    BY <2>1, <2>2 DEF ServiceInv, RequestTypes
<1>7. ASSUME NEW p \in Pids, Hosts!Reaped(p)
      PROVE  ServiceInv' /\ RequestTypes'
  <2>1. UNCHANGED <<hosted, record, request>> /\ process[p] = "zombie"
    BY <1>7 DEF Hosts!Reaped
  <2>2. /\ process' \in [Pids -> {"none", "service", "zombie", "stranger"}]
        /\ process'[p] = "none" /\ \A q \in Pids : q # p => process'[q] = process[q]
    BY <1>7 DEF Hosts!Reaped, ServiceInv
  <2>3. mine' = IF mine.pid = p THEN [mine EXCEPT !.exited = TRUE] ELSE mine
    BY <1>7 DEF Hosts!Reaped
  <2>4. /\ mine' \in [pid : Pids \union {Hosts!NoPid}, exited : BOOLEAN] /\ mine'.pid = mine.pid
        /\ mine'.exited = IF mine.pid = p THEN TRUE ELSE mine.exited
    BY <2>3 DEF ServiceInv
  <2> QED
    BY <2>1, <2>2, <2>4 DEF ServiceInv, RequestTypes
<1>8. ASSUME Hosts!Restart
      PROVE  ServiceInv' /\ RequestTypes'
  <2>1. UNCHANGED <<hosted, record, process>> /\ mine' = [pid |-> Hosts!NoPid, exited |-> FALSE]
    BY <1>8 DEF Hosts!Restart
  <2>2. mine' \in [pid : Pids \union {Hosts!NoPid}, exited : BOOLEAN] /\ mine'.pid = Hosts!NoPid
    BY <2>1
  <2>3. /\ RequestTypes'
        /\ \A q \in Requests : request'[q].at \notin {"checked", "spawned"}
    BY <1>8 DEF Hosts!Restart, Hosts!NoRequest, RequestTypes
  <2> QED
    BY <2>1, <2>2, <2>3 DEF ServiceInv
<1> QED
  BY <1>1, <1>2, <1>3, <1>4, <1>5, <1>6, <1>7, <1>8 DEF Hosts!NextServices

LEMMA RecordedServices == ServiceInv => RecordIsService
<1> SUFFICES ASSUME ServiceInv PROVE RecordIsService
  OBVIOUS
<1>1. Hosts!OneServiceOnRecord
  BY DEF Hosts!OneServiceOnRecord, ServiceInv
<1>2. Hosts!StrangerIsNotMine
  BY DEF Hosts!StrangerIsNotMine, Hosts!Running, ServiceInv
<1> QED
  BY <1>1, <1>2 DEF RecordIsService

\* A local supervisor never loses a service, and no process that took over its id is
\* taken for it: for any requests, process ids and restarts (ServiceManager.start, stop,
\* _snapshot).
THEOREM ServicesOnRecord ==
    ASSUME Hosts!NoPid \notin Pids
    PROVE  PartsSpec => []RecordIsService
<1>1. PartsInit => ServiceInv /\ RequestTypes
  BY ServicesStart DEF PartsInit
<1>2. (ServiceInv /\ RequestTypes) /\ [PartsNext]_allVars => (ServiceInv /\ RequestTypes)'
  <2>1. ServiceInv /\ RequestTypes /\ UNCHANGED hostVars => (ServiceInv /\ RequestTypes)'
    BY DEF ServiceInv, RequestTypes, hostVars
  <2> QED
    BY <2>1, OnePartSteps, ServiceStep
<1>3. ServiceInv => RecordIsService
  BY RecordedServices
<1> QED
  BY <1>1, <1>2, <1>3, PTL DEF PartsSpec

-----------------------------------------------------------------------------
(* The mirrors of the skills root.                                         *)

Contents == Texts \union {Skills!Absent}
Executions == [at : {"idle", "tool", "push", "push down", "bring up"}, batch : SUBSET Files,
               held : [Files -> Contents], left : SUBSET Files, stat : Files \union {"none"}]

SkillTypes ==
    /\ root \in [Files -> Contents]
    /\ copy \in [Agents -> [Files -> Contents]]
    /\ rootNew \in [Agents -> SUBSET Files]
    /\ copyNew \in [Agents -> SUBSET Files]
    /\ sync \in [Agents -> Executions]

\* The files of a's batch that are not settled yet.
Pending(a) == sync[a].left \union {sync[a].stat}

\* A pending file is as it was sent on the side that sent it, or new there again; any
\* other is in step, or excused.
FileInv(a, f) ==
    /\ f \in Pending(a) \/ Skills!InStep(a, f) \/ <<a, f>> \in excused
    /\ f \in Pending(a) /\ Skills!Down(a) => root[f] = sync[a].held[f] \/ f \in rootNew[a]
    /\ f \in Pending(a) /\ Skills!Up(a) => copy[a][f] = sync[a].held[f] \/ f \in copyNew[a]

CallInv(a) ==
    /\ sync[a].left \subseteq sync[a].batch
    /\ sync[a].at \in {"idle", "tool", "push"} => sync[a].left = {} /\ sync[a].stat = "none"

SkillInv ==
    /\ SkillTypes
    /\ \A a \in Agents : CallInv(a) /\ \A f \in Files : FileInv(a, f)

LEMMA IdleCall == Skills!Idle \in Executions /\ [Skills!Idle EXCEPT !.at = "tool"] \in Executions
                  /\ [Skills!Idle EXCEPT !.at = "push"] \in Executions
  BY DEF Skills!Idle, Executions, Contents

LEMMA SkillsStart ==
    ASSUME Skills!InitSkills
    PROVE  SkillInv
<1>1. SkillTypes
  <2>1. sync \in [Agents -> Executions]
    BY IdleCall DEF Skills!InitSkills
  <2> QED
    BY <2>1 DEF Skills!InitSkills, SkillTypes, Contents
<1>2. ASSUME NEW a \in Agents, NEW f \in Files
      PROVE  CallInv(a) /\ FileInv(a, f)
  BY <1>2 DEF Skills!InitSkills, Skills!Idle, CallInv, FileInv, Pending, Skills!InStep, Skills!Down, Skills!Up
<1>3. ASSUME NEW a \in Agents PROVE CallInv(a)
  BY <1>3 DEF Skills!InitSkills, Skills!Idle, CallInv
<1> QED
  BY <1>1, <1>2, <1>3 DEF SkillInv

\* What is collected is some of what is new, and all of that is then recorded as seen.
LEMMA Collected ==
    ASSUME NEW new, NEW from, NEW chosen \in Skills!Collect(new, from)
    PROVE  \E batch \in SUBSET new : chosen = <<batch, batch>>
  BY DEF Skills!Collect

\* A file written at the root is new to every mirror, and one written in a mirror is
\* new to the root.
LEMMA OperatorStep ==
    ASSUME SkillInv, Skills!Operator
    PROVE  SkillInv'
<1>1. PICK f \in Files, text \in Contents : Skills!WriteRoot(f, text) /\ excused' = {e \in excused : e[2] # f}
  BY DEF Skills!Operator, Contents
<1>2. UNCHANGED <<copy, copyNew, sync>>
  BY DEF Skills!Operator
<1>3. SkillTypes'
  BY <1>1, <1>2 DEF SkillInv, SkillTypes, Skills!WriteRoot
<1>4. ASSUME NEW a \in Agents, NEW g \in Files PROVE FileInv(a, g)'
  BY <1>1, <1>2, <1>4 DEF SkillInv, SkillTypes, Skills!WriteRoot, FileInv, Pending, Skills!InStep,
                          Skills!Down, Skills!Up
<1>5. ASSUME NEW a \in Agents PROVE CallInv(a)'
  BY <1>2, <1>5 DEF SkillInv, CallInv
<1> QED
  BY <1>3, <1>4, <1>5 DEF SkillInv

LEMMA AuthorStep ==
    ASSUME SkillInv, NEW b \in Agents, Skills!Author(b)
    PROVE  SkillInv'
<1>1. PICK f \in Files, text \in Contents :
          /\ copy' = [copy EXCEPT ![b][f] = text]
          /\ copyNew' = [copyNew EXCEPT ![b] = @ \union {f}]
          /\ excused' = excused \ {<<b, f>>}
  BY DEF Skills!Author, Contents
<1>2. UNCHANGED <<root, rootNew, sync>>
  BY DEF Skills!Author
<1>3. SkillTypes'
  BY <1>1, <1>2 DEF SkillInv, SkillTypes
<1>4. ASSUME NEW a \in Agents, NEW g \in Files PROVE FileInv(a, g)'
  BY <1>1, <1>2, <1>4 DEF SkillInv, SkillTypes, FileInv, Pending, Skills!InStep, Skills!Down, Skills!Up
<1>5. ASSUME NEW a \in Agents PROVE CallInv(a)'
  BY <1>2, <1>5 DEF SkillInv, CallInv
<1> QED
  BY <1>3, <1>4, <1>5 DEF SkillInv

\* A batch that leaves is pending, and what it leaves out is still new.
LEMMA PushStep ==
    ASSUME SkillInv, "none" \notin Files, NEW b \in Agents, Skills!Push(b)
    PROVE  SkillInv'
<1>1. UNCHANGED <<root, copy, copyNew, excused>> /\ sync[b].at \in {"idle", "push"}
  BY DEF Skills!Push
<1>2. CASE rootNew[b] = {}
  <2>1. sync' = [sync EXCEPT ![b] = [Skills!Idle EXCEPT !.at = "tool"]] /\ UNCHANGED rootNew
    BY <1>2 DEF Skills!Push
  <2>2. SkillTypes'
    BY <1>1, <2>1, IdleCall DEF SkillInv, SkillTypes
  <2>3. /\ sync'[b].at = "tool" /\ sync'[b].left = {} /\ sync'[b].stat = "none"
        /\ \A a \in Agents : a # b => sync'[a] = sync[a]
    BY <2>1 DEF SkillInv, SkillTypes, Skills!Idle
  <2>4. ASSUME NEW a \in Agents, NEW g \in Files PROVE FileInv(a, g)'
    BY <1>1, <2>1, <2>3, <2>4, ZenonT(40)
       DEF SkillInv, FileInv, CallInv, Pending, Skills!InStep, Skills!Down, Skills!Up
  <2>5. ASSUME NEW a \in Agents PROVE CallInv(a)'
    BY <2>3, <2>5 DEF SkillInv, CallInv
  <2> QED
    BY <2>2, <2>4, <2>5 DEF SkillInv
<1>3. CASE rootNew[b] # {}
  <2>1. PICK batch \in SUBSET rootNew[b] :
            /\ rootNew' = [rootNew EXCEPT ![b] = @ \ batch]
            /\ sync' = [sync EXCEPT ![b] = [at |-> "push down", batch |-> batch, held |-> root,
                                            left |-> batch, stat |-> "none"]]
    <3>1. PICK chosen \in Skills!Collect(rootNew[b], root) :
            /\ rootNew' = [rootNew EXCEPT ![b] = @ \ chosen[2]]
            /\ sync' = [sync EXCEPT ![b] = [at |-> "push down", batch |-> chosen[1], held |-> root,
                                            left |-> chosen[1], stat |-> "none"]]
      BY <1>3 DEF Skills!Push
    <3>2. PICK batch \in SUBSET rootNew[b] : chosen = <<batch, batch>>
      BY Collected
    <3> QED
      BY <3>1, <3>2
  <2>2. [at |-> "push down", batch |-> batch, held |-> root, left |-> batch, stat |-> "none"] \in Executions
    BY DEF Executions, SkillInv, SkillTypes
  <2>3. SkillTypes'
    BY <1>1, <2>1, <2>2 DEF SkillInv, SkillTypes
  <2>4. /\ sync'[b].at = "push down" /\ sync'[b].left = batch /\ sync'[b].batch = batch
        /\ sync'[b].held = root /\ sync'[b].stat = "none"
        /\ \A a \in Agents : a # b => sync'[a] = sync[a]
    BY <2>1 DEF SkillInv, SkillTypes
  <2>5. rootNew'[b] = rootNew[b] \ batch /\ \A a \in Agents : a # b => rootNew'[a] = rootNew[a]
    BY <2>1 DEF SkillInv, SkillTypes
  <2>6. ASSUME NEW a \in Agents, NEW g \in Files PROVE FileInv(a, g)'
    BY <1>1, <2>4, <2>5, <2>6 DEF SkillInv, FileInv, CallInv, Pending, Skills!InStep, Skills!Down, Skills!Up
  <2>7. ASSUME NEW a \in Agents PROVE CallInv(a)'
    BY <2>4, <2>7 DEF SkillInv, CallInv
  <2> QED
    BY <2>3, <2>6, <2>7 DEF SkillInv
<1> QED
  BY <1>2, <1>3

LEMMA ReturnStep ==
    ASSUME SkillInv, "none" \notin Files, NEW b \in Agents, Skills!Return(b)
    PROVE  SkillInv'
<1>1. UNCHANGED <<root, copy, rootNew, excused>> /\ sync[b].at = "tool"
  BY DEF Skills!Return
<1>2. CASE copyNew[b] = {}
  <2>1. sync' = [sync EXCEPT ![b] = Skills!Idle] /\ UNCHANGED copyNew
    BY <1>2 DEF Skills!Return
  <2>2. SkillTypes'
    BY <1>1, <2>1, IdleCall DEF SkillInv, SkillTypes
  <2>3. /\ sync'[b].at = "idle" /\ sync'[b].left = {} /\ sync'[b].stat = "none"
        /\ \A a \in Agents : a # b => sync'[a] = sync[a]
    BY <2>1 DEF SkillInv, SkillTypes, Skills!Idle
  <2>4. ASSUME NEW a \in Agents, NEW g \in Files PROVE FileInv(a, g)'
    BY <1>1, <2>1, <2>3, <2>4, ZenonT(40)
       DEF SkillInv, FileInv, CallInv, Pending, Skills!InStep, Skills!Down, Skills!Up
  <2>5. ASSUME NEW a \in Agents PROVE CallInv(a)'
    BY <2>3, <2>5 DEF SkillInv, CallInv
  <2> QED
    BY <2>2, <2>4, <2>5 DEF SkillInv
<1>3. CASE copyNew[b] # {}
  <2>1. PICK batch \in SUBSET copyNew[b] :
            /\ copyNew' = [copyNew EXCEPT ![b] = @ \ batch]
            /\ sync' = [sync EXCEPT ![b] = [at |-> "bring up", batch |-> batch, held |-> copy[b],
                                            left |-> batch, stat |-> "none"]]
    <3>1. PICK chosen \in Skills!Collect(copyNew[b], copy[b]) :
            /\ copyNew' = [copyNew EXCEPT ![b] = @ \ chosen[2]]
            /\ sync' = [sync EXCEPT ![b] = [at |-> "bring up", batch |-> chosen[1], held |-> copy[b],
                                            left |-> chosen[1], stat |-> "none"]]
      BY <1>3 DEF Skills!Return
    <3>2. PICK batch \in SUBSET copyNew[b] : chosen = <<batch, batch>>
      BY Collected
    <3> QED
      BY <3>1, <3>2
  <2>2. [at |-> "bring up", batch |-> batch, held |-> copy[b], left |-> batch, stat |-> "none"] \in Executions
    BY DEF Executions, SkillInv, SkillTypes
  <2>3. SkillTypes'
    BY <1>1, <2>1, <2>2 DEF SkillInv, SkillTypes
  <2>4. /\ sync'[b].at = "bring up" /\ sync'[b].left = batch /\ sync'[b].batch = batch
        /\ sync'[b].held = copy[b] /\ sync'[b].stat = "none"
        /\ \A a \in Agents : a # b => sync'[a] = sync[a]
    BY <2>1 DEF SkillInv, SkillTypes
  <2>5. copyNew'[b] = copyNew[b] \ batch /\ \A a \in Agents : a # b => copyNew'[a] = copyNew[a]
    BY <2>1 DEF SkillInv, SkillTypes
  <2>6. ASSUME NEW a \in Agents, NEW g \in Files PROVE FileInv(a, g)'
    BY <1>1, <2>4, <2>5, <2>6 DEF SkillInv, FileInv, CallInv, Pending, Skills!InStep, Skills!Down, Skills!Up
  <2>7. ASSUME NEW a \in Agents PROVE CallInv(a)'
    BY <2>4, <2>7 DEF SkillInv, CallInv
  <2> QED
    BY <2>3, <2>6, <2>7 DEF SkillInv
<1> QED
  BY <1>2, <1>3

\* A file that is replaced is as its sender held it, and new to the sender's side.
LEMMA ReplaceStep ==
    ASSUME SkillInv, "none" \notin Files, NEW b \in Agents, Skills!Replace(b)
    PROVE  SkillInv'
<1>1. PICK f \in sync[b].left :
          /\ IF Skills!Down(b)
             THEN /\ copy' = [copy EXCEPT ![b][f] = sync[b].held[f]]
                  /\ copyNew' = [copyNew EXCEPT ![b] = @ \union {f}]
                  /\ UNCHANGED <<root, rootNew>>
             ELSE Skills!WriteRoot(f, sync[b].held[f]) /\ UNCHANGED <<copy, copyNew>>
          /\ sync' = [sync EXCEPT ![b].left = @ \ {f}, ![b].stat = f]
          /\ excused' = IF Skills!Down(b) THEN excused ELSE {e \in excused : e[2] # f}
  BY DEF Skills!Replace
<1>2. (Skills!Down(b) \/ Skills!Up(b)) /\ sync[b].stat = "none"
  BY DEF Skills!Replace
<1>3. sync[b] \in Executions /\ f \in Files
  BY DEF SkillInv, SkillTypes, Executions
<1>4. sync[b].held[f] \in Contents
  BY <1>3 DEF Executions
<1>5. /\ sync'[b] = [sync[b] EXCEPT !.left = @ \ {f}, !.stat = f]
      /\ \A a \in Agents : a # b => sync'[a] = sync[a]
  BY <1>1 DEF SkillInv, SkillTypes
<1>6. /\ sync'[b] \in Executions
      /\ sync'[b].at = sync[b].at /\ sync'[b].left = sync[b].left \ {f} /\ sync'[b].stat = f
      /\ sync'[b].held = sync[b].held /\ sync'[b].batch = sync[b].batch
  BY <1>3, <1>5 DEF Executions
<1>7. sync' \in [Agents -> Executions]
  BY <1>1, <1>5, <1>6 DEF SkillInv, SkillTypes
<1>8. SkillTypes'
  <2>1. CASE Skills!Down(b)
    <3>1. [copy[b] EXCEPT ![f] = sync[b].held[f]] \in [Files -> Contents]
      BY <1>3, <1>4 DEF SkillInv, SkillTypes
    <3>2. copy' \in [Agents -> [Files -> Contents]]
      BY <1>1, <2>1, <3>1 DEF SkillInv, SkillTypes
    <3> QED
      BY <1>1, <1>3, <1>7, <2>1, <3>2 DEF SkillInv, SkillTypes
  <2>2. CASE ~Skills!Down(b)
    <3>1. /\ UNCHANGED <<copy, copyNew>>
          /\ root' = [root EXCEPT ![f] = sync[b].held[f]]
          /\ rootNew' = [x \in Agents |-> rootNew[x] \union {f}]
      BY <1>1, <2>2 DEF Skills!WriteRoot
    <3>2. root' \in [Files -> Contents] /\ rootNew' \in [Agents -> SUBSET Files]
      BY <1>3, <1>4, <3>1 DEF SkillInv, SkillTypes
    <3> QED
      BY <1>7, <3>1, <3>2 DEF SkillInv, SkillTypes
  <2> QED
    BY <2>1, <2>2
<1>9. ASSUME NEW a \in Agents PROVE CallInv(a)'
  BY <1>2, <1>5, <1>6, <1>9 DEF SkillInv, CallInv, Skills!Down, Skills!Up
<1>10. ASSUME NEW a \in Agents, NEW g \in Files PROVE FileInv(a, g)'
  <2>1. FileInv(a, g) /\ FileInv(b, f) /\ CallInv(b) /\ f \in Pending(b)
    BY <1>3, <1>10 DEF SkillInv, Pending
  <2>2. Pending(a)' \intersect Files = Pending(a) \intersect Files
    <3>1. sync'[b].left \union {sync'[b].stat} = sync[b].left
      BY <1>1, <1>6
    <3>2. sync[b].left \union {sync[b].stat} = sync[b].left \union {"none"}
      BY <1>2
    <3>3. CASE a = b
      BY <3>1, <3>2, <3>3 DEF Pending
    <3>4. CASE a # b
      BY <1>5, <3>4, <1>10 DEF Pending
    <3> QED
      BY <3>3, <3>4
  <2>3. sync'[a].at = sync[a].at /\ sync'[a].held = sync[a].held
    BY <1>5, <1>6
  <2>4. CASE Skills!Down(b)
    <3>1. /\ UNCHANGED <<root, rootNew, excused>>
          /\ copy' = [copy EXCEPT ![b][f] = sync[b].held[f]]
          /\ copyNew' = [copyNew EXCEPT ![b] = @ \union {f}]
      BY <1>1, <2>4
    <3>2. a # b \/ g # f => copy'[a][g] = copy[a][g] /\ (g \in copyNew'[a] <=> g \in copyNew[a])
      BY <3>1, <1>10 DEF SkillInv, SkillTypes
    <3>3. f \in copyNew'[b]
      BY <3>1 DEF SkillInv, SkillTypes
    <3> QED
      BY <1>10, <2>1, <2>2, <2>3, <2>4, <3>1, <3>2, <3>3
      DEF FileInv, Skills!InStep, Skills!Down, Skills!Up
  <2>5. CASE ~Skills!Down(b)
    <3>1. /\ UNCHANGED <<copy, copyNew>>
          /\ root' = [root EXCEPT ![f] = sync[b].held[f]]
          /\ rootNew' = [x \in Agents |-> rootNew[x] \union {f}]
          /\ excused' = {e \in excused : e[2] # f}
      BY <1>1, <2>5 DEF Skills!WriteRoot
    <3>2. g # f => root'[g] = root[g] /\ (<<a, g>> \in excused' <=> <<a, g>> \in excused)
      BY <3>1, <1>10 DEF SkillInv, SkillTypes
    <3>3. rootNew'[a] = rootNew[a] \union {f}
      BY <3>1, <1>10
    <3> QED
      BY <1>10, <2>1, <2>2, <2>3, <3>1, <3>2, <3>3 DEF FileInv, Skills!InStep, Skills!Down, Skills!Up
  <2> QED
    BY <2>4, <2>5
<1> QED
  BY <1>8, <1>9, <1>10 DEF SkillInv

\* A file whose stat is taken is in step, new again, or was written by somebody else.
LEMMA StatStep ==
    ASSUME SkillInv, "none" \notin Files, NEW b \in Agents, Skills!Stat(b)
    PROVE  SkillInv'
<1> DEFINE f == sync[b].stat
<1>1. /\ f # "none"
      /\ IF Skills!Down(b) THEN copyNew' = [copyNew EXCEPT ![b] = @ \ {f}] /\ UNCHANGED rootNew
         ELSE rootNew' = [rootNew EXCEPT ![b] = @ \ {f}] /\ UNCHANGED copyNew
      /\ excused' = IF Skills!There(b, f) = sync[b].held[f] THEN excused ELSE excused \union {<<b, f>>}
      /\ sync' = [sync EXCEPT ![b].stat = "none"]
      /\ UNCHANGED <<root, copy>>
  BY DEF Skills!Stat
<1>2. sync[b] \in Executions /\ f \in Files
  BY <1>1 DEF SkillInv, SkillTypes, Executions
<1>3. Skills!Down(b) \/ Skills!Up(b)
  BY <1>1, <1>2 DEF SkillInv, CallInv, Executions, Skills!Down, Skills!Up
<1>4. /\ sync'[b] = [sync[b] EXCEPT !.stat = "none"]
      /\ \A a \in Agents : a # b => sync'[a] = sync[a]
  BY <1>1 DEF SkillInv, SkillTypes
<1>5. /\ sync'[b] \in Executions
      /\ sync'[b].at = sync[b].at /\ sync'[b].left = sync[b].left /\ sync'[b].stat = "none"
      /\ sync'[b].held = sync[b].held /\ sync'[b].batch = sync[b].batch
  BY <1>2, <1>4 DEF Executions
<1>6. sync' \in [Agents -> Executions]
  BY <1>1, <1>4, <1>5 DEF SkillInv, SkillTypes
<1>7. SkillTypes'
  <2>1. rootNew' \in [Agents -> SUBSET Files] /\ copyNew' \in [Agents -> SUBSET Files]
    <3> HIDE DEF f
    <3>1. CASE Skills!Down(b)
      BY <1>1, <3>1 DEF SkillInv, SkillTypes
    <3>2. CASE ~Skills!Down(b)
      <4>1. rootNew' = [rootNew EXCEPT ![b] = @ \ {f}] /\ copyNew' = copyNew
        BY <1>1, <3>2
      <4>2. rootNew[b] \ {f} \in SUBSET Files
        BY DEF SkillInv, SkillTypes
      <4> QED
        BY <4>1, <4>2 DEF SkillInv, SkillTypes
    <3> QED
      BY <3>1, <3>2
  <2> QED
    BY <1>1, <1>6, <2>1 DEF SkillInv, SkillTypes
<1>8. ASSUME NEW a \in Agents PROVE CallInv(a)'
  BY <1>4, <1>5, <1>8 DEF SkillInv, CallInv
<1>9. ASSUME NEW a \in Agents, NEW g \in Files PROVE FileInv(a, g)'
  <2>1. FileInv(a, g) /\ FileInv(b, f) /\ CallInv(b)
    BY <1>2, <1>9 DEF SkillInv
  <2>2. CASE a # b
    BY <1>1, <1>4, <2>1, <2>2, <1>9 DEF FileInv, Pending, Skills!InStep, Skills!Down, Skills!Up, SkillInv, SkillTypes
  <2>3. CASE a = b /\ g # f
    <3>1. g \in Pending(b)' <=> g \in Pending(b)
      BY <1>5, <1>9, <2>3 DEF Pending
    <3>2. /\ g \in rootNew'[b] <=> g \in rootNew[b]
          /\ g \in copyNew'[b] <=> g \in copyNew[b]
          /\ <<b, g>> \in excused => <<b, g>> \in excused'
      BY <1>1, <2>3 DEF SkillInv, SkillTypes
    <3> QED
      BY <1>1, <1>5, <2>1, <2>3, <3>1, <3>2 DEF FileInv, Skills!InStep, Skills!Down, Skills!Up
  <2>4. CASE a = b /\ g = f
    BY <1>1, <1>2, <1>3, <1>4, <1>5, <2>1, <2>4 DEF FileInv, Pending, Skills!InStep, Skills!Down, Skills!Up, Skills!There, SkillInv, SkillTypes
  <2> QED
    BY <2>2, <2>3, <2>4
<1> QED
  BY <1>7, <1>8, <1>9 DEF SkillInv

LEMMA AppliedStep ==
    ASSUME SkillInv, NEW b \in Agents, Skills!Applied(b)
    PROVE  SkillInv'
<1>1. /\ UNCHANGED <<root, copy, rootNew, copyNew, excused>>
      /\ sync[b].left = {} /\ sync[b].stat = "none"
  BY DEF Skills!Applied
<1>2. PICK next \in {Skills!Idle, [Skills!Idle EXCEPT !.at = "push"]} : sync' = [sync EXCEPT ![b] = next]
  BY DEF Skills!Applied
<1>3. next \in Executions /\ next.at \in {"idle", "push"} /\ next.left = {} /\ next.stat = "none"
  BY <1>2, IdleCall DEF Skills!Idle
<1>4. sync'[b] = next /\ \A a \in Agents : a # b => sync'[a] = sync[a]
  BY <1>2 DEF SkillInv, SkillTypes
<1>5. SkillTypes'
  BY <1>1, <1>2, <1>3 DEF SkillInv, SkillTypes
<1>6. ASSUME NEW a \in Agents PROVE CallInv(a)'
  BY <1>3, <1>4, <1>6 DEF SkillInv, CallInv
<1>7. ASSUME NEW a \in Agents, NEW g \in Files PROVE FileInv(a, g)'
  BY <1>1, <1>3, <1>4, <1>7 DEF SkillInv, FileInv, Pending, Skills!InStep, Skills!Down, Skills!Up
<1> QED
  BY <1>5, <1>6, <1>7 DEF SkillInv

\* A batch that fails is excused whole.
LEMMA FailStep ==
    ASSUME SkillInv, "none" \notin Files, NEW b \in Agents, Skills!BatchFails(b)
    PROVE  SkillInv'
<1>1. /\ UNCHANGED <<root, copy, rootNew, copyNew>>
      /\ excused' = excused \union ({b} \X sync[b].batch)
      /\ sync' = [sync EXCEPT ![b] = Skills!Idle] /\ sync[b].stat = "none"
  BY DEF Skills!BatchFails
<1>2. /\ sync'[b].at = "idle" /\ sync'[b].left = {} /\ sync'[b].stat = "none"
      /\ \A a \in Agents : a # b => sync'[a] = sync[a]
  BY <1>1 DEF SkillInv, SkillTypes, Skills!Idle
<1>3. SkillTypes'
  BY <1>1, IdleCall DEF SkillInv, SkillTypes
<1>4. ASSUME NEW a \in Agents PROVE CallInv(a)'
  BY <1>2, <1>4 DEF SkillInv, CallInv
<1>5. ASSUME NEW a \in Agents, NEW g \in Files PROVE FileInv(a, g)'
  BY <1>1, <1>2, <1>5, ZenonT(40)
     DEF SkillInv, CallInv, FileInv, Pending, Skills!InStep, Skills!Down, Skills!Up
<1> QED
  BY <1>3, <1>4, <1>5 DEF SkillInv

\* What differs between the skills root and a mirror is still to be sent by one of them,
\* but for the two excuses: for any agents, files and batch size (collect, apply, fold).
THEOREM MirrorsDoNotDrift ==
    ASSUME "none" \notin Files
    PROVE  PartsSpec => []NoDrift
<1>1. PartsInit => SkillInv
  BY SkillsStart DEF PartsInit
<1>2. SkillInv /\ [PartsNext]_allVars => SkillInv'
  <2>1. SkillInv /\ Skills!NextSkills => SkillInv'
    BY OperatorStep, AuthorStep, PushStep, ReturnStep, ReplaceStep, StatStep, AppliedStep, FailStep
    DEF Skills!NextSkills
  <2>2. SkillInv /\ UNCHANGED skillsVars => SkillInv'
    BY DEF SkillInv, skillsVars, SkillTypes, CallInv, FileInv, Pending, Skills!InStep, Skills!Down, Skills!Up
  <2> QED
    BY <2>1, <2>2, OnePartSteps
<1>3. SkillInv => NoDrift
  BY DEF SkillInv, CallInv, FileInv, Pending, NoDrift, Skills!NoDrift
<1> QED
  BY <1>1, <1>2, <1>3, PTL DEF PartsSpec

-----------------------------------------------------------------------------
(* The catalog of MCP tools.                                               *)

\* The servers before the one that is listed came to their end, and a search's matches
\* so far are the first ones, as many as its cursor says.
DiscoveryInv ==
    /\ catalog = reported
    /\ listing \in {"idle", "listing", "known"}
    /\ listing = "idle" => server = 1 /\ ended = {}
    /\ listing # "known" => server \in Servers /\ ended = 1 .. (server - 1)
    /\ listing = "known" => ended = Servers

Ranked(walked) == Mcp!Ranked(walked.query, walked.server)

SearchInv ==
    /\ listing # "known" => walk = Mcp!NoWalk /\ cursor = Mcp!NoCursor
    /\ walk # Mcp!NoWalk /\ cursor = Mcp!NoCursor => walk.got = Ranked(walk)
    /\ cursor # Mcp!NoCursor =>
          /\ cursor.query = walk.query /\ cursor.server = walk.server
          /\ cursor.offset \in 1 .. Len(Ranked(walk))
          /\ walk.got = SubSeq(Ranked(walk), 1, cursor.offset)

LEMMA CatalogStarts ==
    ASSUME Mcp!InitCatalog, NEW n \in Nat \ {0}, Servers = 1 .. n
    PROVE  DiscoveryInv /\ SearchInv
  BY DEF Mcp!InitCatalog, DiscoveryInv, SearchInv

LEMMA CountsOfMcp == \A S : Mcp!Cardinality(S) = Cardinality(S)
  BY DEF Mcp!Cardinality, Cardinality

\* The matches of a search are a sequence.
LEMMA RankedIsSeq ==
    ASSUME IsFiniteSet(Tools), NEW q, NEW s
    PROVE  \E S : Mcp!Ranked(q, s) \in Seq(S)
<1> DEFINE M == {t \in Tools : Score(q, t) > 0
                      /\ \E of \in Servers : <<t, of>> \in catalog /\ s \in {0, of}}
           better(t) == {u \in M : \/ Score(q, u) > Score(q, t)
                                   \/ Score(q, u) = Score(q, t) /\ u < t}
           place(i) == CHOOSE t \in M : Mcp!Cardinality(better(t)) = i - 1
           S == {place(i) : i \in 1 .. Cardinality(M)}
<1>1. Cardinality(M) \in Nat
  BY FS_Subset, FS_CardinalityType
<1>2. Mcp!Ranked(q, s) = [i \in 1 .. Cardinality(M) |-> place(i)]
  BY CountsOfMcp DEF Mcp!Ranked
<1> HIDE DEF M, place
<1>3. [i \in 1 .. Cardinality(M) |-> place(i)] \in Seq(S)
  BY <1>1, IsASeq
<1> QED
  BY <1>2, <1>3

LEMMA DiscoveryStep ==
    ASSUME DiscoveryInv, SearchInv, NEW n \in Nat \ {0}, Servers = 1 .. n,
           \/ Mcp!Discover \/ Mcp!DiscoveryFails
           \/ \E tools \in SUBSET Tools, next \in Cursors \union {"end"} : Mcp!Page(tools, next)
    PROVE  DiscoveryInv' /\ SearchInv'
<1>1. listing # "known" /\ UNCHANGED <<walk, cursor>>
  BY DEF Mcp!Discover, Mcp!DiscoveryFails, Mcp!Page, Mcp!searchVars
<1>2. SearchInv'
  BY <1>1 DEF SearchInv
<1>3. CASE Mcp!Discover \/ Mcp!DiscoveryFails
  <2>1. CASE Mcp!Discover
    BY <1>2, <2>1 DEF DiscoveryInv, Mcp!Discover
  <2>2. CASE Mcp!DiscoveryFails
    <3>1. /\ listing' = "idle" /\ server' = 1 /\ catalog' = {} /\ reported' = {} /\ ended' = {}
      BY <2>2 DEF Mcp!DiscoveryFails
    <3>2. 1 \in Servers /\ {} = 1 .. (1 - 1)
      OBVIOUS
    <3> QED
      BY <1>2, <3>1, <3>2 DEF DiscoveryInv
  <2> QED
    BY <1>3, <2>1, <2>2
<1>4. ASSUME NEW tools \in SUBSET Tools, NEW next \in Cursors \union {"end"}, Mcp!Page(tools, next)
      PROVE  DiscoveryInv'
  <2>1. catalog' = reported' /\ listing = "listing"
    BY <1>4 DEF Mcp!Page, DiscoveryInv
  <2>2. server \in 1 .. n /\ ended = 1 .. (server - 1)
    BY <2>1 DEF DiscoveryInv
  <2>3. CASE next = "end"
    <3>1. /\ ended' = ended \union {server} /\ server' = server + 1
          /\ listing' = IF server + 1 \in Servers THEN "listing" ELSE "known"
      BY <1>4, <2>3 DEF Mcp!Page
    <3>2. ended' = 1 .. server
      BY <2>2, <3>1
    <3> QED
      BY <2>1, <2>2, <3>1, <3>2 DEF DiscoveryInv
  <2>4. CASE next # "end"
    <3>1. UNCHANGED <<ended, server, listing>>
      BY <1>4, <2>4 DEF Mcp!Page, Mcp!Refused
    <3> QED
      BY <2>1, <3>1 DEF DiscoveryInv
  <2> QED
    BY <2>3, <2>4
<1> QED
  BY <1>2, <1>3, <1>4

\* The next page of a search continues the matches where its cursor says.
LEMMA SearchStep ==
    ASSUME DiscoveryInv, SearchInv, IsFiniteSet(Tools),
           NEW q, NEW s, NEW limit \in {1, 2}, NEW from \in {Mcp!NoCursor, cursor},
           Mcp!Search(q, s, limit, from)
    PROVE  DiscoveryInv' /\ SearchInv'
<1> DEFINE ranked == Mcp!Ranked(q, s)
           until == IF from.offset + limit < Len(ranked) THEN from.offset + limit ELSE Len(ranked)
           matches == SubSeq(ranked, from.offset + 1, until)
           earlier == IF from # Mcp!NoCursor /\ walk.query = q /\ walk.server = s THEN walk.got ELSE <<>>
<1>1. /\ listing = "known" /\ UNCHANGED <<listing, server, catalog, reported, ended>>
      /\ from # Mcp!NoCursor => from.query = q /\ from.server = s
      /\ walk' = [query |-> q, server |-> s, got |-> earlier \o matches]
      /\ cursor' = IF until < Len(ranked)
                     THEN [query |-> q, server |-> s, offset |-> until] ELSE Mcp!NoCursor
  BY DEF Mcp!Search, Mcp!CursorFits, Mcp!listVars
<1>2. PICK S : ranked \in Seq(S)
  BY RankedIsSeq
<1>3. Ranked(walk)' = ranked
  BY <1>1 DEF Ranked, Mcp!Ranked
<1> HIDE DEF ranked
<1>4. /\ from.offset \in 0 .. Len(ranked)
      /\ earlier = SubSeq(ranked, 1, from.offset)
  <2>1. CASE from = Mcp!NoCursor
    <3>1. earlier = <<>> /\ from.offset = 0
      BY <2>1 DEF Mcp!NoCursor
    <3> QED
      <4>1. SubSeq(ranked, 1, 0) = <<>>
        BY SubSeqEmpty
      <4>2. Len(ranked) \in Nat
        BY <1>2, LenProperties
      <4> HIDE DEF earlier
      <4> QED
        BY <3>1, <4>1, <4>2
  <2>2. CASE from # Mcp!NoCursor
    <3>1. from = cursor /\ q = walk.query /\ s = walk.server
      BY <1>1, <2>2 DEF SearchInv
    <3>2. earlier = walk.got /\ Ranked(walk) = ranked
      BY <2>2, <3>1 DEF Ranked, ranked
    <3> QED
      BY <2>2, <3>1, <3>2, <1>2, LenProperties DEF SearchInv
  <2> QED
    BY <2>1, <2>2
<1>5. until \in from.offset .. Len(ranked) /\ (until < Len(ranked) => until >= 1)
  BY <1>2, <1>4, LenProperties
<1>6. earlier \o matches = SubSeq(ranked, 1, until)
  <2>1. SubSeq(ranked, 1, from.offset) \o SubSeq(ranked, from.offset + 1, until) = SubSeq(ranked, 1, until)
    <3>1. Len(ranked) \in Nat
      BY <1>2, LenProperties
    <3>2. 1 \in 1 .. Len(ranked) + 1 /\ from.offset \in 1 - 1 .. Len(ranked)
      BY <1>4, <3>1
    <3> HIDE DEF until
    <3> QED
      BY <1>2, <1>5, <3>2, ConcatAdjacentSubSeq
  <2> QED
    BY <1>4, <2>1
<1> HIDE DEF until, matches, earlier
<1>7. walk'.got = SubSeq(ranked, 1, until) /\ walk'.query = q /\ walk'.server = s
  BY <1>1, <1>6
<1>8. CASE until < Len(ranked)
  <2>1. /\ cursor'.query = q /\ cursor'.server = s /\ cursor'.offset = until
        /\ until \in 1 .. Len(ranked)
    BY <1>1, <1>5, <1>8, <1>2, LenProperties
  <2>2. cursor' # Mcp!NoCursor
    BY <2>1 DEF Mcp!NoCursor
  <2> QED
    BY <1>1, <1>3, <1>7, <2>1, <2>2 DEF SearchInv, DiscoveryInv
<1>9. CASE ~(until < Len(ranked))
  <2>1. until = Len(ranked) /\ cursor' = Mcp!NoCursor
    BY <1>1, <1>5, <1>9, <1>2, LenProperties
  <2>2. walk'.got = ranked
    BY <1>2, <1>7, <2>1, SubSeqFull
  <2> QED
    BY <1>1, <1>3, <2>1, <2>2 DEF SearchInv, DiscoveryInv
<1> QED
  BY <1>8, <1>9

\* A listing taken for whole is whole, and who follows a search's cursor to its end has
\* every match once, for any servers, tools, limits and answers (discover, search).
THEOREM ToolsKnownWhole ==
    ASSUME IsFiniteSet(Tools), NEW n \in Nat \ {0}, Servers = 1 .. n
    PROVE  PartsSpec => []ToolsAreWhole
<1>1. PartsInit => DiscoveryInv /\ SearchInv
  BY CatalogStarts DEF PartsInit
<1>2. (DiscoveryInv /\ SearchInv) /\ [PartsNext]_allVars => (DiscoveryInv /\ SearchInv)'
  <2>1. DiscoveryInv /\ SearchInv /\ Mcp!NextCatalog => (DiscoveryInv /\ SearchInv)'
    BY DiscoveryStep, SearchStep DEF Mcp!NextCatalog
  <2>2. DiscoveryInv /\ SearchInv /\ UNCHANGED mcpVars => (DiscoveryInv /\ SearchInv)'
    <3> SUFFICES ASSUME DiscoveryInv, SearchInv, UNCHANGED mcpVars
                 PROVE  (DiscoveryInv /\ SearchInv)'
      OBVIOUS
    <3>1. Ranked(walk)' = Ranked(walk)
      BY DEF Ranked, Mcp!Ranked, mcpVars
    <3> QED
      BY <3>1 DEF DiscoveryInv, SearchInv, mcpVars
  <2> QED
    BY <2>1, <2>2, OnePartSteps
<1>3. DiscoveryInv /\ SearchInv => ToolsAreWhole
  BY DEF DiscoveryInv, SearchInv, Ranked, ToolsAreWhole, Mcp!CatalogIsWhole, Mcp!MatchesOnce
<1> QED
  BY <1>1, <1>2, <1>3, PTL DEF PartsSpec

-----------------------------------------------------------------------------
(* The broker: every operation ends with the cell it was started for.      *)
(*                                                                         *)
(* NoStrayOperation is not inductive: that a call without a scope, or one  *)
(* that has not begun, is not live has to be known, and that a closing     *)
(* session has no open scope left, else aclose could end the handler of a  *)
(* live operation.                                                         *)

CallType == [at : {"none", "frame", "queued", "runs", "leaving", "closed"},
             op : {"none", "runs", "unwinds", "done", "cancelled"},
             of : Scopes \union {NoScope},
             kind : {"agent", "skill"},
             client : {"none", "waiting", "gone", "told"}]

BrokerTypes ==
  /\ split \in BOOLEAN
  /\ scope \in [Scopes -> {"none", "open", "closing", "closed"}]
  /\ awaited \in [Scopes -> SUBSET Calls]
  /\ cell \in Scopes \union {NoScope}
  /\ call \in [Calls -> CallType]
  /\ stage \in {"open", "scopes", "tasks", "connections", "closed"}

\* A call that was made has the scope of a cell.
ScopeKnown == \A c \in Calls : call[c].at # "none" => call[c].of \in Scopes

\* aclose has closed every scope before it goes on, and none opens any more.
CloseLeavesNone ==
  /\ stage # "open" => \A s \in Scopes : scope[s] # "open"
  /\ stage \notin {"open", "scopes"} => \A s \in Scopes : scope[s] \in {"none", "closed"}

BrokerInv == BrokerTypes /\ ScopeKnown /\ CloseLeavesNone /\ NoStrayOperation

-----------------------------------------------------------------------------

\* task.cancel() changes neither what a call belongs to nor whether it is live.
LEMMA CancellingKeeps ==
  ASSUME call \in [Calls -> CallType], NEW cs, call' = Cancelling(cs)
  PROVE  /\ call' \in [Calls -> CallType]
         /\ \A c \in Calls : /\ call'[c].at = call[c].at
                             /\ call'[c].of = call[c].of
                             /\ call'[c].kind = call[c].kind
                             /\ Live(c)' <=> Live(c)
  BY DEF CallType, Cancelling, Live

\* The end of a handler.
LEMMA EndedType ==
  ASSUME NEW r \in CallType
  PROVE  /\ Ended(r) \in CallType
         /\ Ended(r).op = r.op
         /\ Ended(r).of = r.of
         /\ Ended(r).at = "closed"
         /\ Ended(r).kind = r.kind
  BY DEF CallType, Ended

-----------------------------------------------------------------------------

LEMMA InitInv == InitBroker => BrokerInv
<1> SUFFICES ASSUME InitBroker PROVE BrokerInv
  OBVIOUS
<1>1. NoCall \in CallType /\ \A c \in Calls : call[c] = NoCall /\ ~Live(c)
  BY DEF InitBroker, NoCall, CallType, Live
<1>2. BrokerTypes
  BY <1>1 DEF InitBroker, BrokerTypes
<1>3. ScopeKnown /\ NoStrayOperation
  BY <1>1 DEF ScopeKnown, NoStrayOperation, NoCall
<1>4. CloseLeavesNone
  BY DEF InitBroker, CloseLeavesNone
<1> QED
  BY <1>2, <1>3, <1>4 DEF BrokerInv

-----------------------------------------------------------------------------
(* The cell.                                                               *)

LEMMA OpenScopeInv ==
  ASSUME BrokerInv, NEW s \in Scopes, OpenScope(s)
  PROVE  BrokerInv'
<1>1. BrokerTypes'
  BY DEF BrokerInv, BrokerTypes, OpenScope
<1>2. /\ call' = call /\ awaited' = awaited /\ stage = "open" /\ stage' = stage
      /\ \A t \in Scopes : t # s => scope'[t] = scope[t]
      /\ scope'[s] = "open"
  BY DEF BrokerInv, BrokerTypes, OpenScope
<1>3. NoStrayOperation'
  BY <1>2 DEF BrokerInv, ScopeKnown, NoStrayOperation, Live
<1> QED
  BY <1>1, <1>2, <1>3 DEF BrokerInv, ScopeKnown, CloseLeavesNone

LEMMA CloseScopeInv ==
  ASSUME BrokerInv, NEW s \in Scopes, CloseScope(s)
  PROVE  BrokerInv'
<1>1. /\ call \in [Calls -> CallType] /\ call' = Cancelling(OwnedBy({s}))
      /\ UNCHANGED <<split, cell, stage>>
  BY DEF BrokerInv, BrokerTypes, CloseScope
<1>2. /\ call' \in [Calls -> CallType]
      /\ \A c \in Calls : /\ call'[c].at = call[c].at
                          /\ call'[c].of = call[c].of
                          /\ Live(c)' <=> Live(c)
  BY <1>1, CancellingKeeps
<1>3. OwnedBy({s}) \in SUBSET Calls
  BY DEF OwnedBy
<1>4. BrokerTypes'
  BY <1>1, <1>2, <1>3 DEF BrokerInv, BrokerTypes, CloseScope
<1>5. /\ scope[s] = "open" /\ scope'[s] = "closing" /\ awaited'[s] = OwnedBy({s})
      /\ \A t \in Scopes : t # s => scope'[t] = scope[t] /\ awaited'[t] = awaited[t]
  BY DEF BrokerInv, BrokerTypes, CloseScope
<1>6. ScopeKnown'
  BY <1>2 DEF BrokerInv, ScopeKnown
<1>7. NoStrayOperation'
  <2> SUFFICES ASSUME NEW c \in Calls, Live(c)'
               PROVE  /\ call'[c].at \in {"runs", "leaving"}
                      /\ \/ scope'[call'[c].of] = "open"
                         \/ scope'[call'[c].of] = "closing" /\ c \in awaited'[call'[c].of]
    BY DEF NoStrayOperation
  <2>1. Live(c) /\ call'[c].at = call[c].at /\ call'[c].of = call[c].of
    BY <1>2
  <2>2. call[c].of \in Scopes
    BY <2>1 DEF BrokerInv, NoStrayOperation, ScopeKnown
  <2>3. CASE call[c].of = s
    BY <1>5, <2>1, <2>3 DEF BrokerInv, NoStrayOperation, OwnedBy
  <2>4. CASE call[c].of # s
    BY <1>5, <2>1, <2>2, <2>4 DEF BrokerInv, NoStrayOperation
  <2> QED
    BY <2>3, <2>4
<1>8. CloseLeavesNone'
  BY <1>1, <1>5 DEF BrokerInv, CloseLeavesNone
<1> QED
  BY <1>4, <1>6, <1>7, <1>8 DEF BrokerInv

\* Nothing that close_scope waited for is still live when it returns.
LEMMA ScopeClosedInv ==
  ASSUME BrokerInv, NEW s \in Scopes, ScopeClosed(s)
  PROVE  BrokerInv'
<1>1. BrokerTypes'
  BY DEF BrokerInv, BrokerTypes, ScopeClosed
<1>2. /\ call' = call /\ awaited' = awaited /\ stage' = stage
      /\ scope[s] = "closing" /\ scope'[s] = "closed"
      /\ \A t \in Scopes : t # s => scope'[t] = scope[t]
      /\ \A c \in awaited[s] : ~Live(c)
  BY DEF BrokerInv, BrokerTypes, ScopeClosed
<1>3. NoStrayOperation'
  BY <1>2 DEF BrokerInv, ScopeKnown, NoStrayOperation, Live
<1> QED
  BY <1>1, <1>2, <1>3 DEF BrokerInv, ScopeKnown, CloseLeavesNone

-----------------------------------------------------------------------------
(* The steps of one call. They move no scope, so what they do to that call *)
(* is all there is to show.                                                *)

LEMMA OneCall ==
  ASSUME BrokerInv, NEW c \in Calls, NEW r \in CallType,
         call' = [call EXCEPT ![c] = r],
         UNCHANGED <<split, scope, awaited, cell, stage>>,
         r.at # "none" => r.of \in Scopes,
         r.op \in {"runs", "unwinds"} =>
            /\ r.at \in {"runs", "leaving"}
            /\ \/ scope[r.of] = "open"
               \/ scope[r.of] = "closing" /\ c \in awaited[r.of]
  PROVE  BrokerInv'
<1>1. BrokerTypes'
  BY DEF BrokerInv, BrokerTypes
<1>2. call'[c] = r /\ \A d \in Calls : d # c => call'[d] = call[d]
  BY DEF BrokerInv, BrokerTypes
<1>3. ScopeKnown' /\ NoStrayOperation'
  BY <1>2 DEF BrokerInv, ScopeKnown, NoStrayOperation, Live
<1> QED
  BY <1>1, <1>3 DEF BrokerInv, CloseLeavesNone

LEMMA RequestInv ==
  ASSUME BrokerInv, NEW c \in Calls, NEW k \in {"agent", "skill"}, Request(c, k)
  PROVE  BrokerInv'
<1> DEFINE wanted == [call[c] EXCEPT !.of = cell, !.kind = k, !.client = "waiting"]
<1>1. /\ call[c] \in CallType /\ call[c].at = "none" /\ ~Live(c)
      /\ cell \in Scopes
      /\ UNCHANGED <<split, scope, awaited, cell, stage>>
  BY DEF BrokerInv, BrokerTypes, Request, NoStrayOperation
<1>2. /\ wanted \in CallType /\ wanted.of = cell
      /\ wanted.op = call[c].op
  BY <1>1 DEF CallType
<1>3. wanted.op \notin {"runs", "unwinds"}
  BY <1>1, <1>2 DEF Live
<1>4. CASE call' = [call EXCEPT ![c] = Ended(wanted)]
  <2>1. /\ Ended(wanted) \in CallType /\ Ended(wanted).of = cell
        /\ Ended(wanted).op = wanted.op
    BY <1>2, EndedType
  <2> HIDE DEF wanted
  <2> QED
    BY <1>1, <1>3, <1>4, <2>1, OneCall
<1>5. CASE call' = [call EXCEPT ![c] = [wanted EXCEPT !.at = "frame"]]
  <2>1. /\ [wanted EXCEPT !.at = "frame"] \in CallType
        /\ [wanted EXCEPT !.at = "frame"].of = cell
        /\ [wanted EXCEPT !.at = "frame"].op = wanted.op
    BY <1>2 DEF CallType
  <2> HIDE DEF wanted
  <2> QED
    BY <1>1, <1>3, <1>5, <2>1, OneCall
<1> QED
  BY <1>4, <1>5 DEF Request

LEMMA CallerLeavesInv ==
  ASSUME BrokerInv, NEW c \in Calls, CallerLeaves(c)
  PROVE  BrokerInv'
<1> DEFINE r == [call[c] EXCEPT !.client = "gone"]
<1>1. /\ call[c] \in CallType
      /\ call' = [call EXCEPT ![c] = r]
      /\ UNCHANGED <<split, scope, awaited, cell, stage>>
  BY DEF BrokerInv, BrokerTypes, CallerLeaves
<1>2. /\ r \in CallType
      /\ r.at = call[c].at /\ r.op = call[c].op /\ r.of = call[c].of
  BY <1>1 DEF CallType
<1> HIDE DEF r
<1> QED
  BY <1>1, <1>2, OneCall DEF BrokerInv, ScopeKnown, NoStrayOperation, Live

\* The handler ends: its operation never began, or is over.
LEMMA EndedInv ==
  ASSUME BrokerInv, NEW c \in Calls, ~Live(c), call[c].at # "none",
         call' = [call EXCEPT ![c] = Ended(call[c])],
         UNCHANGED <<split, scope, awaited, cell, stage>>
  PROVE  BrokerInv'
<1>1. call[c] \in CallType
  BY DEF BrokerInv, BrokerTypes
<1>2. /\ Ended(call[c]) \in CallType
      /\ Ended(call[c]).op = call[c].op /\ Ended(call[c]).of = call[c].of
  BY <1>1, EndedType
<1> QED
  BY <1>2, OneCall DEF BrokerInv, ScopeKnown, Live

LEMMA FrameFailsInv ==
  ASSUME BrokerInv, NEW c \in Calls, FrameFails(c)
  PROVE  BrokerInv'
BY EndedInv DEF FrameFails, BrokerInv, NoStrayOperation

LEMMA LeftInv ==
  ASSUME BrokerInv, NEW c \in Calls, Left(c)
  PROVE  BrokerInv'
BY EndedInv DEF Left

LEMMA AnswerInv ==
  ASSUME BrokerInv, NEW c \in Calls, Answer(c)
  PROVE  BrokerInv'
BY EndedInv DEF Answer

\* An operation begins in the step that finds its scope open.
LEMMA BeginInv ==
  ASSUME BrokerInv, NEW c \in Calls, NEW allowed \in BOOLEAN,
         call[c].at \in {"frame", "queued"},
         allowed => scope[call[c].of] = "open",
         Begin(c, allowed),
         UNCHANGED <<split, scope, awaited, cell, stage>>
  PROVE  BrokerInv'
<1> DEFINE r == [call[c] EXCEPT !.at = "runs", !.op = "runs"]
<1>1. call[c] \in CallType /\ ~Live(c) /\ call[c].of \in Scopes
  BY DEF BrokerInv, BrokerTypes, ScopeKnown, NoStrayOperation
<1>2. CASE ~allowed
  BY <1>1, <1>2, EndedInv DEF Begin
<1>3. CASE allowed
  <2>1. r \in CallType /\ r.at = "runs" /\ r.op = "runs" /\ r.of = call[c].of
    BY <1>1 DEF CallType
  <2>2. call' = [call EXCEPT ![c] = r]
    BY <1>3 DEF Begin
  <2> HIDE DEF r
  <2> QED
    BY <1>1, <1>3, <2>1, <2>2, OneCall
<1> QED
  BY <1>2, <1>3

LEMMA StartOperationInv ==
  ASSUME BrokerInv, NEW c \in Calls, StartOperation(c)
  PROVE  BrokerInv'
<1>1. MayCall(c) \in BOOLEAN /\ (MayCall(c) => scope[call[c].of] = "open")
  BY DEF MayCall
<1> QED
  BY <1>1, BeginInv DEF StartOperation

LEMMA StartSkillCallInv ==
  ASSUME BrokerInv, NEW c \in Calls, StartSkillCall(c)
  PROVE  BrokerInv'
BY BeginInv DEF StartSkillCall

LEMMA QueueSkillInv ==
  ASSUME BrokerInv, NEW c \in Calls, QueueSkill(c)
  PROVE  BrokerInv'
<1> DEFINE r == [call[c] EXCEPT !.at = "queued"]
<1>1. /\ call[c] \in CallType
      /\ call' = [call EXCEPT ![c] = r]
      /\ UNCHANGED <<split, scope, awaited, cell, stage>>
  BY DEF BrokerInv, BrokerTypes, QueueSkill
<1>2. r \in CallType /\ r.at = "queued" /\ r.op = call[c].op /\ r.of = call[c].of
  BY <1>1 DEF CallType
<1>3. ~Live(c) /\ call[c].of \in Scopes
  BY DEF QueueSkill, BrokerInv, ScopeKnown, NoStrayOperation, Live
<1> HIDE DEF r
<1> QED
  BY <1>1, <1>2, <1>3, OneCall DEF Live

LEMMA OperationEndsInv ==
  ASSUME BrokerInv, NEW c \in Calls, OperationEnds(c)
  PROVE  BrokerInv'
<1> DEFINE r == [call[c] EXCEPT !.op = "done"]
<1>1. /\ call[c] \in CallType
      /\ call' = [call EXCEPT ![c] = r]
      /\ UNCHANGED <<split, scope, awaited, cell, stage>>
  BY DEF BrokerInv, BrokerTypes, OperationEnds
<1>2. r \in CallType /\ r.op = "done" /\ r.at = call[c].at /\ r.of = call[c].of
  BY <1>1 DEF CallType
<1>3. call[c].of \in Scopes
  BY DEF OperationEnds, BrokerInv, ScopeKnown, NoStrayOperation, Live
<1> HIDE DEF r
<1> QED
  BY <1>1, <1>2, <1>3, OneCall DEF Live

LEMMA OperationUnwindsInv ==
  ASSUME BrokerInv, NEW c \in Calls, OperationUnwinds(c)
  PROVE  BrokerInv'
<1> DEFINE r == [call[c] EXCEPT !.op = "cancelled"]
<1>1. /\ call[c] \in CallType
      /\ call' = [call EXCEPT ![c] = r]
      /\ UNCHANGED <<split, scope, awaited, cell, stage>>
  BY DEF BrokerInv, BrokerTypes, OperationUnwinds
<1>2. r \in CallType /\ r.op = "cancelled" /\ r.at = call[c].at /\ r.of = call[c].of
  BY <1>1 DEF CallType
<1>3. call[c].of \in Scopes
  BY DEF OperationUnwinds, BrokerInv, ScopeKnown, NoStrayOperation, Live
<1> HIDE DEF r
<1> QED
  BY <1>1, <1>2, <1>3, OneCall DEF Live

LEMMA DisconnectInv ==
  ASSUME BrokerInv, NEW c \in Calls, Disconnect(c)
  PROVE  BrokerInv'
<1> DEFINE r == [call[c] EXCEPT !.op = "unwinds", !.at = "leaving"]
<1>1. /\ call[c] \in CallType /\ Live(c) /\ call[c].at = "runs"
      /\ call[c].of \in Scopes
      /\ UNCHANGED <<split, scope, awaited, cell, stage>>
  BY DEF BrokerInv, BrokerTypes, ScopeKnown, Disconnect
<1>2. /\ r \in CallType
      /\ r.at = "leaving" /\ r.op = "unwinds" /\ r.of = call[c].of
  BY <1>1 DEF CallType
<1>3. call' = [call EXCEPT ![c] = r]
  <2>1. call' = [Cancelling({c}) EXCEPT ![c].at = "leaving"]
    BY DEF Disconnect
  <2>2. Cancelling({c}) = [call EXCEPT ![c] = [call[c] EXCEPT !.op = "unwinds"]]
    BY <1>1 DEF Cancelling, BrokerInv, BrokerTypes
  <2> QED
    BY <2>1, <2>2 DEF BrokerInv, BrokerTypes
<1> HIDE DEF r
<1> QED
  BY <1>1, <1>2, <1>3, OneCall DEF BrokerInv, NoStrayOperation

-----------------------------------------------------------------------------
(* aclose.                                                                 *)

LEMMA BeginCloseInv ==
  ASSUME BrokerInv, BeginClose
  PROVE  BrokerInv'
<1> DEFINE open == {s \in Scopes : scope[s] = "open"}
<1>1. /\ call \in [Calls -> CallType] /\ call' = Cancelling(OwnedBy(open))
      /\ scope' = [s \in Scopes |-> IF s \in open THEN "closing" ELSE scope[s]]
      /\ awaited' = [s \in Scopes |-> IF s \in open THEN OwnedBy({s}) ELSE awaited[s]]
      /\ stage' = "scopes"
      /\ UNCHANGED <<split, cell>>
  BY DEF BrokerInv, BrokerTypes, BeginClose
<1>2. /\ call' \in [Calls -> CallType]
      /\ \A c \in Calls : /\ call'[c].at = call[c].at
                          /\ call'[c].of = call[c].of
                          /\ Live(c)' <=> Live(c)
  <2> HIDE DEF open
  <2> QED
    BY <1>1, CancellingKeeps
<1>3. \A s \in Scopes : OwnedBy({s}) \in SUBSET Calls
  BY DEF OwnedBy
<1>4. BrokerTypes'
  BY <1>1, <1>2, <1>3 DEF BrokerInv, BrokerTypes
<1>5. ScopeKnown'
  BY <1>2 DEF BrokerInv, ScopeKnown
<1>6. NoStrayOperation'
  <2> SUFFICES ASSUME NEW c \in Calls, Live(c)'
               PROVE  /\ call'[c].at \in {"runs", "leaving"}
                      /\ \/ scope'[call'[c].of] = "open"
                         \/ scope'[call'[c].of] = "closing" /\ c \in awaited'[call'[c].of]
    BY DEF NoStrayOperation
  <2>1. /\ Live(c) /\ call'[c].at = call[c].at /\ call'[c].of = call[c].of
        /\ call[c].at \in {"runs", "leaving"}
    BY <1>2 DEF BrokerInv, NoStrayOperation
  <2>2. call[c].of \in Scopes
    BY <2>1 DEF BrokerInv, ScopeKnown
  <2>3. CASE scope[call[c].of] = "open"
    <3>1. c \in OwnedBy({call[c].of})
      BY <2>1 DEF OwnedBy
    <3> QED
      BY <1>1, <2>1, <2>2, <2>3, <3>1
  <2>4. CASE scope[call[c].of] # "open"
    BY <1>1, <2>1, <2>2, <2>4 DEF BrokerInv, NoStrayOperation
  <2> QED
    BY <2>3, <2>4
<1>7. CloseLeavesNone'
  BY <1>1 DEF CloseLeavesNone
<1> QED
  BY <1>4, <1>5, <1>6, <1>7 DEF BrokerInv

LEMMA CloseTasksInv ==
  ASSUME BrokerInv, CloseTasks
  PROVE  BrokerInv'
<1>1. /\ call \in [Calls -> CallType]
      /\ call' = Cancelling({c \in Calls : call[c].kind = "skill"})
      /\ UNCHANGED <<split, scope, awaited, cell>>
      /\ stage = "scopes" /\ stage' = "tasks"
      /\ \A s \in Scopes : scope[s] \in {"none", "closed"}
  BY DEF BrokerInv, BrokerTypes, CloseTasks
<1>2. /\ call' \in [Calls -> CallType]
      /\ \A c \in Calls : /\ call'[c].at = call[c].at
                          /\ call'[c].of = call[c].of
                          /\ Live(c)' <=> Live(c)
  BY <1>1, CancellingKeeps
<1>3. BrokerTypes'
  BY <1>1, <1>2 DEF BrokerInv, BrokerTypes
<1>4. ScopeKnown' /\ NoStrayOperation'
  BY <1>1, <1>2 DEF BrokerInv, ScopeKnown, NoStrayOperation
<1>5. CloseLeavesNone'
  BY <1>1 DEF CloseLeavesNone
<1> QED
  BY <1>3, <1>4, <1>5 DEF BrokerInv

LEMMA TasksEndedInv ==
  ASSUME BrokerInv, TasksEnded
  PROVE  BrokerInv'
BY DEF TasksEnded, BrokerInv, BrokerTypes, ScopeKnown, CloseLeavesNone, NoStrayOperation, Live

\* The handlers are ended when no operation is live.
LEMMA CloseConnectionsInv ==
  ASSUME BrokerInv, CloseConnections
  PROVE  BrokerInv'
<1>1. /\ call \in [Calls -> CallType]
      /\ call' = [c \in Calls |-> IF c \in Connections THEN Ended(call[c]) ELSE call[c]]
      /\ UNCHANGED <<split, scope, awaited, cell>>
      /\ stage = "connections" /\ stage' = "closed"
      /\ \A s \in Scopes : scope[s] \in {"none", "closed"}
  BY DEF BrokerInv, BrokerTypes, CloseLeavesNone, CloseConnections
<1>2. \A c \in Calls : ~Live(c)
  BY <1>1 DEF BrokerInv, ScopeKnown, NoStrayOperation
<1>3. \A c \in Calls : /\ Ended(call[c]) \in CallType
                       /\ Ended(call[c]).op = call[c].op
                       /\ Ended(call[c]).of = call[c].of
  BY <1>1, EndedType
<1>4. \A c \in Calls : /\ call'[c] \in CallType
                       /\ call'[c].op = call[c].op
                       /\ call'[c].of = call[c].of
                       /\ call[c].at = "none" => call'[c] = call[c]
  BY <1>1, <1>3 DEF Connections
<1>5. BrokerTypes'
  <2>1. call' \in [Calls -> CallType]
    <3> DEFINE f(c) == IF c \in Connections THEN Ended(call[c]) ELSE call[c]
    <3>1. \A c \in Calls : f(c) \in CallType
      BY <1>1, <1>3
    <3>2. call' = [c \in Calls |-> f(c)]
      BY <1>1
    <3> HIDE DEF f
    <3> QED
      BY <3>1, <3>2
  <2> QED
    BY <1>1, <2>1 DEF BrokerInv, BrokerTypes
<1>6. ScopeKnown'
  BY <1>4 DEF BrokerInv, ScopeKnown
<1>7. NoStrayOperation'
  BY <1>2, <1>4 DEF NoStrayOperation, Live
<1>8. CloseLeavesNone'
  BY <1>1 DEF CloseLeavesNone
<1> QED
  BY <1>5, <1>6, <1>7, <1>8 DEF BrokerInv

-----------------------------------------------------------------------------

LEMMA NextInv == BrokerInv /\ [NextBroker]_brokerVars => BrokerInv'
<1> SUFFICES ASSUME BrokerInv, [NextBroker]_brokerVars PROVE BrokerInv'
  OBVIOUS
<1>1. ASSUME NEW s \in Scopes,
             OpenScope(s) \/ SetScope(s) \/ CloseScope(s) \/ ScopeClosed(s)
      PROVE  BrokerInv'
  <2>1. CASE SetScope(s)
    BY <2>1 DEF SetScope, BrokerInv, BrokerTypes, ScopeKnown, CloseLeavesNone,
                NoStrayOperation, Live
  <2> QED
    BY <1>1, <2>1, OpenScopeInv, CloseScopeInv, ScopeClosedInv
<1>2. ASSUME NEW c \in Calls,
             \/ \E k \in {"agent", "skill"} : Request(c, k)
             \/ CallerLeaves(c) \/ FrameFails(c) \/ StartOperation(c) \/ QueueSkill(c)
             \/ StartSkillCall(c) \/ OperationEnds(c) \/ OperationUnwinds(c)
             \/ Disconnect(c) \/ Left(c) \/ Answer(c)
      PROVE  BrokerInv'
  BY <1>2, RequestInv, CallerLeavesInv, FrameFailsInv, StartOperationInv, QueueSkillInv,
     StartSkillCallInv, OperationEndsInv, OperationUnwindsInv, DisconnectInv, LeftInv,
     AnswerInv
<1>3. CASE BeginClose \/ CloseTasks \/ TasksEnded \/ CloseConnections
  BY <1>3, BeginCloseInv, CloseTasksInv, TasksEndedInv, CloseConnectionsInv
<1>4. CASE UNCHANGED brokerVars
  BY <1>4 DEF brokerVars, BrokerInv, BrokerTypes, ScopeKnown, CloseLeavesNone,
              NoStrayOperation, Live
<1> QED
  BY <1>1, <1>2, <1>3, <1>4 DEF NextBroker

\* However requests, cells, hang-ups and the session's close interleave, an operation
\* of the broker is live only while its handler waits for it and its cell's scope is
\* open or waits for it: nothing a cell asked for outlives close_scope.
THEOREM NothingOutlivesItsCell == BrokerSpec => []NoStrayOperation
<1>1. InitBroker => BrokerInv
  BY InitInv
<1>2. BrokerInv /\ [NextBroker]_brokerVars => BrokerInv'
  BY NextInv
<1>3. BrokerInv => NoStrayOperation
  BY DEF BrokerInv
<1> QED
  BY <1>1, <1>2, <1>3, PTL DEF BrokerSpec

\* Once aclose has closed the scopes, no operation of the broker is live: the session
\* comes down under none of them (supervisor.py:1664-1676).
ClosedScopesRest ==
  stage \in {"tasks", "connections", "closed"} => \A c \in Calls : ~Live(c)

THEOREM SessionClosesAtRest == BrokerSpec => []ClosedScopesRest
<1>1. InitBroker => BrokerInv
  BY InitInv
<1>2. BrokerInv /\ [NextBroker]_brokerVars => BrokerInv'
  BY NextInv
<1>3. BrokerInv => ClosedScopesRest
  <2> SUFFICES ASSUME BrokerInv, stage \in {"tasks", "connections", "closed"},
                      NEW c \in Calls, Live(c)
               PROVE  FALSE
    BY DEF ClosedScopesRest
  <2>1. /\ call[c].at # "none"
        /\ scope[call[c].of] \in {"open", "closing"}
    BY DEF BrokerInv, NoStrayOperation
  <2>2. call[c].of \in Scopes
    BY <2>1 DEF BrokerInv, ScopeKnown
  <2> QED
    BY <2>1, <2>2 DEF BrokerInv, CloseLeavesNone
<1> QED
  BY <1>1, <1>2, <1>3, PTL DEF BrokerSpec

-----------------------------------------------------------------------------
(* Model calls: the cap on turns and the permits of a session tree.        *)
(*                                                                         *)
(* The cap is not inductive: a call counts its turn when it is answered,   *)
(* long after its check.  What is inductive counts the calls past their    *)
(* check with the turns already taken.  The permits need that no two       *)
(* attempts share a ticket and that no ticket both waits and is inside.    *)

EngineType == [at : {"stopped", "top", "calling", "attempt", "pause"},
               attempt : Nat, ticket : Nat, work : BOOLEAN]

CallTypes ==
  /\ engine \in [Engines -> EngineType]
  /\ totalTurns \in Nat
  /\ arrived \in Nat

\* The calls that passed their check and have not counted their turn.
PastCheck ==
  {e \in Engines : engine[e].at \in {"calling", "attempt", "pause"} /\ engine[e].work}

TurnsAhead ==
  totalTurns + Cardinality(PastCheck) <= MaxTurns + Cardinality(Engines) - 1

Attempting == {e \in Engines : engine[e].at = "attempt"}

TicketsApart ==
  /\ \A e \in Attempting : engine[e].ticket < arrived
  /\ \A e, f \in Attempting : engine[e].ticket = engine[f].ticket => e = f

\* A ticket that waits or is inside is that of an attempt.
TicketsServed == \A t \in queue \union inside : \E e \in Attempting : engine[e].ticket = t

TicketInv == TicketsApart /\ TicketsServed /\ queue \intersect inside = {}

-----------------------------------------------------------------------------

LEMMA InitTypes == InitCalls => CallTypes /\ TicketInv
  BY DEF InitCalls, Init, Resting, EngineType, CallTypes, TicketInv, TicketsApart, TicketsServed,
         Attempting

\* What an attempt, and an error in it, change in an engine.
LEMMA RecordChanges ==
  ASSUME NEW r \in EngineType, NEW t \in Nat
  PROVE  /\ [r EXCEPT !.at = "attempt", !.ticket = t] \in EngineType
         /\ [r EXCEPT !.at = "pause", !.attempt = @ + 1] \in EngineType
<1>1. [r EXCEPT !.at = "attempt", !.ticket = t] \in EngineType
  BY DEF EngineType
<1>2. r.attempt + 1 \in Nat
  BY DEF EngineType
<1>3. [r EXCEPT !.at = "pause", !.attempt = r.attempt + 1] \in EngineType
  BY <1>2 DEF EngineType
<1> QED
  BY <1>1, <1>3

LEMMA TypesKept ==
  ASSUME CallTypes, NextCalls
  PROVE  CallTypes'
<1>1. PICK e \in Engines :
          \/ Prompted(e) \/ BeginTurn(e) \/ CapReached(e) \/ BeginSideCall(e)
          \/ ModelAttempt(e) \/ Responds(e) \/ TransientError(e) \/ PauseOver(e)
          \/ CallFails(e) \/ Interrupted(e)
  BY DEF NextCalls
<1>2. Resting \in EngineType
  BY DEF Resting, EngineType
<1>3. CASE Prompted(e) \/ PauseOver(e)
  BY <1>3 DEF Prompted, PauseOver, Goes, CallTypes, EngineType, absVars
<1>4. CASE BeginTurn(e) \/ BeginSideCall(e) \/ CapReached(e)
  <2>1. /\ [Resting EXCEPT !.at = "calling"] \in EngineType
        /\ [Resting EXCEPT !.at = "calling", !.work = FALSE] \in EngineType
    BY DEF Resting, EngineType
  <2>2. engine' \in [Engines -> EngineType]
    BY <1>2, <1>4, <2>1 DEF BeginTurn, BeginSideCall, CapReached, Stops, CallTypes
  <2>3. totalTurns' = totalTurns /\ arrived' = arrived
    BY <1>4 DEF BeginTurn, BeginSideCall, CapReached, absVars
  <2> QED
    BY <2>2, <2>3 DEF CallTypes
<1>5. CASE ModelAttempt(e)
  <2>1. engine' = [engine EXCEPT ![e] = [@ EXCEPT !.at = "attempt", !.ticket = arrived]]
    BY <1>5 DEF ModelAttempt, CallTypes, EngineType
  <2>2. [engine[e] EXCEPT !.at = "attempt", !.ticket = arrived] \in EngineType
    BY RecordChanges DEF CallTypes
  <2>3. totalTurns' = totalTurns /\ arrived' = arrived + 1
    BY <1>5 DEF ModelAttempt, Arrive
  <2> QED
    BY <2>1, <2>2, <2>3 DEF CallTypes
<1>6. CASE Responds(e)
  <2>1. [Resting EXCEPT !.at = "top"] \in EngineType
    BY DEF Resting, EngineType
  <2>2. engine' \in [Engines -> EngineType]
    BY <1>6, <2>1 DEF Responds, CallTypes
  <2>3. totalTurns' \in Nat /\ arrived' = arrived
    BY <1>6 DEF Responds, Leave, CallTypes
  <2> QED
    BY <2>2, <2>3 DEF CallTypes
<1>7. CASE TransientError(e)
  <2>1. [engine[e] EXCEPT !.at = "pause", !.attempt = @ + 1] \in EngineType
    BY RecordChanges DEF CallTypes
  <2>2. engine' = [engine EXCEPT ![e] = [engine[e] EXCEPT !.at = "pause", !.attempt = @ + 1]]
    BY <1>7 DEF TransientError, CallTypes, EngineType
  <2>3. totalTurns' = totalTurns /\ arrived' = arrived
    BY <1>7 DEF TransientError, Leave
  <2> QED
    BY <2>1, <2>2, <2>3 DEF CallTypes
<1>8. CASE CallFails(e) \/ Interrupted(e)
  <2>1. engine' = [engine EXCEPT ![e] = Resting]
    BY <1>8 DEF CallFails, Interrupted, Stops
  <2>2. totalTurns' = totalTurns /\ arrived' = arrived
    BY <1>8 DEF CallFails, Interrupted, Leave, GiveUp, absVars
  <2> QED
    BY <1>2, <2>1, <2>2 DEF CallTypes
<1> QED
  BY <1>1, <1>3, <1>4, <1>5, <1>6, <1>7, <1>8

-----------------------------------------------------------------------------
(* The permits.                                                            *)

\* A step of an engine that makes no attempt before or after it leaves the tickets be.
LEMMA AsideKeeps ==
  ASSUME CallTypes, TicketInv, NEW e \in Engines, NEW r \in EngineType,
         engine' = [engine EXCEPT ![e] = r], UNCHANGED absVars,
         engine[e].at # "attempt", r.at # "attempt"
  PROVE  TicketInv'
<1>1. Attempting' = Attempting /\ \A f \in Attempting : engine'[f] = engine[f]
  BY DEF Attempting, CallTypes
<1> QED
  BY <1>1 DEF TicketInv, TicketsApart, TicketsServed, absVars

\* An attempt that ends takes its ticket with it, out of the queue or from the inside.
LEMMA AttemptEnds ==
  ASSUME CallTypes, TicketInv, NEW e \in Engines, NEW r \in EngineType,
         engine' = [engine EXCEPT ![e] = r], engine[e].at = "attempt", r.at # "attempt",
         Leave(engine[e].ticket) \/ GiveUp(engine[e].ticket)
  PROVE  TicketInv'
<1>1. Attempting' = Attempting \ {e} /\ \A f \in Attempting' : engine'[f] = engine[f]
  BY DEF Attempting, CallTypes
<1>2. /\ queue' \union inside' = (queue \union inside) \ {engine[e].ticket}
      /\ queue' \intersect inside' = {}
      /\ arrived' = arrived
  BY DEF Leave, GiveUp, First, TicketInv
<1>3. TicketsApart'
  BY <1>1, <1>2 DEF TicketsApart, TicketInv
<1>4. TicketsServed'
  BY <1>1, <1>2 DEF TicketsServed, TicketInv
<1> QED
  BY <1>2, <1>3, <1>4 DEF TicketInv

\* A new attempt has a ticket that nobody had.
LEMMA AttemptBegins ==
  ASSUME CallTypes, TicketInv, NEW e \in Engines, ModelAttempt(e)
  PROVE  TicketInv'
<1>1. /\ Attempting' = Attempting \union {e}
      /\ e \notin Attempting
      /\ engine'[e].ticket = arrived
      /\ \A f \in Attempting : engine'[f].ticket = engine[f].ticket
  BY DEF ModelAttempt, At, Attempting, CallTypes, EngineType
<1>2. /\ arrived' = arrived + 1
      /\ queue' \union inside' = queue \union inside \union {arrived}
  BY DEF ModelAttempt, Arrive
<1>3. arrived \notin queue \union inside
  BY DEF TicketInv, TicketsApart, TicketsServed, CallTypes
<1>4. queue' \intersect inside' = {}
  BY <1>3 DEF TicketInv, ModelAttempt, Arrive
<1>5. \A f \in Attempting : engine[f].ticket \in Nat /\ engine[f].ticket < arrived
  BY DEF TicketInv, TicketsApart, Attempting, CallTypes, EngineType
<1>6. TicketsApart'
  BY <1>1, <1>2, <1>5 DEF TicketsApart, TicketInv, CallTypes
<1>7. TicketsServed'
  BY <1>1, <1>2 DEF TicketsServed, TicketInv
<1> QED
  BY <1>4, <1>6, <1>7 DEF TicketInv

LEMMA TicketsKept ==
  ASSUME CallTypes, TicketInv, NextCalls
  PROVE  TicketInv'
<1>1. PICK e \in Engines :
          \/ Prompted(e) \/ BeginTurn(e) \/ CapReached(e) \/ BeginSideCall(e)
          \/ ModelAttempt(e) \/ Responds(e) \/ TransientError(e) \/ PauseOver(e)
          \/ CallFails(e) \/ Interrupted(e)
  BY DEF NextCalls
<1> DEFINE moved(where) == [engine[e] EXCEPT !.at = where]
<1>2. /\ Resting \in EngineType
      /\ engine[e] \in EngineType
      /\ \A where \in {"top", "calling"} : moved(where) \in EngineType /\ moved(where).at = where
  BY DEF Resting, EngineType, CallTypes
<1>3. CASE Prompted(e)
  <2>1. engine' = [engine EXCEPT ![e] = moved("top")]
    BY <1>3 DEF Prompted, Goes, CallTypes, EngineType
  <2> QED
    BY <1>2, <1>3, <2>1, AsideKeeps DEF Prompted, At
<1>4. CASE PauseOver(e)
  <2>1. engine' = [engine EXCEPT ![e] = moved("calling")]
    BY <1>4 DEF PauseOver, Goes, CallTypes, EngineType
  <2> QED
    BY <1>2, <1>4, <2>1, AsideKeeps DEF PauseOver, At
<1>5. CASE BeginTurn(e) \/ BeginSideCall(e) \/ CapReached(e)
  <2>1. PICK r \in EngineType : r.at # "attempt" /\ engine' = [engine EXCEPT ![e] = r]
    BY <1>2, <1>5 DEF BeginTurn, BeginSideCall, CapReached, Stops, Resting, EngineType
  <2> QED
    BY <1>5, <2>1, AsideKeeps DEF BeginTurn, BeginSideCall, CapReached, At
<1>6. CASE ModelAttempt(e)
  BY <1>6, AttemptBegins
<1>7. CASE Responds(e)
  <2>1. [Resting EXCEPT !.at = "top"] \in EngineType
    BY DEF Resting, EngineType
  <2> QED
    BY <1>7, <2>1, AttemptEnds DEF Responds, At, Resting
<1>8. CASE TransientError(e)
  <2> DEFINE r == [engine[e] EXCEPT !.at = "pause", !.attempt = @ + 1]
  <2>1. r \in EngineType /\ r.at = "pause" /\ engine' = [engine EXCEPT ![e] = r]
    BY <1>8 DEF TransientError, EngineType, CallTypes
  <2> QED
    BY <1>8, <2>1, AttemptEnds DEF TransientError, At
<1>9. CASE CallFails(e) \/ (At(e, "attempt") /\ Interrupted(e))
  BY <1>2, <1>9, AttemptEnds DEF CallFails, Interrupted, Stops, At, Resting
<1>10. CASE ~At(e, "attempt") /\ Interrupted(e)
  BY <1>2, <1>10, AsideKeeps DEF Interrupted, Stops, At, Resting
<1> QED
  BY <1>1, <1>3, <1>4, <1>5, <1>6, <1>7, <1>8, <1>9, <1>10

-----------------------------------------------------------------------------
(* The cap.                                                                *)

\* A turn begins below the cap, and adds its call to those past their check; the others
\* move a call out of them, or leave them be.
LEMMA TurnsKept ==
  ASSUME IsFiniteSet(Engines), MaxTurns \in Nat, CallTypes, TurnsAhead, NextCalls
  PROVE  TurnsAhead'
<1>1. PICK e \in Engines :
          \/ Prompted(e) \/ BeginTurn(e) \/ CapReached(e) \/ BeginSideCall(e)
          \/ ModelAttempt(e) \/ Responds(e) \/ TransientError(e) \/ PauseOver(e)
          \/ CallFails(e) \/ Interrupted(e)
  BY DEF NextCalls
<1>2. /\ \A S \in SUBSET Engines : IsFiniteSet(S) /\ Cardinality(S) \in Nat
      /\ \A S \in SUBSET Engines : Cardinality(S) <= Cardinality(Engines)
      /\ Cardinality(Engines) \in Nat
  BY FS_Subset, FS_CardinalityType
<1>3. PastCheck \subseteq Engines /\ PastCheck' \subseteq Engines
  BY DEF PastCheck
<1>4. CASE BeginTurn(e)
  <2>1. totalTurns' = totalTurns /\ totalTurns < MaxTurns
    BY <1>4 DEF BeginTurn
  <2> QED
    BY <1>2, <1>3, <2>1 DEF TurnsAhead, CallTypes
<1>5. CASE Responds(e)
  <2>1. PastCheck' = PastCheck \ {e}
    BY <1>5 DEF Responds, PastCheck, Resting, CallTypes
  <2>2. e \in PastCheck <=> engine[e].work
    BY <1>5 DEF Responds, At, PastCheck
  <2>3. Cardinality(PastCheck') = Cardinality(PastCheck) - (IF engine[e].work THEN 1 ELSE 0)
    BY <1>2, <1>3, <2>1, <2>2, FS_RemoveElement
  <2> QED
    BY <1>2, <1>3, <1>5, <2>3 DEF Responds, TurnsAhead, CallTypes
<1>6. CASE ~BeginTurn(e) /\ ~Responds(e)
  <2>1. totalTurns' = totalTurns
    BY <1>1, <1>6 DEF Prompted, CapReached, BeginSideCall, ModelAttempt, TransientError, PauseOver,
                      CallFails, Interrupted
  <2>2. PastCheck' \subseteq PastCheck
    <3>1. CASE Prompted(e) \/ CapReached(e)
      BY <3>1 DEF Prompted, CapReached, Goes, Stops, Resting, PastCheck, CallTypes, EngineType
    <3>2. CASE BeginSideCall(e)
      <4>1. engine'[e].work = FALSE /\ \A f \in Engines \ {e} : engine'[f] = engine[f]
        BY <3>2 DEF BeginSideCall, Resting, CallTypes
      <4> QED
        BY <4>1 DEF PastCheck
    <3>3. CASE ModelAttempt(e) \/ PauseOver(e)
      BY <3>3 DEF ModelAttempt, PauseOver, At, Goes, PastCheck, CallTypes, EngineType
    <3>4. CASE TransientError(e)
      BY <3>4 DEF TransientError, At, PastCheck, CallTypes, EngineType
    <3>5. CASE CallFails(e) \/ Interrupted(e)
      BY <3>5 DEF CallFails, Interrupted, Stops, Resting, PastCheck, CallTypes, EngineType
    <3> QED
      BY <1>1, <1>6, <3>1, <3>2, <3>3, <3>4, <3>5
  <2>3. Cardinality(PastCheck') <= Cardinality(PastCheck)
    BY <1>2, <1>3, <2>2, FS_Subset
  <2> QED
    BY <1>2, <1>3, <2>1, <2>3 DEF TurnsAhead, CallTypes
<1> QED
  BY <1>4, <1>5, <1>6

-----------------------------------------------------------------------------

\* The turns of a tree exceed the cap at most by the calls that were past their check
\* when it was reached, one for each other engine, and every permit in use is that of an
\* attempt in flight (engine.py:1449-1464, client.py:84-110).
THEOREM CallsBounded ==
  ASSUME IsFiniteSet(Engines), Engines # {}, MaxTurns \in Nat
  PROVE  CallsSpec => []CapAndPermits
<1> DEFINE Inv == CallTypes /\ TicketInv /\ TurnsAhead
<1>1. Cardinality(Engines) \in Nat /\ Cardinality(Engines) # 0
  BY FS_CardinalityType, FS_EmptySet
<1>2. InitCalls => Inv
  <2> SUFFICES ASSUME InitCalls PROVE Inv
    OBVIOUS
  <2>1. PastCheck = {} /\ totalTurns = 0
    BY DEF InitCalls, Resting, PastCheck
  <2>2. TurnsAhead
    BY <1>1, <2>1, FS_EmptySet DEF TurnsAhead
  <2> QED
    BY <2>2, InitTypes
<1>3. Inv /\ [NextCalls]_<<absVars, callVars>> => Inv'
  <2> SUFFICES ASSUME Inv, [NextCalls]_<<absVars, callVars>> PROVE Inv'
    OBVIOUS
  <2>1. CASE NextCalls
    BY <2>1, TypesKept, TicketsKept, TurnsKept
  <2>2. CASE UNCHANGED <<absVars, callVars>>
    BY <2>2 DEF absVars, callVars, CallTypes, TicketInv, TicketsApart, TicketsServed, Attempting,
                TurnsAhead, PastCheck
  <2> QED
    BY <2>1, <2>2
<1>4. Inv => CapAndPermits
  <2> SUFFICES ASSUME Inv PROVE CapAndPermits
    OBVIOUS
  <2>1. Cardinality(PastCheck) \in Nat
    BY FS_Subset, FS_CardinalityType DEF PastCheck
  <2>2. CapHolds
    BY <1>1, <2>1 DEF TurnsAhead, CallTypes, CapHolds
  <2>3. PermitsAreInUse
    BY DEF TicketInv, TicketsServed, Attempting, PermitsAreInUse
  <2> QED
    BY <2>2, <2>3 DEF CapAndPermits
<1> QED
  BY <1>2, <1>3, <1>4, PTL DEF CallsSpec
-----------------------------------------------------------------------------
(* Path watches. The way of a report, from the worker's list to the queue  *)
(* of the subscription, keeps its order; what may break it ends the poll,  *)
(* and whoever was registered by then is told.                             *)

PathTypes ==
    /\ reports \in [WatchIds -> Nat]
    /\ unsent \in [WatchIds -> Seq(Nat)]
    /\ reply \in [WatchIds -> Seq(Nat)]
    /\ heard \in [WatchIds -> Seq(Nat)]
    /\ polling \in BOOLEAN /\ worker \in BOOLEAN
    /\ asked \in [WatchIds -> {"none", "asked", "replied", "refused"}]
    /\ listener \in [WatchIds -> {"none", "calling", "reading", "left"}]

\* The last of the numbers 1..n, in their order.
LastOf(way, n) == \A i \in 1 .. Len(way) : way[i] = n - Len(way) + i

Way(w) == heard[w] \o (reply[w] \o unsent[w])
Listens(w) == listener[w] \in {"calling", "reading"}

OnItsWay(w) ==
    polling /\ worker /\ Listens(w) =>
        /\ LastOf(Way(w), reports[w])
        /\ listener[w] = "calling" => Len(Way(w)) = reports[w]

Told(w) ==
    ~polling /\ Listens(w) /\ w \notin late => \E i \in 1 .. Len(heard[w]) : heard[w][i] = Paths!Broken

\* Before it is asked for, a watch has no reports; one that is listened to is known
\* to the supervisor.
WatchState(w) ==
    /\ listener[w] = "none" =>
         /\ asked[w] = "none" /\ reports[w] = 0
         /\ heard[w] = <<>> /\ reply[w] = <<>> /\ unsent[w] = <<>>
         /\ w \notin registered
    /\ asked[w] \in {"none", "asked"} => w \notin running
    /\ asked[w] = "none" => listener[w] = "none"
    /\ Listens(w) => w \in registered

WatchInv(w) == WatchState(w) /\ OnItsWay(w) /\ Told(w)
PathInv == PathTypes /\ \A w \in WatchIds : WatchInv(w)

\* Lists of numbers, as they are used here.
LEMMA LastAppend ==
    ASSUME NEW way \in Seq(Nat), NEW n \in Nat, LastOf(way, n)
    PROVE  LastOf(Append(way, n + 1), n + 1)
<1>1. /\ Len(Append(way, n + 1)) = Len(way) + 1 /\ Len(way) \in Nat
      /\ \A i \in 1 .. Len(way) : Append(way, n + 1)[i] = way[i]
      /\ Append(way, n + 1)[Len(way) + 1] = n + 1
  BY AppendProperties, LenProperties
<1> QED
  BY <1>1 DEF LastOf

LEMMA LastTail ==
    ASSUME NEW way \in Seq(Nat), NEW n \in Nat, LastOf(way, n), way # <<>>
    PROVE  LastOf(Tail(way), n)
<1>1. /\ Len(Tail(way)) = Len(way) - 1 /\ Len(way) \in Nat
      /\ \A i \in 1 .. Len(Tail(way)) : Tail(way)[i] = way[i + 1]
  BY HeadTailProperties, LenProperties
<1>2. \A i \in 1 .. Len(Tail(way)) : i + 1 \in 1 .. Len(way)
  BY <1>1
<1> QED
  BY <1>1, <1>2 DEF LastOf

LEMMA ConcatTail ==
    ASSUME NEW s \in Seq(Nat), NEW t \in Seq(Nat), s # <<>>
    PROVE  Tail(s) \o t = Tail(s \o t) /\ s \o t # <<>>
<1>1. s \o t \in Seq(Nat) /\ s \o t # <<>> /\ Tail(s) \in Seq(Nat) /\ Len(s) \in Nat \ {0}
  BY ConcatProperties, ConcatEqualIffEmpty, HeadTailProperties, EmptySeq
<1>2. /\ Len(s \o t) = Len(s) + Len(t) /\ Len(t) \in Nat
      /\ \A i \in 1 .. Len(s) + Len(t) : (s \o t)[i] = IF i <= Len(s) THEN s[i] ELSE t[i - Len(s)]
  BY ConcatProperties, LenProperties
<1>3. /\ Len(Tail(s)) = Len(s) - 1 /\ \A i \in 1 .. Len(Tail(s)) : Tail(s)[i] = s[i + 1]
  BY HeadTailProperties
<1>4. /\ Tail(s \o t) \in Seq(Nat) /\ Len(Tail(s \o t)) = Len(s \o t) - 1
      /\ \A i \in 1 .. Len(Tail(s \o t)) : Tail(s \o t)[i] = (s \o t)[i + 1]
  BY <1>1, HeadTailProperties
<1>5. /\ Tail(s) \o t \in Seq(Nat) /\ Len(Tail(s) \o t) = Len(Tail(s)) + Len(t)
      /\ \A i \in 1 .. Len(Tail(s)) + Len(t) :
            (Tail(s) \o t)[i] = IF i <= Len(Tail(s)) THEN Tail(s)[i] ELSE t[i - Len(Tail(s))]
  BY <1>1, ConcatProperties
<1>6. Len(Tail(s) \o t) = Len(Tail(s \o t))
  BY <1>1, <1>2, <1>3, <1>4, <1>5
<1>7. ASSUME NEW i \in 1 .. Len(Tail(s) \o t) PROVE (Tail(s) \o t)[i] = Tail(s \o t)[i]
  <2>1. i \in 1 .. Len(Tail(s)) + Len(t) /\ i \in 1 .. Len(Tail(s \o t)) /\ i + 1 \in 1 .. Len(s) + Len(t)
    BY <1>1, <1>2, <1>3, <1>5, <1>6, <1>7
  <2>2. Tail(s \o t)[i] = (IF i + 1 <= Len(s) THEN s[i + 1] ELSE t[i + 1 - Len(s)])
    BY <1>2, <1>4, <2>1
  <2>3. CASE i <= Len(Tail(s))
    BY <1>1, <1>3, <1>5, <2>1, <2>2, <2>3
  <2>4. CASE ~(i <= Len(Tail(s)))
    <3>1. ~(i + 1 <= Len(s)) /\ i - Len(Tail(s)) = i + 1 - Len(s)
      BY <1>1, <1>3, <2>4
    <3> QED
      BY <1>5, <2>1, <2>2, <2>4, <3>1
  <2> QED
    BY <2>3, <2>4
<1> QED
  BY <1>1, <1>4, <1>5, <1>6, <1>7, SeqEqual

LEMMA ConcatThree ==
    \A s, t, u \in Seq(Nat) : (s \o t) \o u = s \o (t \o u)
  BY ConcatAssociative

LEMMA AppendLast ==
    \A s, t, u \in Seq(Nat), e \in Nat : s \o (t \o Append(u, e)) = Append(s \o (t \o u), e)
<1> SUFFICES ASSUME NEW s \in Seq(Nat), NEW t \in Seq(Nat), NEW u \in Seq(Nat), NEW e \in Nat
             PROVE  s \o (t \o Append(u, e)) = Append(s \o (t \o u), e)
  OBVIOUS
<1>1. <<e>> \in Seq(Nat) /\ t \o u \in Seq(Nat) /\ s \o (t \o u) \in Seq(Nat)
  BY ConcatProperties
<1>2. Append(u, e) = u \o <<e>> /\ Append(s \o (t \o u), e) = (s \o (t \o u)) \o <<e>>
  BY <1>1, AppendIsConcat
<1>3. t \o (u \o <<e>>) = (t \o u) \o <<e>>
  BY <1>1, ConcatAssociative
<1>4. s \o ((t \o u) \o <<e>>) = (s \o (t \o u)) \o <<e>>
  BY <1>1, ConcatAssociative
<1> QED
  BY <1>2, <1>3, <1>4

\* What comes after a list, of which something is the last.
LEMMA EndsWith ==
    \A s, t \in Seq(Nat), e \in Nat :
        /\ s \o Append(t, e) \in Seq(Nat)
        /\ \E i \in 1 .. Len(s \o Append(t, e)) : (s \o Append(t, e))[i] = e
<1> SUFFICES ASSUME NEW s \in Seq(Nat), NEW t \in Seq(Nat), NEW e \in Nat
             PROVE  /\ s \o Append(t, e) \in Seq(Nat)
                    /\ \E i \in 1 .. Len(s \o Append(t, e)) : (s \o Append(t, e))[i] = e
  OBVIOUS
<1>1. s \o t \in Seq(Nat) /\ <<>> \in Seq(Nat)
  BY ConcatProperties, EmptySeq
<1>2. s \o Append(t, e) = Append(s \o t, e)
  <2>1. <<e>> \in Seq(Nat)
    OBVIOUS
  <2>2. Append(t, e) = t \o <<e>>
    BY AppendIsConcat
  <2>3. Append(s \o t, e) = (s \o t) \o <<e>>
    BY <1>1, AppendIsConcat
  <2>4. (s \o t) \o <<e>> = s \o (t \o <<e>>)
    BY <2>1, ConcatAssociative
  <2> QED
    BY <2>2, <2>3, <2>4
<1>3. /\ Append(s \o t, e) \in Seq(Nat) /\ Len(Append(s \o t, e)) = Len(s \o t) + 1
      /\ Append(s \o t, e)[Len(s \o t) + 1] = e /\ Len(s \o t) \in Nat
  BY <1>1, AppendProperties, LenProperties
<1>4. Len(s \o t) + 1 \in 1 .. Len(Append(s \o t, e))
  BY <1>3
<1> QED
  BY <1>2, <1>3, <1>4

LEMMA WayTypes ==
    ASSUME PathTypes, NEW w \in WatchIds
    PROVE  /\ heard[w] \in Seq(Nat) /\ reply[w] \in Seq(Nat) /\ unsent[w] \in Seq(Nat)
           /\ reports[w] \in Nat /\ Way(w) \in Seq(Nat)
<1>1. heard[w] \in Seq(Nat) /\ reply[w] \in Seq(Nat) /\ unsent[w] \in Seq(Nat) /\ reports[w] \in Nat
  BY DEF PathTypes
<1> QED
  BY <1>1, ConcatProperties DEF Way

LEMMA PathsStart == ASSUME Paths!InitWatches PROVE PathInv
  BY EmptySeq DEF Paths!InitWatches, Paths!Nothing, PathInv, PathTypes, WatchInv, WatchState,
                  OnItsWay, Told, Listens

\* A step that leaves a watch as it is.
Unmoved(w) ==
    /\ reports'[w] = reports[w] /\ unsent'[w] = unsent[w] /\ reply'[w] = reply[w]
    /\ heard'[w] = heard[w] /\ asked'[w] = asked[w] /\ listener'[w] = listener[w]
    /\ polling' = polling /\ (worker' => worker)
    /\ (w \in running' => w \in running) /\ (w \in late <=> w \in late')
    /\ (w \in registered <=> w \in registered')

LEMMA UnmovedKept == ASSUME NEW w, WatchInv(w), Unmoved(w) PROVE WatchInv(w)'
<1>1. Way(w)' = Way(w)
  BY DEF Unmoved, Way
<1>2. WatchState(w)'
  BY DEF WatchInv, WatchState, Unmoved, Listens
<1>3. OnItsWay(w)'
  BY <1>1 DEF WatchInv, OnItsWay, Unmoved, Listens
<1>4. Told(w)'
  BY DEF WatchInv, Told, Unmoved, Listens
<1> QED
  BY <1>2, <1>3, <1>4 DEF WatchInv

\* A step of one watch.
LEMMA OneWatch ==
    ASSUME PathInv, NEW w \in WatchIds, PathTypes', WatchInv(w)', \A v \in WatchIds \ {w} : Unmoved(v)
    PROVE  PathInv'
<1>1. ASSUME NEW v \in WatchIds PROVE WatchInv(v)'
  <2>1. CASE v = w
    BY <2>1
  <2>2. CASE v # w
    BY <2>2, UnmovedKept DEF PathInv
  <2> QED
    BY <2>1, <2>2
<1> QED
  BY <1>1 DEF PathInv

LEMMA WatchStep == ASSUME PathInv, NEW w \in WatchIds, Paths!Watch(w) PROVE PathInv'
<1>1. PathTypes /\ WatchInv(w)
  BY DEF PathInv
<1>2. /\ reports' = reports /\ unsent' = unsent /\ reply' = reply /\ heard' = heard
      /\ listener[w] = "none" /\ listener'[w] = "calling" /\ asked'[w] = "asked" /\ w \in registered'
      /\ (~polling => w \in late') /\ polling' = polling /\ running' = running
  BY <1>1 DEF Paths!Watch, PathTypes
<1>3. \A v \in WatchIds \ {w} : Unmoved(v)
  BY <1>1 DEF Paths!Watch, Unmoved, PathTypes
<1>4. PathTypes'
  BY <1>1 DEF Paths!Watch, PathTypes
<1>5. /\ Way(w)' = <<>> /\ reports'[w] = 0 /\ Len(<<>>) = 0 /\ heard'[w] = <<>>
      /\ w \notin running
  BY <1>1, <1>2, EmptySeq, ConcatEmptySeq DEF WatchInv, WatchState, Way
<1>6. WatchInv(w)'
  <2>1. WatchState(w)'
    BY <1>2, <1>5 DEF WatchState, Listens
  <2>2. OnItsWay(w)'
    BY <1>5 DEF OnItsWay, LastOf
  <2>3. Told(w)'
    BY <1>2 DEF Told
  <2> QED
    BY <2>1, <2>2, <2>3 DEF WatchInv
<1> QED
  BY <1>3, <1>4, <1>6, OneWatch

\* A call that is answered, refused or given up, and a subscription that ends.
LEMMA ListeningStep ==
    ASSUME PathInv, NEW w \in WatchIds,
           \/ Paths!Resolved(w) \/ Paths!WatchFails(w) \/ Paths!NotSubscribed(w)
           \/ Paths!Unsubscribe(w)
    PROVE  PathInv'
<1>1. PathTypes /\ WatchInv(w)
  BY DEF PathInv
<1>2. /\ reports' = reports /\ unsent' = unsent /\ reply' = reply /\ polling' = polling
      /\ worker' = worker /\ asked' = asked /\ late' = late /\ listener[w] # "none"
  BY DEF Paths!Resolved, Paths!WatchFails, Paths!NotSubscribed, Paths!Unsubscribe
<1>3. PathTypes'
  <2>1. listener' \in [WatchIds -> {"none", "calling", "reading", "left"}]
    BY <1>1 DEF Paths!Resolved, Paths!WatchFails, Paths!NotSubscribed, Paths!Unsubscribe, Paths!Leave, PathTypes
  <2>2. heard' \in [WatchIds -> Seq(Nat)]
    BY <1>1, EmptySeq, ZenonT(40)
       DEF Paths!Resolved, Paths!WatchFails, Paths!NotSubscribed, Paths!Unsubscribe, PathTypes
  <2> QED
    BY <1>1, <1>2, <2>1, <2>2 DEF PathTypes
<1>4. \A v \in WatchIds \ {w} : Unmoved(v)
  BY <1>1 DEF Paths!Resolved, Paths!WatchFails, Paths!NotSubscribed, Paths!Unsubscribe, Paths!Leave,
              Unmoved, PathTypes
<1>5. CASE Paths!Resolved(w)
  <2>1. heard' = heard /\ listener'[w] = "reading" /\ listener[w] = "calling" /\ w \in registered' /\ running' = running
    BY <1>1, <1>5 DEF Paths!Resolved, PathTypes
  <2>2. WatchState(w)'
    BY <1>1, <1>2, <2>1 DEF WatchInv, WatchState, Listens
  <2>3. OnItsWay(w)' /\ Told(w)'
    BY <1>1, <1>2, <2>1 DEF WatchInv, OnItsWay, Told, Way, Listens
  <2> QED
    BY <1>3, <1>4, <2>2, <2>3, OneWatch DEF WatchInv
<1>6. CASE ~Paths!Resolved(w)
  <2>1. listener'[w] = "left" /\ (w \in running' => w \in running)
    BY <1>1, <1>6 DEF Paths!WatchFails, Paths!NotSubscribed, Paths!Unsubscribe, Paths!Leave, PathTypes
  <2>2. WatchInv(w)'
    BY <1>1, <1>2, <2>1 DEF WatchInv, WatchState, OnItsWay, Told, Listens
  <2> QED
    BY <1>3, <1>4, <2>2, OneWatch
<1> QED
  BY <1>5, <1>6

\* The next report of the queue; after the broken poll's mark nothing is read.
LEMMA ReadStep == ASSUME PathInv, NEW w \in WatchIds, Paths!Read(w) PROVE PathInv'
<1>1. PathTypes /\ WatchInv(w) /\ Way(w) \in Seq(Nat) /\ heard[w] \in Seq(Nat)
      /\ reply[w] \in Seq(Nat) /\ unsent[w] \in Seq(Nat) /\ reports[w] \in Nat
  BY WayTypes DEF PathInv
<1>2. /\ reports' = reports /\ unsent' = unsent /\ reply' = reply /\ polling' = polling
      /\ worker' = worker /\ asked' = asked /\ late' = late /\ listener[w] = "reading"
      /\ heard[w] # <<>> /\ heard'[w] = Tail(heard[w]) /\ Tail(heard[w]) \in Seq(Nat)
  BY <1>1, HeadTailProperties DEF Paths!Read, PathTypes
<1>3. PathTypes'
  <2>1. listener' \in [WatchIds -> {"none", "calling", "reading", "left"}]
    BY <1>1 DEF Paths!Read, Paths!Leave, PathTypes
  <2>2. heard' \in [WatchIds -> Seq(Nat)]
    BY <1>1, <1>2 DEF Paths!Read, PathTypes
  <2> QED
    BY <1>1, <1>2, <2>1, <2>2 DEF PathTypes
<1>4. \A v \in WatchIds \ {w} : Unmoved(v)
  BY <1>1 DEF Paths!Read, Paths!Leave, Unmoved, PathTypes
<1>5. CASE Head(heard[w]) = Paths!Broken
  <2>1. listener'[w] = "left" /\ (w \in running' => w \in running)
    BY <1>1, <1>5 DEF Paths!Read, Paths!Leave, PathTypes
  <2>2. WatchInv(w)'
    BY <1>1, <1>2, <2>1 DEF WatchInv, WatchState, OnItsWay, Told, Listens
  <2> QED
    BY <1>3, <1>4, <2>2, OneWatch
<1>6. CASE Head(heard[w]) # Paths!Broken
  <2>1. listener' = listener /\ registered' = registered /\ running' = running
    BY <1>6 DEF Paths!Read
  <2>2. WatchState(w)'
    BY <1>1, <1>2, <2>1 DEF WatchInv, WatchState, Listens
  <2>3. reply[w] \o unsent[w] \in Seq(Nat)
    BY <1>1, ConcatProperties
  <2>4. Way(w)' = Tail(Way(w)) /\ Way(w) # <<>>
    BY <1>1, <1>2, <2>3, ConcatTail DEF Way
  <2>5. OnItsWay(w)'
    BY <1>1, <1>2, <2>1, <2>4, LastTail DEF WatchInv, OnItsWay, Listens
  <2>6. Told(w)'
    <3> SUFFICES ASSUME ~polling, Listens(w), w \notin late
                 PROVE  \E i \in 1 .. Len(Tail(heard[w])) : Tail(heard[w])[i] = Paths!Broken
      BY <1>2, <2>1 DEF Told, Listens, Paths!Broken
    <3>1. PICK i \in 1 .. Len(heard[w]) : heard[w][i] = Paths!Broken
      BY <1>1 DEF WatchInv, Told
    <3>2. Head(heard[w]) = heard[w][1] /\ Len(heard[w]) \in Nat
      BY <1>1, <1>2, LenProperties
    <3>3. Len(Tail(heard[w])) = Len(heard[w]) - 1 /\ \A j \in 1 .. Len(Tail(heard[w])) : Tail(heard[w])[j] = heard[w][j + 1]
      BY <1>1, <1>2, HeadTailProperties
    <3>4. i - 1 \in 1 .. Len(Tail(heard[w])) /\ (i - 1) + 1 = i
      BY <1>6, <3>1, <3>2, <3>3
    <3> QED
      BY <3>1, <3>3, <3>4
  <2> QED
    BY <1>3, <1>4, <2>2, <2>5, <2>6, OneWatch DEF WatchInv
<1> QED
  BY <1>5, <1>6

\* The worker starts a watch, or refuses it, and reports.
LEMMA WatchesStep == ASSUME PathInv, NEW w \in WatchIds, Paths!WorkerWatches(w) PROVE PathInv'
<1>1. PathTypes /\ WatchInv(w)
  BY DEF PathInv
<1>2. /\ reports' = reports /\ unsent' = unsent /\ reply' = reply /\ polling' = polling
      /\ worker' = worker /\ heard' = heard /\ late' = late /\ listener' = listener
      /\ registered' = registered /\ asked[w] = "asked" /\ asked'[w] \in {"replied", "refused"}
  BY <1>1 DEF Paths!WorkerWatches, PathTypes
<1>3. PathTypes'
  BY <1>1 DEF Paths!WorkerWatches, PathTypes
<1>4. \A v \in WatchIds \ {w} : Unmoved(v)
  BY <1>1 DEF Paths!WorkerWatches, Unmoved, PathTypes
<1>5. WatchState(w)'
  BY <1>1, <1>2 DEF WatchInv, WatchState, Listens
<1>6. OnItsWay(w)' /\ Told(w)'
  BY <1>1, <1>2 DEF WatchInv, OnItsWay, Told, Way, Listens
<1> QED
  BY <1>3, <1>4, <1>5, <1>6, OneWatch DEF WatchInv

LEMMA ForwardStep == ASSUME PathInv, NEW w \in WatchIds, Paths!Forward(w) PROVE PathInv'
<1>1. PathTypes /\ WatchInv(w) /\ Way(w) \in Seq(Nat) /\ heard[w] \in Seq(Nat)
      /\ reply[w] \in Seq(Nat) /\ unsent[w] \in Seq(Nat) /\ reports[w] \in Nat
  BY WayTypes DEF PathInv
<1>2. /\ asked' = asked /\ heard' = heard /\ reply' = reply /\ polling' = polling
      /\ worker' = worker /\ listener' = listener /\ late' = late /\ registered' = registered
      /\ reports'[w] = reports[w] + 1 /\ unsent'[w] = Append(unsent[w], reports[w] + 1)
      /\ w \in running /\ running' = running /\ reports[w] + 1 \in Nat
      /\ Append(unsent[w], reports[w] + 1) \in Seq(Nat)
  BY <1>1, AppendProperties DEF Paths!Forward, Paths!Report, PathTypes
<1>3. PathTypes'
  <2>1. reports' \in [WatchIds -> Nat] /\ unsent' \in [WatchIds -> Seq(Nat)]
    BY <1>1, <1>2 DEF Paths!Forward, Paths!Report, PathTypes
  <2> QED
    BY <1>1, <1>2, <2>1 DEF PathTypes
<1>4. \A v \in WatchIds \ {w} : Unmoved(v)
  BY <1>1 DEF Paths!Forward, Unmoved, PathTypes
<1>5. WatchState(w)'
  BY <1>1, <1>2 DEF WatchInv, WatchState, Listens
<1>6. Way(w)' = Append(Way(w), reports[w] + 1)
  <2>1. heard[w] \o (reply[w] \o Append(unsent[w], reports[w] + 1)) = Append(Way(w), reports[w] + 1)
    <3>1. /\ heard[w] \in Seq(Nat) /\ reply[w] \in Seq(Nat) /\ unsent[w] \in Seq(Nat)
          /\ reports[w] + 1 \in Nat
      BY <1>1, <1>2
    <3> QED
      BY <3>1, AppendLast DEF Way
  <2> QED
    BY <1>2, <2>1 DEF Way
<1>7. Len(Append(Way(w), reports[w] + 1)) = Len(Way(w)) + 1 /\ Len(Way(w)) \in Nat
  BY <1>1, <1>2, AppendProperties, LenProperties
<1>8. OnItsWay(w)'
  BY <1>1, <1>2, <1>6, <1>7, LastAppend DEF WatchInv, OnItsWay, Listens
<1>9. Told(w)'
  BY <1>1, <1>2 DEF WatchInv, Told, Listens
<1> QED
  BY <1>3, <1>4, <1>5, <1>8, <1>9, OneWatch DEF WatchInv

\* The poll takes the reports from the worker, and hands them on.
LEMMA PollStep == ASSUME PathInv, Paths!Events \/ Paths!Pump PROVE PathInv'
<1>1. PathTypes /\ \A w \in WatchIds : WatchInv(w)
  BY DEF PathInv
<1>2. /\ reports' = reports /\ polling' = polling /\ worker' = worker /\ asked' = asked /\ polling
      /\ listener' = listener /\ late' = late /\ registered' = registered /\ running' = running
  BY DEF Paths!Events, Paths!Pump
<1>3. ASSUME NEW w \in WatchIds
      PROVE  /\ Listens(w) => Way(w)' = Way(w)
             /\ heard'[w] \in Seq(Nat) /\ reply'[w] \in Seq(Nat) /\ unsent'[w] \in Seq(Nat)
             /\ heard[w] = <<>> /\ reply[w] = <<>> /\ unsent[w] = <<>> =>
                  heard'[w] = <<>> /\ reply'[w] = <<>> /\ unsent'[w] = <<>>
  <2>1. heard[w] \in Seq(Nat) /\ reply[w] \in Seq(Nat) /\ unsent[w] \in Seq(Nat) /\ <<>> \in Seq(Nat)
    BY <1>1, EmptySeq DEF PathTypes
  <2>2. CASE Paths!Events
    <3>1. heard'[w] = heard[w] /\ reply[w] = <<>> /\ reply'[w] = unsent[w] /\ unsent'[w] = <<>>
      BY <2>2 DEF Paths!Events, Paths!Nothing
    <3>2. Way(w)' = Way(w)
      BY <2>1, <3>1, ConcatEmptySeq DEF Way
    <3> QED
      BY <2>1, <3>1, <3>2
  <2>3. CASE Paths!Pump
    <3>1. /\ reply'[w] = <<>> /\ unsent'[w] = unsent[w]
          /\ heard'[w] = IF w \in registered THEN heard[w] \o reply[w] ELSE heard[w]
      BY <2>3 DEF Paths!Pump, Paths!Nothing, Paths!Queued
    <3>2. heard[w] \o reply[w] \in Seq(Nat)
      BY <2>1, ConcatProperties
    <3>3. (heard[w] \o reply[w]) \o unsent[w] = heard[w] \o (reply[w] \o unsent[w])
      BY <2>1, ConcatThree
    <3>4. <<>> \o unsent[w] = unsent[w] /\ <<>> \o <<>> = <<>>
      BY <2>1, ConcatEmptySeq
    <3>5. Listens(w) => w \in registered
      BY <1>1 DEF WatchInv, WatchState
    <3>6. Listens(w) => Way(w)' = Way(w)
      BY <3>1, <3>3, <3>4, <3>5 DEF Way
    <3> QED
      BY <2>1, <3>1, <3>2, <3>4, <3>6
  <2> QED
    BY <2>2, <2>3
<1>4. heard' \in [WatchIds -> Seq(Nat)] /\ reply' \in [WatchIds -> Seq(Nat)] /\ unsent' \in [WatchIds -> Seq(Nat)]
  BY <1>1, <1>3 DEF Paths!Events, Paths!Pump, Paths!Nothing, PathTypes
<1>5. PathTypes'
  BY <1>1, <1>2, <1>4 DEF PathTypes
<1>6. ASSUME NEW w \in WatchIds PROVE WatchInv(w)'
  <2>1. WatchState(w)'
    BY <1>1, <1>2, <1>3 DEF WatchInv, WatchState, Listens
  <2>2. OnItsWay(w)'
    BY <1>1, <1>2, <1>3 DEF WatchInv, OnItsWay, Listens
  <2>3. Told(w)'
    BY <1>2 DEF Told
  <2> QED
    BY <2>1, <2>2, <2>3 DEF WatchInv
<1> QED
  BY <1>5, <1>6 DEF PathInv

LEMMA LostStep == ASSUME PathInv, Paths!WorkerLost PROVE PathInv'
<1>1. PathTypes'
  BY DEF PathInv, PathTypes, Paths!WorkerLost
<1>2. \A w \in WatchIds : Unmoved(w)
  BY DEF Paths!WorkerLost, Unmoved
<1> QED
  BY <1>1, <1>2, UnmovedKept DEF PathInv

\* The poll ends, and every queue that is known is told.
LEMMA PumpEndsStep == ASSUME PathInv, Paths!PumpEnds PROVE PathInv'
<1>1. PathTypes /\ \A w \in WatchIds : WatchInv(w)
  BY DEF PathInv
<1>2. PICK k \in [WatchIds -> 0 .. MaxReports] :
        /\ \A w \in WatchIds : k[w] <= Len(reply[w])
        /\ heard' = [w \in WatchIds |-> Paths!Queued(w, Append(SubSeq(reply[w], 1, k[w]), Paths!Broken))]
  BY DEF Paths!PumpEnds
<1>3. /\ reports' = reports /\ polling' = FALSE /\ worker' = worker /\ asked' = asked
      /\ listener' = listener /\ late' = late /\ registered' = registered /\ running' = running
      /\ unsent' = unsent /\ reply' = [w \in WatchIds |-> <<>>]
  BY DEF Paths!PumpEnds, Paths!Nothing
<1>4. ASSUME NEW w \in WatchIds
      PROVE  /\ heard'[w] \in Seq(Nat)
             /\ w \in registered => \E i \in 1 .. Len(heard'[w]) : heard'[w][i] = Paths!Broken
             /\ w \notin registered => heard'[w] = heard[w]
  <2> DEFINE head == SubSeq(reply[w], 1, k[w])
             news == Append(head, Paths!Broken)
  <2>1. heard[w] \in Seq(Nat) /\ reply[w] \in Seq(Nat) /\ Paths!Broken \in Nat /\ k[w] \in Int
        /\ k[w] <= Len(reply[w]) /\ Len(reply[w]) \in Nat /\ heard'[w] = Paths!Queued(w, news)
    BY <1>1, <1>2, LenProperties DEF PathTypes, Paths!Broken
  <2>2. \A i \in 1 .. k[w] : reply[w][i] \in Nat
    <3>1. \A i \in 1 .. k[w] : i \in 1 .. Len(reply[w])
      BY <2>1
    <3> QED
      BY <2>1, <3>1, ElementOfSeq
  <2>3. head \in Seq(Nat)
    BY <2>1, <2>2, SubSeqProperties
  <2> HIDE DEF head
  <2>4. heard[w] \o news \in Seq(Nat) /\ \E i \in 1 .. Len(heard[w] \o news) : (heard[w] \o news)[i] = Paths!Broken
    BY <2>1, <2>3, EndsWith, ZenonT(40)
  <2> HIDE DEF news
  <2>5. heard'[w] = IF w \in registered THEN heard[w] \o news ELSE heard[w]
    BY <2>1 DEF Paths!Queued
  <2> QED
    BY <2>1, <2>4, <2>5
<1>5. PathTypes'
  <2>1. heard' \in [WatchIds -> Seq(Nat)] /\ reply' \in [WatchIds -> Seq(Nat)]
    BY <1>2, <1>3, <1>4, EmptySeq
  <2> QED
    BY <1>1, <1>3, <2>1 DEF PathTypes
<1>6. ASSUME NEW w \in WatchIds PROVE WatchInv(w)'
  <2>1. WatchState(w)'
    <3> USE DEF WatchState
    <3>1. WatchState(w) /\ (listener[w] = "none" => w \notin registered)
      BY <1>1 DEF WatchInv
    <3> QED
      BY <1>3, <1>4, <3>1 DEF Listens
  <2>2. OnItsWay(w)'
    BY <1>3 DEF OnItsWay
  <2>3. Told(w)'
    BY <1>1, <1>3, <1>4 DEF WatchInv, WatchState, Told, Listens, Paths!Broken
  <2> QED
    BY <2>1, <2>2, <2>3 DEF WatchInv
<1> QED
  BY <1>5, <1>6 DEF PathInv

LEMMA PathStep == ASSUME PathInv, Paths!NextWatches PROVE PathInv'
  BY WatchStep, ListeningStep, ReadStep, WatchesStep, ForwardStep, PollStep, LostStep, PumpEndsStep
  DEF Paths!NextWatches

LEMMA PathHeard == ASSUME PathInv PROVE ReportsAreHeard
<1>1. ASSUME NEW w \in WatchIds PROVE Way(w) = (heard[w] \o reply[w]) \o unsent[w]
  BY <1>1, WayTypes, ConcatThree DEF PathInv, Way
<1>2. Paths!NoReportMissed
  BY <1>1 DEF PathInv, WatchInv, OnItsWay, Listens, LastOf, Paths!NoReportMissed
<1>3. Paths!EndOfPollIsTold
  BY DEF PathInv, WatchInv, Told, Listens, Paths!EndOfPollIsTold
<1> QED
  BY <1>2, <1>3 DEF ReportsAreHeard

\* ReportsAreHeard: however the replies to watch.path, the polls, a lost worker and
\* the ends of subscriptions fall, a subscription that reads gets every report in order,
\* and is told when the poll has ended (workspace_host.py:356-397).
THEOREM ReportsHeard == PartsSpec => []ReportsAreHeard
<1>1. PartsInit => PathInv
  BY PathsStart DEF PartsInit
<1>2. PathInv /\ [PartsNext]_allVars => PathInv'
  <2>1. PathInv /\ UNCHANGED pathVars => PathInv'
    <3> SUFFICES ASSUME PathInv, UNCHANGED pathVars PROVE PathInv'
      OBVIOUS
    <3>1. PathTypes' /\ \A w \in WatchIds : Unmoved(w)
      BY DEF pathVars, PathInv, PathTypes, Unmoved
    <3> QED
      BY <3>1, UnmovedKept DEF PathInv
  <2> QED
    BY <2>1, OnePartSteps, PathStep
<1>3. PathInv => ReportsAreHeard
  BY PathHeard
<1> QED
  BY <1>1, <1>2, <1>3, PTL DEF PartsSpec
-----------------------------------------------------------------------------
(* The ledger and who reads it while it grows. The records are numbered by *)
(* the session's counters, which say what is in the file whenever the      *)
(* engine may write; a reader holds the beginning of the file.             *)

Record ==
    [kind : {"message", "window", "torn"}, index : Nat, window : Int, refs : SUBSET Nat,
     size : {1, PageSize}]

FileTypes ==
    /\ lines \in Seq(Record) /\ page \in Seq(Record)
    /\ whole \in BOOLEAN /\ logged \in Nat /\ window \in Nat
    /\ writer \in {"open", "writing", "broken", "closed"}
    /\ asks \in {"rests", "reads", "done"} /\ floorLine \in Nat

\* The counters are those of the first n lines.
Counted(n) ==
    /\ logged = File!Earlier(lines, "message", n + 1)
    /\ window + 1 = File!Earlier(lines, "window", n + 1)

WriterInv ==
    /\ File!Loads(lines)
    /\ ~whole => Len(lines) # 0
    /\ writer = "open" => whole /\ Counted(Len(lines))
    /\ writer = "writing" => ~whole /\ Counted(Len(lines) - 1)

ReaderInv ==
    /\ Len(page) <= File!Readable /\ \A i \in 1 .. Len(page) : page[i] = lines[i]
    /\ floorLine <= File!Readable
    /\ asks = "done" => floorLine <= Len(page)

LedgerInv == FileTypes /\ WriterInv /\ ReaderInv

\* Ledger counts with an instance of Cardinality.
LEMMA LedgerCardinality == \A S : File!Cardinality(S) = Cardinality(S)
  BY DEF File!Cardinality, Cardinality

LEMMA EarlierNat ==
    \A records, kind : \A n \in Nat : File!Earlier(records, kind, n) \in Nat
<1> SUFFICES ASSUME NEW records, NEW kind, NEW n \in Nat PROVE File!Earlier(records, kind, n) \in Nat
  OBVIOUS
<1>1. IsFiniteSet(1 .. n - 1)
  BY FS_Interval
<1>2. IsFiniteSet({i \in 1 .. n - 1 : records[i].kind = kind})
  BY <1>1, FS_Subset
<1> QED
  BY <1>2, FS_CardinalityType, LedgerCardinality DEF File!Earlier

\* Ledgers that agree on their first lines count the same there.
LEMMA EarlierSame ==
    ASSUME NEW records, NEW others, NEW kind, NEW n \in Nat,
           \A i \in 1 .. n - 1 : records[i] = others[i]
    PROVE  File!Earlier(records, kind, n) = File!Earlier(others, kind, n)
<1>1. {i \in 1 .. n - 1 : records[i].kind = kind} = {i \in 1 .. n - 1 : others[i].kind = kind}
  OBVIOUS
<1> QED
  BY <1>1, LedgerCardinality DEF File!Earlier

LEMMA EarlierNext ==
    ASSUME NEW records, NEW kind, NEW n \in Nat \ {0}
    PROVE  File!Earlier(records, kind, n + 1) =
             File!Earlier(records, kind, n) + (IF records[n].kind = kind THEN 1 ELSE 0)
<1> DEFINE S == {i \in 1 .. n - 1 : records[i].kind = kind}
           T == {i \in 1 .. (n + 1) - 1 : records[i].kind = kind}
<1>1. IsFiniteSet(S) /\ n \notin S
  <2>1. IsFiniteSet(1 .. n - 1)
    BY FS_Interval
  <2>2. IsFiniteSet(S)
    BY <2>1, FS_Subset
  <2> QED
    BY <2>2
<1>2. T = IF records[n].kind = kind THEN S \cup {n} ELSE S
  <2>1. \A i : i \in 1 .. (n + 1) - 1 <=> i \in 1 .. n - 1 \/ i = n
    OBVIOUS
  <2> QED
    BY <2>1
<1>3. File!Earlier(records, kind, n + 1) = Cardinality(T) /\ File!Earlier(records, kind, n) = Cardinality(S)
  BY LedgerCardinality DEF File!Earlier
<1> HIDE DEF S, T
<1>4. Cardinality(S) \in Nat /\ Cardinality(S \cup {n}) = Cardinality(S) + 1
  BY <1>1, FS_CardinalityType, FS_AddElement
<1> QED
  BY <1>2, <1>3, <1>4

\* The first lines of a ledger that loads load, and so does one line more that is
\* numbered as History._load wants it.
LEMMA LoadsBefore ==
    ASSUME NEW records, NEW others, Len(records) \in Nat, Len(others) \in Nat,
           Len(others) <= Len(records), \A i \in 1 .. Len(others) : others[i] = records[i],
           File!Loads(records)
    PROVE  File!Loads(others)
<1> SUFFICES ASSUME NEW i \in 1 .. Len(others)
             PROVE  /\ others[i].kind # "torn"
                    /\ others[i].index = File!Earlier(others, others[i].kind, i)
                    /\ others[i].kind = "message" => others[i].window < File!Earlier(others, "window", i)
                    /\ \A m \in others[i].refs : m < File!Earlier(others, "message", i)
  BY DEF File!Loads
<1>1. i \in 1 .. Len(records) /\ others[i] = records[i] /\ i \in Nat
  OBVIOUS
<1>2. \A j \in 1 .. i - 1 : records[j] = others[j]
  OBVIOUS
<1>3. /\ File!Earlier(records, others[i].kind, i) = File!Earlier(others, others[i].kind, i)
      /\ File!Earlier(records, "window", i) = File!Earlier(others, "window", i)
      /\ File!Earlier(records, "message", i) = File!Earlier(others, "message", i)
  BY <1>1, <1>2, EarlierSame
<1>4. /\ records[i].kind # "torn"
      /\ records[i].index = File!Earlier(records, records[i].kind, i)
      /\ records[i].kind = "message" => records[i].window < File!Earlier(records, "window", i)
      /\ \A m \in records[i].refs : m < File!Earlier(records, "message", i)
  BY <1>1 DEF File!Loads
<1> QED
  BY <1>1, <1>3, <1>4

LEMMA FileStarts == ASSUME File!InitLedger PROVE LedgerInv
<1> DEFINE r == File!Window(0, {})
<1>1. r = [kind |-> "window", index |-> 0, window |-> 0, refs |-> {}, size |-> 1] /\ r \in Record
  BY DEF File!Window, Record
<1> HIDE DEF r
<1>2. lines = <<r>> /\ Len(lines) = 1 /\ lines[1] = r /\ lines \in Seq(Record)
  BY <1>1 DEF File!InitLedger, r
<1>3. FileTypes
  BY <1>2, EmptySeq DEF File!InitLedger, FileTypes
<1>4. \A kind : File!Earlier(lines, kind, 1) = 0
  <2>1. \A kind : {i \in 1 .. 1 - 1 : lines[i].kind = kind} = {}
    OBVIOUS
  <2> QED
    BY <2>1, FS_EmptySet, LedgerCardinality DEF File!Earlier
<1>5. /\ File!Earlier(lines, "window", 1 + 1) = File!Earlier(lines, "window", 1) + 1
      /\ File!Earlier(lines, "message", 1 + 1) = File!Earlier(lines, "message", 1) + 0
  BY <1>1, <1>2, EarlierNext
<1>6. File!Loads(lines)
  BY <1>1, <1>2, <1>4 DEF File!Loads
<1>7. WriterInv
  BY <1>2, <1>4, <1>5, <1>6 DEF File!InitLedger, WriterInv, Counted
<1>8. ReaderInv
  <2>1. page = <<>> /\ Len(page) = 0 /\ floorLine = 0 /\ File!Readable = 1 /\ asks = "rests"
    BY <1>2, EmptySeq DEF File!InitLedger, File!Readable
  <2> QED
    BY <2>1 DEF ReaderInv
<1> QED
  BY <1>3, <1>7, <1>8 DEF LedgerInv

LEMMA LedgerLengths ==
    ASSUME LedgerInv
    PROVE  /\ Len(lines) \in Nat /\ Len(page) \in Nat /\ File!Readable \in Nat
           /\ File!Readable <= Len(lines)
           /\ File!Readable = IF whole THEN Len(lines) ELSE Len(lines) - 1
<1>1. Len(lines) \in Nat /\ Len(page) \in Nat
  BY LenProperties DEF LedgerInv, FileTypes
<1>2. ~whole => Len(lines) # 0
  BY DEF LedgerInv, WriterInv
<1> QED
  BY <1>1, <1>2 DEF File!Readable

LEMMA LoadsAppend ==
    ASSUME NEW records \in Seq(Record), NEW entry \in Record, File!Loads(records),
           entry.kind # "torn",
           entry.index = File!Earlier(records, entry.kind, Len(records) + 1),
           entry.kind = "message" => entry.window < File!Earlier(records, "window", Len(records) + 1),
           \A m \in entry.refs : m < File!Earlier(records, "message", Len(records) + 1)
    PROVE  File!Loads(Append(records, entry))
<1> DEFINE more == Append(records, entry)
<1>1. /\ Len(more) = Len(records) + 1 /\ Len(records) \in Nat
      /\ (\A i \in 1 .. Len(records) : more[i] = records[i]) /\ more[Len(records) + 1] = entry
  BY AppendProperties, LenProperties
<1> HIDE DEF more
<1>2. ASSUME NEW kind, NEW i \in 1 .. Len(records) + 1
      PROVE  File!Earlier(more, kind, i) = File!Earlier(records, kind, i)
  <2>1. i \in Nat /\ \A j \in 1 .. i - 1 : more[j] = records[j]
    BY <1>1
  <2> QED
    BY <2>1, EarlierSame
<1> SUFFICES ASSUME NEW i \in 1 .. Len(more)
             PROVE  /\ more[i].kind # "torn"
                    /\ more[i].index = File!Earlier(more, more[i].kind, i)
                    /\ more[i].kind = "message" => more[i].window < File!Earlier(more, "window", i)
                    /\ \A m \in more[i].refs : m < File!Earlier(more, "message", i)
  BY DEF File!Loads, more
<1>3. i \in 1 .. Len(records) + 1
  BY <1>1
<1>4. CASE i = Len(records) + 1
  BY <1>1, <1>2, <1>3, <1>4
<1>5. CASE i # Len(records) + 1
  <2>1. i \in 1 .. Len(records) /\ more[i] = records[i]
    BY <1>1, <1>3, <1>5
  <2>2. /\ records[i].kind # "torn"
        /\ records[i].index = File!Earlier(records, records[i].kind, i)
        /\ records[i].kind = "message" => records[i].window < File!Earlier(records, "window", i)
        /\ \A m \in records[i].refs : m < File!Earlier(records, "message", i)
    BY <2>1 DEF File!Loads
  <2> QED
    BY <1>2, <1>3, <2>1, <2>2
<1> QED
  BY <1>4, <1>5

\* A line that follows the counters.
LEMMA WriteStep ==
    ASSUME LedgerInv, NEW entry \in Record, File!Write(entry),
           \/ entry.kind = "message" /\ entry.index = logged /\ entry.window <= window
                /\ entry.refs = {}
           \/ entry.kind = "window" /\ entry.index = window + 1
                /\ \A m \in entry.refs : m < logged
    PROVE  LedgerInv'
<1>1. FileTypes /\ WriterInv /\ ReaderInv /\ Len(lines) \in Nat /\ Len(page) \in Nat
      /\ File!Readable \in Nat /\ File!Readable <= Len(lines)
  BY LedgerLengths DEF LedgerInv
<1>2. /\ whole /\ Counted(Len(lines)) /\ lines' = Append(lines, entry) /\ whole' = FALSE
      /\ writer' = "writing" /\ logged' = logged /\ window' = window
      /\ page' = page /\ asks' = asks /\ floorLine' = floorLine
  BY <1>1 DEF File!Write, File!Writable, WriterInv, File!readVars
<1>3. /\ lines' \in Seq(Record) /\ Len(lines') = Len(lines) + 1
      /\ \A i \in 1 .. Len(lines) : lines'[i] = lines[i]
  BY <1>1, <1>2, AppendProperties DEF FileTypes
<1>4. FileTypes'
  BY <1>1, <1>2, <1>3 DEF FileTypes
<1>5. File!Loads(lines')
  <2>1. /\ logged = File!Earlier(lines, "message", Len(lines) + 1)
        /\ window + 1 = File!Earlier(lines, "window", Len(lines) + 1)
    BY <1>2 DEF Counted
  <2>2. lines \in Seq(Record) /\ logged \in Nat /\ window \in Nat /\ File!Loads(lines)
        /\ entry.window \in Int
    BY <1>1 DEF FileTypes, WriterInv, Record
  <2>3. /\ entry.kind # "torn"
        /\ entry.index = File!Earlier(lines, entry.kind, Len(lines) + 1)
        /\ entry.kind = "message" => entry.window < File!Earlier(lines, "window", Len(lines) + 1)
        /\ \A m \in entry.refs : m < File!Earlier(lines, "message", Len(lines) + 1)
    BY <2>1, <2>2
  <2>4. File!Loads(Append(lines, entry))
    BY <2>2, <2>3, LoadsAppend
  <2> QED
    BY <1>2, <2>4
<1>6. Counted(Len(lines) - 1)'
  <2>1. ASSUME NEW kind PROVE File!Earlier(lines', kind, Len(lines) + 1) = File!Earlier(lines, kind, Len(lines) + 1)
    <3>1. PICK n \in Nat : n = Len(lines) + 1
      BY <1>1
    <3>2. {i \in 1 .. n - 1 : lines'[i].kind = kind} = {i \in 1 .. n - 1 : lines[i].kind = kind}
      BY <1>1, <1>3, <3>1
    <3> QED
      BY <3>1, <3>2, LedgerCardinality DEF File!Earlier
  <2>2. (Len(lines') - 1) + 1 = Len(lines) + 1
    BY <1>1, <1>3
  <2> QED
    BY <1>2, <2>1, <2>2 DEF Counted
<1>7. WriterInv'
  BY <1>1, <1>2, <1>3, <1>5, <1>6 DEF WriterInv
<1>8. ReaderInv'
  <2>1. File!Readable = Len(lines) /\ File!Readable' = Len(lines)
    BY <1>1, <1>2, <1>3 DEF File!Readable
  <2> QED
    BY <1>1, <1>2, <1>3, <2>1 DEF ReaderInv
<1> QED
  BY <1>4, <1>7, <1>8 DEF LedgerInv

LEMMA LogStep == ASSUME LedgerInv, File!Log PROVE LedgerInv'
<1>1. logged \in Nat /\ window \in Nat
  BY DEF LedgerInv, FileTypes
<1>2. CASE \E w \in {-1, window}, bytes \in {1, PageSize} : File!Write(File!Message(logged, w, bytes))
  <2>1. PICK w \in {-1, window}, bytes \in {1, PageSize} : File!Write(File!Message(logged, w, bytes))
    BY <1>2
  <2>2. PICK r : r = File!Message(logged, w, bytes)
    OBVIOUS
  <2>3. r \in Record /\ r.kind = "message" /\ r.index = logged /\ r.window <= window /\ r.refs = {}
    BY <1>1, <2>2 DEF File!Message, Record
  <2> QED
    BY <2>1, <2>2, <2>3, WriteStep
<1>3. CASE \E refs \in SUBSET (0 .. logged - 1) : File!Write(File!Window(window + 1, refs))
  <2>1. PICK refs \in SUBSET (0 .. logged - 1) : File!Write(File!Window(window + 1, refs))
    BY <1>3
  <2>2. PICK r : r = File!Window(window + 1, refs)
    OBVIOUS
  <2>3. r \in Record /\ r.kind = "window" /\ r.index = window + 1 /\ \A m \in r.refs : m < logged
    BY <1>1, <2>2 DEF File!Window, Record
  <2> QED
    BY <2>1, <2>2, <2>3, WriteStep
<1> QED
  BY <1>2, <1>3 DEF File!Log

LEMMA FlushStep == ASSUME LedgerInv, File!Flushed PROVE LedgerInv'
<1>1. FileTypes /\ WriterInv /\ ReaderInv /\ Len(lines) \in Nat /\ Len(page) \in Nat
      /\ File!Readable \in Nat /\ File!Readable <= Len(lines)
  BY LedgerLengths DEF LedgerInv
<1>2. /\ ~whole /\ Counted(Len(lines) - 1) /\ Len(lines) # 0 /\ lines' = lines /\ whole' = TRUE
      /\ writer' = "open" /\ page' = page /\ asks' = asks /\ floorLine' = floorLine
      /\ logged \in Nat /\ window \in Nat
  BY <1>1 DEF File!Flushed, WriterInv, File!readVars, FileTypes
<1>3. /\ lines[Len(lines)].kind = "window" => window' = window + 1 /\ logged' = logged
      /\ lines[Len(lines)].kind # "window" => logged' = logged + 1 /\ window' = window
  BY DEF File!Flushed
<1>4. lines[Len(lines)].kind \in {"message", "window"}
  <2>1. Len(lines) \in 1 .. Len(lines)
    BY <1>1, <1>2
  <2>2. lines[Len(lines)] \in Record
    BY <1>1, <2>1, ElementOfSeq DEF FileTypes
  <2>3. lines[Len(lines)].kind # "torn"
    BY <1>1, <2>1 DEF WriterInv, File!Loads
  <2> QED
    BY <2>2, <2>3 DEF Record
<1>5. Counted(Len(lines))'
  <2>1. PICK n \in Nat \ {0} : n = Len(lines)
    BY <1>1, <1>2
  <2>2. (n - 1) + 1 = n
    OBVIOUS
  <2>3. logged = File!Earlier(lines, "message", n) /\ window + 1 = File!Earlier(lines, "window", n)
    BY <1>2, <2>1, <2>2 DEF Counted
  <2>4. /\ File!Earlier(lines, "message", n + 1) = File!Earlier(lines, "message", n) + (IF lines[n].kind = "message" THEN 1 ELSE 0)
        /\ File!Earlier(lines, "window", n + 1) = File!Earlier(lines, "window", n) + (IF lines[n].kind = "window" THEN 1 ELSE 0)
    BY EarlierNext
  <2>5. logged' = File!Earlier(lines, "message", n + 1) /\ window' + 1 = File!Earlier(lines, "window", n + 1)
    BY <1>2, <1>3, <1>4, <2>1, <2>3, <2>4
  <2> QED
    BY <1>2, <2>1, <2>5 DEF Counted
<1>6. FileTypes'
  BY <1>1, <1>2, <1>3, <1>4 DEF FileTypes
<1>7. WriterInv'
  BY <1>1, <1>2, <1>5 DEF WriterInv
<1>8. ReaderInv'
  <2>1. File!Readable' = Len(lines)
    BY <1>2 DEF File!Readable
  <2> QED
    BY <1>1, <1>2, <2>1 DEF ReaderInv, FileTypes
<1> QED
  BY <1>6, <1>7, <1>8 DEF LedgerInv

\* A write that fails leaves a piece of the line, or none, and nobody writes again.
LEMMA FailedWriteStep == ASSUME LedgerInv, File!WriteFails \/ File!CloseLedger PROVE LedgerInv'
<1>1. FileTypes /\ WriterInv /\ ReaderInv /\ Len(lines) \in Nat /\ Len(page) \in Nat
      /\ File!Readable \in Nat /\ File!Readable <= Len(lines)
  BY LedgerLengths DEF LedgerInv
<1>2. /\ writer' \in {"broken", "closed"} /\ page' = page /\ asks' = asks /\ floorLine' = floorLine
      /\ logged' = logged /\ window' = window
  <2>1. CASE File!WriteFails
    BY <2>1 DEF File!WriteFails, File!readVars
  <2>2. CASE File!CloseLedger
    BY <2>2 DEF File!CloseLedger, File!readVars
  <2> QED
    BY <2>1, <2>2
<1>3. CASE lines' = lines /\ (whole' = whole \/ whole' = TRUE)
  <2>1. FileTypes' /\ WriterInv'
    BY <1>1, <1>2, <1>3 DEF FileTypes, WriterInv
  <2>2. File!Readable' >= File!Readable /\ File!Readable' \in Nat
    <3>1. File!Readable = (IF whole THEN Len(lines) ELSE Len(lines) - 1)
      BY LedgerLengths
    <3>2. File!Readable' = (IF whole' THEN Len(lines) ELSE Len(lines) - 1)
      BY <1>3 DEF File!Readable
    <3>3. CASE whole
      BY <1>1, <1>3, <3>1, <3>2, <3>3
    <3>4. CASE ~whole
      BY <1>1, <1>3, <3>1, <3>2, <3>4
    <3> QED
      BY <3>3, <3>4
  <2>3. ReaderInv'
    BY <1>1, <1>2, <1>3, <2>2 DEF ReaderInv, FileTypes
  <2> QED
    BY <2>1, <2>3 DEF LedgerInv
<1>4. CASE File!WriteFails /\ lines' = File!Front(lines) /\ whole' = TRUE
  <2>1. ~whole /\ Len(lines) # 0 /\ lines \in Seq(Record) /\ File!Loads(lines)
    BY <1>1, <1>4 DEF File!WriteFails, WriterInv, FileTypes
  <2>2. lines' = SubSeq(lines, 1, Len(lines) - 1)
    BY <1>4 DEF File!Front
  <2>3. \A i \in 1 .. Len(lines) - 1 : lines[i] \in Record
    <3>1. \A i \in 1 .. Len(lines) - 1 : i \in 1 .. Len(lines)
      BY <1>1
    <3> QED
      BY <2>1, <3>1, ElementOfSeq
  <2>4. PICK n \in Nat : n = Len(lines) - 1
    BY <1>1, <2>1
  <2>5. /\ lines' \in Seq(Record) /\ Len(lines') = n /\ \A i \in 1 .. n : lines'[i] = lines[i]
    <3>1. /\ SubSeq(lines, 1, n) \in Seq(Record)
          /\ Len(SubSeq(lines, 1, n)) = (IF 1 <= n THEN n - 1 + 1 ELSE 0)
          /\ \A i \in 1 .. n - 1 + 1 : SubSeq(lines, 1, n)[i] = lines[1 + i - 1]
      BY <2>3, <2>4, SubSeqProperties
    <3>2. lines' = SubSeq(lines, 1, n)
      BY <2>2, <2>4
    <3>3. IF 1 <= n THEN n - 1 + 1 = n ELSE n = 0
      BY <2>4
    <3>4. Len(lines') = n
      BY <3>1, <3>2, <3>3
    <3>5. \A i \in 1 .. n : i \in 1 .. n - 1 + 1 /\ 1 + i - 1 = i
      OBVIOUS
    <3> QED
      BY <3>1, <3>2, <3>4, <3>5
  <2>6. File!Loads(lines')
    <3>1. PICK more : more = lines'
      OBVIOUS
    <3>2. File!Loads(more)
      BY <1>1, <2>1, <2>4, <2>5, <3>1, LoadsBefore
    <3> QED
      BY <3>1, <3>2
  <2>7. FileTypes' /\ WriterInv'
    BY <1>1, <1>2, <1>4, <2>5, <2>6 DEF FileTypes, WriterInv
  <2>8. File!Readable' = n /\ File!Readable = n
    BY <1>4, <2>1, <2>4, <2>5 DEF File!Readable
  <2>9. ReaderInv'
    BY <1>1, <1>2, <2>5, <2>8 DEF ReaderInv
  <2> QED
    BY <2>7, <2>9 DEF LedgerInv
<1>5. CASE File!WriteFails
  <2>1. (lines' = lines /\ whole' = whole) \/ (lines' = File!Front(lines) /\ whole' = TRUE)
    BY <1>5 DEF File!WriteFails
  <2>2. CASE lines' = lines /\ whole' = whole
    BY <1>3, <2>2
  <2>3. CASE lines' = File!Front(lines) /\ whole' = TRUE
    BY <1>4, <1>5, <2>3
  <2> QED
    BY <2>1, <2>2, <2>3
<1>6. CASE File!CloseLedger
  <2>1. lines' = lines
    BY <1>6 DEF File!CloseLedger
  <2>2. whole' = whole \/ whole' = TRUE
    BY <1>6, Zenon DEF File!CloseLedger
  <2> QED
    BY <1>3, <2>1, <2>2
<1> QED
  BY <1>5, <1>6

LEMMA NewReadingStep == ASSUME LedgerInv, File!BeginReading \/ File!ReadAgain PROVE LedgerInv'
<1>1. FileTypes /\ WriterInv /\ ReaderInv /\ File!Readable \in Nat
      /\ File!Readable = (IF whole THEN Len(lines) ELSE Len(lines) - 1)
  BY LedgerLengths DEF LedgerInv
<1>2. /\ lines' = lines /\ whole' = whole /\ logged' = logged /\ window' = window /\ writer' = writer
      /\ page' = <<>> /\ Len(<<>>) = 0 /\ asks' \in {"rests", "reads"} /\ floorLine' \in {0, File!Readable}
  BY <1>1, EmptySeq DEF File!BeginReading, File!ReadAgain, File!fileVars
<1>3. FileTypes' /\ WriterInv'
  BY <1>1, <1>2, EmptySeq DEF FileTypes, WriterInv, Counted
<1>4. ReaderInv'
  BY <1>1, <1>2 DEF ReaderInv, File!Readable
<1> QED
  BY <1>3, <1>4 DEF LedgerInv

\* A set of numbers that is bounded has a last one.
LEMMA LastOne ==
    ASSUME NEW n \in Nat, NEW T \in SUBSET (0 .. n), T # {}
    PROVE  \E x \in T : \A y \in T : y <= x
<1> DEFINE R == {ss \in Nat \X Nat : ss[1] < ss[2]}
           U == {n - x : x \in T}
<1>1. IsWellFoundedOn(R, Nat)
  BY NatLessThanWellFounded DEF OpToRel
<1>2. U \subseteq Nat /\ U # {}
  <2>1. PICK x \in T : TRUE
    OBVIOUS
  <2>2. n - x \in U
    BY <2>1
  <2>3. \A y \in T : y \in Nat /\ y <= n
    OBVIOUS
  <2>4. \A y \in T : n - y \in Nat
    BY <2>3
  <2> QED
    BY <2>2, <2>4
<1> HIDE DEF R, U
<1>3. PICK u \in U : \A v \in U : ~(<<v, u>> \in R)
  BY <1>1, <1>2, WFMin
<1>4. PICK x \in T : u = n - x
  BY DEF U
<1>5. ASSUME NEW y \in T PROVE y <= x
  <2>1. n - y \in U /\ n - y \in Nat /\ n - x \in Nat /\ x \in Int /\ y \in Int
    BY DEF U
  <2>2. ~(<<n - y, n - x>> \in R)
    BY <1>3, <1>4, <2>1
  <2>3. ~(n - y < n - x)
    BY <2>1, <2>2 DEF R
  <2> QED
    BY <2>1, <2>3
<1> QED
  BY <1>5

LEMMA ReadPageStep == ASSUME LedgerInv, File!ReadPage PROVE LedgerInv'
<1> DEFINE from == Len(page)
           fits == {n \in from .. File!Readable :
                      n <= from + 1 \/ File!SizeOf(SubSeq(lines, from + 1, n)) <= PageSize}
           last == CHOOSE n \in fits : \A other \in fits : other <= n
<1>1. FileTypes /\ WriterInv /\ ReaderInv /\ Len(lines) \in Nat /\ Len(page) \in Nat
      /\ File!Readable \in Nat /\ File!Readable <= Len(lines)
  BY LedgerLengths DEF LedgerInv
<1>2. /\ lines' = lines /\ whole' = whole /\ logged' = logged /\ window' = window /\ writer' = writer
      /\ floorLine' = floorLine
      /\ page' = SubSeq(lines, 1, last) /\ asks' = IF last < File!Readable THEN "reads" ELSE "done"
  BY DEF File!ReadPage, File!fileVars
<1>3. fits \in SUBSET (0 .. File!Readable) /\ fits # {}
  <2>1. from \in fits
    BY <1>1 DEF ReaderInv
  <2>2. fits \in SUBSET (0 .. File!Readable)
    BY <1>1
  <2> QED
    BY <2>1, <2>2
<1>4. last \in 0 .. File!Readable
  <2> HIDE DEF fits
  <2>1. \E x \in fits : \A y \in fits : y <= x
    BY <1>1, <1>3, LastOne
  <2> QED
    BY <1>3, <2>1
<1> HIDE DEF last
<1>5. PICK n \in Nat : n = last /\ n <= File!Readable /\ n <= Len(lines)
  BY <1>1, <1>4
<1>6. /\ page' \in Seq(Record) /\ Len(page') = n /\ \A i \in 1 .. n : page'[i] = lines[i]
  <2>1. \A i \in 1 .. n : lines[i] \in Record
    <3>1. \A i \in 1 .. n : i \in 1 .. Len(lines)
      BY <1>1, <1>5
    <3> QED
      BY <1>1, <3>1, ElementOfSeq DEF FileTypes
  <2>2. /\ SubSeq(lines, 1, n) \in Seq(Record)
        /\ Len(SubSeq(lines, 1, n)) = (IF 1 <= n THEN n - 1 + 1 ELSE 0)
        /\ \A i \in 1 .. n - 1 + 1 : SubSeq(lines, 1, n)[i] = lines[1 + i - 1]
    BY <2>1, SubSeqProperties
  <2> QED
    BY <1>2, <1>5, <2>2
<1>7. FileTypes' /\ WriterInv'
  BY <1>1, <1>2, <1>6 DEF FileTypes, WriterInv, Counted
<1>8. File!Readable' = File!Readable
  BY <1>2 DEF File!Readable
<1>9. ReaderInv'
  BY <1>1, <1>2, <1>5, <1>6, <1>8 DEF ReaderInv, FileTypes
<1> QED
  BY <1>7, <1>9 DEF LedgerInv

LEMMA FileStep == ASSUME LedgerInv, File!NextLedger PROVE LedgerInv'
  BY LogStep, FlushStep, FailedWriteStep, NewReadingStep, ReadPageStep DEF File!NextLedger

LEMMA LedgerReadsWhole == ASSUME LedgerInv PROVE HistoryIsWhole
<1>1. FileTypes /\ WriterInv /\ ReaderInv /\ Len(lines) \in Nat /\ Len(page) \in Nat
      /\ File!Readable <= Len(lines) /\ File!Readable = (IF whole THEN Len(lines) ELSE Len(lines) - 1)
  BY LedgerLengths DEF LedgerInv
<1>2. Len(page) <= Len(lines) /\ (~whole => Len(page) < Len(lines))
  BY <1>1 DEF ReaderInv
<1>3. File!Loads(page)
  BY <1>1, <1>2, LoadsBefore DEF ReaderInv, WriterInv
<1>4. asks = "done" => Len(page) >= floorLine
  BY <1>1 DEF ReaderInv, FileTypes
<1> QED
  BY <1>2, <1>3, <1>4 DEF HistoryIsWhole, File!HistoryIsWhole

\* HistoryIsWhole: whoever reads the ledger while it is written, page by page, gets a
\* history that loads, with every record that was there when it began and no piece of one,
\* also when a write has failed half-way (session.py:113-152, history.py:45-133).
THEOREM HistoryReadWhole == PartsSpec => []HistoryIsWhole
<1>1. PartsInit => LedgerInv
  BY FileStarts DEF PartsInit
<1>2. LedgerInv /\ [PartsNext]_allVars => LedgerInv'
  <2>1. LedgerInv /\ UNCHANGED filesVars => LedgerInv'
    BY DEF filesVars, LedgerInv, FileTypes, WriterInv, ReaderInv, Counted, File!Readable
  <2> QED
    BY <2>1, OnePartSteps, FileStep
<1>3. LedgerInv => HistoryIsWhole
  BY LedgerReadsWhole
<1> QED
  BY <1>1, <1>2, <1>3, PTL DEF PartsSpec
-----------------------------------------------------------------------------
(* The requests of an engine. A sequence of messages is whole when every   *)
(* result stands behind its call and, unless the tokens have run out,      *)
(* every call before its results; what is done with such a sequence,       *)
(* joining, cutting between exchanges and leaving out holes, keeps it so.  *)

Message == [role : {"user", "omitted", "assistant", "tool"}, calls : SUBSET Nat]

Backs(m, i, j) ==
    /\ m[j].role = "assistant" /\ m[i].calls \subseteq m[j].calls
    /\ \A k \in j + 1 .. i - 1 : m[k].role = "tool" /\ m[k].calls # m[i].calls
Sound(m) ==
    \A i \in 1 .. Len(m) : m[i].role = "tool" => \E j \in 1 .. i - 1 : Backs(m, i, j)

AnswersCall(m, i, c, j) ==
    m[j] = Talk!ResultOf(c) /\ \A k \in i + 1 .. j : m[k].role = "tool"
Complete(m) ==
    \A i \in 1 .. Len(m) : m[i].role = "assistant" =>
        \A c \in m[i].calls : \E j \in i + 1 .. Len(m) : AnswersCall(m, i, c, j)

Whole(m) == m \in Seq(Message) /\ Sound(m) /\ (~Limited => Complete(m))
\* The sequence may be cut behind its first n messages.
Between(m, n) == n \in 0 .. Len(m) /\ (n < Len(m) => m[n + 1].role # "tool")

LEMMA JoinedWhole == ASSUME NEW a, NEW b, Whole(a), Whole(b) PROVE Whole(a \o b)
<1>1. PICK m : m = a \o b
  OBVIOUS
<1>2. /\ a \in Seq(Message) /\ b \in Seq(Message) /\ m \in Seq(Message)
      /\ Len(a) \in Nat /\ Len(b) \in Nat /\ Len(m) = Len(a) + Len(b)
      /\ \A i \in 1 .. Len(a) : m[i] = a[i]
      /\ \A i \in 1 .. Len(b) : m[Len(a) + i] = b[i]
  BY <1>1 DEF Whole
<1>3. ASSUME NEW i \in 1 .. Len(m), m[i].role = "tool" PROVE \E j \in 1 .. i - 1 : Backs(m, i, j)
  <2>1. CASE i \in 1 .. Len(a)
    <3>1. PICK j \in 1 .. i - 1 : Backs(a, i, j)
      BY <1>2, <1>3, <2>1 DEF Whole, Sound
    <3>2. j \in 1 .. Len(a) /\ \A k \in j + 1 .. i - 1 : k \in 1 .. Len(a)
      BY <1>2, <2>1
    <3> QED
      BY <1>2, <2>1, <3>1, <3>2 DEF Backs
  <2>2. CASE i \notin 1 .. Len(a)
    <3>1. PICK n \in 1 .. Len(b) : i = Len(a) + n
      <4>1. i - Len(a) \in 1 .. Len(b) /\ i = Len(a) + (i - Len(a))
        BY <1>2, <2>2
      <4> QED
        BY <4>1
    <3>2. PICK j \in 1 .. n - 1 : Backs(b, n, j)
      BY <1>2, <1>3, <3>1 DEF Whole, Sound
    <3>3. /\ j \in 1 .. Len(b) /\ Len(a) + j \in 1 .. i - 1
          /\ m[i] = b[n] /\ m[Len(a) + j] = b[j]
      BY <1>2, <3>1
    <3>4. ASSUME NEW k \in Len(a) + j + 1 .. i - 1 PROVE m[k].role = "tool" /\ m[k].calls # m[i].calls
      <4>1. k - Len(a) \in j + 1 .. n - 1 /\ k - Len(a) \in 1 .. Len(b) /\ k = Len(a) + (k - Len(a))
        BY <1>2, <3>1
      <4> QED
        BY <1>2, <3>2, <3>3, <4>1, ZenonT(40) DEF Backs
    <3>5. Backs(m, i, Len(a) + j)
      BY <3>2, <3>3, <3>4 DEF Backs
    <3> QED
      BY <3>3, <3>5
  <2> QED
    BY <2>1, <2>2
<1>4. ASSUME ~Limited, NEW i \in 1 .. Len(m), m[i].role = "assistant", NEW c \in m[i].calls
      PROVE  \E j \in i + 1 .. Len(m) : AnswersCall(m, i, c, j)
  <2>1. CASE i \in 1 .. Len(a)
    <3>1. PICK j \in i + 1 .. Len(a) : AnswersCall(a, i, c, j)
      BY <1>2, <1>4, <2>1 DEF Whole, Complete
    <3>2. j \in 1 .. Len(a) /\ j \in i + 1 .. Len(m) /\ \A k \in i + 1 .. j : k \in 1 .. Len(a)
      BY <1>2, <2>1
    <3>3. AnswersCall(m, i, c, j)
      BY <1>2, <3>1, <3>2 DEF AnswersCall
    <3> QED
      BY <3>2, <3>3
  <2>2. CASE i \notin 1 .. Len(a)
    <3>1. PICK n \in 1 .. Len(b) : i = Len(a) + n
      <4>1. i - Len(a) \in 1 .. Len(b) /\ i = Len(a) + (i - Len(a))
        BY <1>2, <2>2
      <4> QED
        BY <4>1
    <3>2. PICK j \in n + 1 .. Len(b) : AnswersCall(b, n, c, j)
      BY <1>2, <1>4, <3>1 DEF Whole, Complete
    <3>3. j \in 1 .. Len(b) /\ Len(a) + j \in i + 1 .. Len(m) /\ m[Len(a) + j] = b[j]
      BY <1>2, <3>1
    <3>4. ASSUME NEW k \in i + 1 .. Len(a) + j PROVE m[k].role = "tool"
      <4>1. k - Len(a) \in n + 1 .. j /\ k - Len(a) \in 1 .. Len(b) /\ k = Len(a) + (k - Len(a))
        BY <1>2, <3>1
      <4> QED
        BY <1>2, <3>2, <4>1 DEF AnswersCall
    <3>5. AnswersCall(m, i, c, Len(a) + j)
      BY <3>2, <3>3, <3>4 DEF AnswersCall
    <3> QED
      BY <3>3, <3>5
  <2> QED
    BY <2>1, <2>2
<1> QED
  BY <1>1, <1>2, <1>3, <1>4 DEF Whole, Sound, Complete

LEMMA FrontWhole ==
    ASSUME NEW m, Whole(m), NEW n, Between(m, n)
    PROVE  Whole(SubSeq(m, 1, n))
<1>1. PICK f : f = SubSeq(m, 1, n)
  OBVIOUS
<1>2. /\ m \in Seq(Message) /\ Len(m) \in Nat /\ n \in 0 .. Len(m)
      /\ f \in Seq(Message) /\ Len(f) = n /\ \A i \in 1 .. n : f[i] = m[i]
  BY <1>1 DEF Whole, Between
<1>3. ASSUME NEW i \in 1 .. Len(f), f[i].role = "tool" PROVE \E j \in 1 .. i - 1 : Backs(f, i, j)
  <2>1. PICK j \in 1 .. i - 1 : Backs(m, i, j)
    BY <1>2, <1>3 DEF Whole, Sound
  <2>2. j \in 1 .. n /\ i \in 1 .. n /\ \A k \in j + 1 .. i - 1 : k \in 1 .. n
    BY <1>2
  <2> QED
    BY <1>2, <2>1, <2>2 DEF Backs
<1>4. ASSUME ~Limited, NEW i \in 1 .. Len(f), f[i].role = "assistant", NEW c \in f[i].calls
      PROVE  \E j \in i + 1 .. Len(f) : AnswersCall(f, i, c, j)
  <2>1. i \in 1 .. Len(m) /\ i \in 1 .. n
    BY <1>2
  <2>2. PICK j \in i + 1 .. Len(m) : AnswersCall(m, i, c, j)
    BY <1>2, <1>4, <2>1 DEF Whole, Complete
  <2>3. j <= n
    <3> SUFFICES ASSUME j > n PROVE FALSE
      BY <1>2
    <3>1. n + 1 \in i + 1 .. j /\ n < Len(m)
      BY <1>2, <2>1
    <3> QED
      BY <2>2, <3>1 DEF AnswersCall, Between
  <2>4. j \in i + 1 .. Len(f) /\ j \in 1 .. n /\ \A k \in i + 1 .. j : k \in 1 .. n
    BY <1>2, <2>1, <2>3
  <2>5. AnswersCall(f, i, c, j)
    BY <1>2, <2>2, <2>4 DEF AnswersCall
  <2> QED
    BY <2>4, <2>5
<1> QED
  BY <1>1, <1>2, <1>3, <1>4 DEF Whole, Sound, Complete

LEMMA RestWhole ==
    ASSUME NEW m, Whole(m), NEW n, Between(m, n)
    PROVE  Whole(SubSeq(m, n + 1, Len(m)))
<1>1. PICK b : b = SubSeq(m, n + 1, Len(m))
  OBVIOUS
<1>2. /\ m \in Seq(Message) /\ Len(m) \in Nat /\ n \in 0 .. Len(m)
      /\ b \in Seq(Message) /\ Len(b) = Len(m) - n /\ \A i \in 1 .. Len(b) : b[i] = m[n + i]
  <2>1. m \in Seq(Message) /\ Len(m) \in Nat /\ n \in 0 .. Len(m)
    BY DEF Whole, Between
  <2>2. b \in Seq(Message) /\ Len(b) = Len(m) - n
    BY <1>1, <2>1
  <2>3. \A i \in 1 .. Len(b) : b[i] = m[n + i]
    BY <1>1, <2>1, <2>2
  <2> QED
    BY <2>1, <2>2, <2>3
<1>3. ASSUME NEW i \in 1 .. Len(b), b[i].role = "tool" PROVE \E j \in 1 .. i - 1 : Backs(b, i, j)
  <2>1. PICK p : p = n + i
    OBVIOUS
  <2>2. p \in 1 .. Len(m) /\ b[i] = m[p]
    BY <1>2, <2>1
  <2>3. PICK j \in 1 .. p - 1 : Backs(m, p, j)
    BY <1>3, <2>2 DEF Whole, Sound
  <2>4. j > n
    <3> SUFFICES ASSUME j <= n PROVE FALSE
      BY <1>2, <2>2
    <3>1. n < Len(m) /\ m[n + 1].role # "tool"
      BY <1>2, <2>1, <2>2 DEF Between
    <3>2. p # n + 1
      BY <1>3, <2>2, <3>1
    <3>3. n + 1 \in j + 1 .. p - 1
      BY <1>2, <2>1, <2>2, <3>2
    <3> QED
      BY <2>3, <3>1, <3>3 DEF Backs
  <2>5. PICK l \in 1 .. i - 1 : j = n + l
    <3>1. j - n \in 1 .. i - 1 /\ j = n + (j - n)
      BY <1>2, <2>1, <2>2, <2>4
    <3> QED
      BY <3>1
  <2>6. l \in 1 .. Len(b) /\ b[l] = m[j]
    BY <1>2, <2>5
  <2>7. ASSUME NEW k \in l + 1 .. i - 1 PROVE b[k].role = "tool" /\ b[k].calls # b[i].calls
    <3>1. k \in 1 .. Len(b) /\ n + k \in j + 1 .. p - 1
      BY <1>2, <2>1, <2>5
    <3>2. m[n + k].role = "tool" /\ m[n + k].calls # m[p].calls
      BY <2>3, <3>1 DEF Backs
    <3> QED
      BY <1>2, <2>2, <3>1, <3>2
  <2>8. Backs(b, i, l)
    BY <2>2, <2>3, <2>6, <2>7 DEF Backs
  <2> QED
    BY <2>8
<1>4. ASSUME ~Limited, NEW i \in 1 .. Len(b), b[i].role = "assistant", NEW c \in b[i].calls
      PROVE  \E j \in i + 1 .. Len(b) : AnswersCall(b, i, c, j)
  <2>1. n + i \in 1 .. Len(m) /\ b[i] = m[n + i]
    BY <1>2
  <2>2. PICK j \in n + i + 1 .. Len(m) : AnswersCall(m, n + i, c, j)
    BY <1>4, <2>1 DEF Whole, Complete
  <2>3. PICK l \in i + 1 .. Len(b) : j = n + l
    <3>1. j - n \in i + 1 .. Len(b) /\ j = n + (j - n)
      BY <1>2
    <3> QED
      BY <3>1
  <2>4. l \in 1 .. Len(b) /\ b[l] = m[j]
    BY <1>2, <2>3
  <2>5. ASSUME NEW k \in i + 1 .. l PROVE b[k].role = "tool"
    <3>1. k \in 1 .. Len(b) /\ n + k \in n + i + 1 .. j
      BY <1>2, <2>3
    <3> QED
      BY <1>2, <2>2, <3>1 DEF AnswersCall
  <2>6. AnswersCall(b, i, c, l)
    BY <2>2, <2>4, <2>5 DEF AnswersCall
  <2> QED
    BY <2>6
<1> QED
  BY <1>1, <1>2, <1>3, <1>4 DEF Whole, Sound, Complete

LEMMA QuietWhole ==
    ASSUME NEW m \in Seq(Message),
           \A i \in 1 .. Len(m) : m[i].role # "tool" /\ (m[i].role = "assistant" => m[i].calls = {})
    PROVE  Whole(m)
  BY DEF Whole, Sound, Complete

LEMMA MessageTypes ==
    /\ Talk!Told \in Message /\ Talk!Omitted \in Message
    /\ \A c \in SUBSET Nat : Talk!Said(c) \in Message
    /\ \A c \in Nat : Talk!ResultOf(c) \in Message
  BY DEF Message, Talk!Told, Talk!Omitted, Talk!Said, Talk!ResultOf

LEMMA RepliesWhole ==
    /\ Whole(<<>>) /\ Whole(<<Talk!Told>>) /\ Whole(<<Talk!Omitted>>) /\ Whole(<<Talk!Said({})>>)
    /\ \A c \in Nat : Whole(<<Talk!Said({c}), Talk!ResultOf(c)>>)
    /\ \A c \in Nat : Whole(<<Talk!Said({c, c + 1}), Talk!ResultOf(c), Talk!ResultOf(c + 1)>>)
    /\ \A c \in Nat : Limited => Whole(<<Talk!Said({c})>>)
<1>1. Whole(<<>>) /\ Whole(<<Talk!Told>>) /\ Whole(<<Talk!Omitted>>) /\ Whole(<<Talk!Said({})>>)
  <2>1. /\ Talk!Told.role = "user" /\ Talk!Omitted.role = "omitted"
        /\ Talk!Said({}).role = "assistant" /\ Talk!Said({}).calls = {}
    BY DEF Talk!Told, Talk!Omitted, Talk!Said
  <2>2. Whole(<<>>)
    <3>1. PICK m : m = <<>>
      OBVIOUS
    <3>2. m \in Seq(Message) /\ Len(m) = 0 /\ 1 .. Len(m) = {}
      BY <3>1
    <3> QED
      BY <3>1, <3>2, QuietWhole
  <2>3. ASSUME NEW one \in {Talk!Told, Talk!Omitted, Talk!Said({})} PROVE Whole(<<one>>)
    <3>1. PICK m : m = <<one>>
      OBVIOUS
    <3>2. one \in Message
      BY <2>3, MessageTypes
    <3>3. m \in Seq(Message) /\ Len(m) = 1 /\ m[1] = one
      BY <3>1, <3>2
    <3>4. \A i \in 1 .. Len(m) : m[i].role # "tool" /\ (m[i].role = "assistant" => m[i].calls = {})
      BY <2>1, <2>3, <3>3
    <3> QED
      BY <3>1, <3>3, <3>4, QuietWhole
  <2> QED
    BY <2>2, <2>3
<1>2. ASSUME NEW c \in Nat PROVE Whole(<<Talk!Said({c}), Talk!ResultOf(c)>>)
  <2>1. PICK m : m = <<Talk!Said({c}), Talk!ResultOf(c)>>
    OBVIOUS
  <2>2. m \in Seq(Message) /\ Len(m) = 2 /\ m[1] = Talk!Said({c}) /\ m[2] = Talk!ResultOf(c)
    BY <2>1, MessageTypes
  <2>3. Sound(m)
    <3>1. Backs(m, 2, 1)
      BY <2>2 DEF Backs, Talk!Said, Talk!ResultOf
    <3>2. m[1].role # "tool"
      BY <2>2 DEF Talk!Said
    <3> QED
      BY <2>2, <3>1, <3>2 DEF Sound
  <2>4. Complete(m)
    <3>1. AnswersCall(m, 1, c, 2)
      BY <2>2 DEF AnswersCall, Talk!ResultOf
    <3>2. m[1].calls = {c} /\ m[2].role # "assistant"
      BY <2>2 DEF Talk!Said, Talk!ResultOf
    <3>3. \A i \in 1 .. Len(m) : i = 1 \/ i = 2
      BY <2>2
    <3>4. 2 \in 2 .. Len(m) /\ 1 + 1 = 2
      BY <2>2
    <3> QED
      BY <3>1, <3>2, <3>3, <3>4 DEF Complete
  <2> QED
    BY <2>1, <2>2, <2>3, <2>4 DEF Whole
<1>3. ASSUME NEW c \in Nat
      PROVE  Whole(<<Talk!Said({c, c + 1}), Talk!ResultOf(c), Talk!ResultOf(c + 1)>>)
  <2>1. PICK d \in Nat : d = c + 1 /\ d # c
    OBVIOUS
  <2>2. PICK m : m = <<Talk!Said({c, d}), Talk!ResultOf(c), Talk!ResultOf(d)>>
    OBVIOUS
  <2>3. /\ m \in Seq(Message) /\ Len(m) = 3
        /\ m[1] = Talk!Said({c, d}) /\ m[2] = Talk!ResultOf(c) /\ m[3] = Talk!ResultOf(d)
    BY <2>2, MessageTypes
  <2>4. /\ m[1].role = "assistant" /\ m[1].calls = {c, d}
        /\ m[2].role = "tool" /\ m[2].calls = {c} /\ m[3].role = "tool" /\ m[3].calls = {d}
    BY <2>3 DEF Talk!Said, Talk!ResultOf
  <2>5. Sound(m)
    <3>1. Backs(m, 2, 1) /\ Backs(m, 3, 1)
      BY <2>1, <2>4 DEF Backs
    <3> QED
      BY <2>3, <2>4, <3>1 DEF Sound
  <2>6. Complete(m)
    <3>1. AnswersCall(m, 1, c, 2) /\ AnswersCall(m, 1, d, 3)
      BY <2>3, <2>4 DEF AnswersCall
    <3>2. \A i \in 1 .. Len(m) : m[i].role = "assistant" => i = 1
      BY <2>3, <2>4
    <3>3. {2, 3} \subseteq 1 + 1 .. Len(m)
      BY <2>3
    <3> QED
      BY <2>4, <3>1, <3>2, <3>3 DEF Complete
  <2> QED
    BY <2>1, <2>2, <2>3, <2>5, <2>6 DEF Whole
<1>4. ASSUME NEW c \in Nat, Limited PROVE Whole(<<Talk!Said({c})>>)
  <2>1. PICK m : m = <<Talk!Said({c})>>
    OBVIOUS
  <2>2. m \in Seq(Message) /\ Len(m) = 1 /\ m[1] = Talk!Said({c})
    BY <2>1, MessageTypes
  <2>3. Sound(m)
    BY <2>2 DEF Sound, Talk!Said
  <2> QED
    BY <1>4, <2>1, <2>2, <2>3 DEF Whole
<1> QED
  BY <1>1, <1>2, <1>3, <1>4

-----------------------------------------------------------------------------
\* Induction over the numbers, with a set in the place of a predicate.
LEMMA Induction ==
    ASSUME NEW S, 0 \in S, \A n \in Nat : n \in S => n + 1 \in S
    PROVE  Nat \subseteq S
<1> DEFINE R == {ss \in Nat \X Nat : ss[1] < ss[2]}
           Missing == Nat \ S
<1> SUFFICES ASSUME Missing # {} PROVE FALSE
  OBVIOUS
<1>1. IsWellFoundedOn(R, Nat)
  BY NatLessThanWellFounded DEF OpToRel
<1> HIDE DEF R
<1>2. PICK n \in Missing : \A m \in Missing : ~(<<m, n>> \in R)
  BY <1>1, WFMin
<1>3. n \in Nat /\ n # 0 /\ n \notin S
  BY <1>2
<1>4. n - 1 \in Nat /\ n - 1 < n /\ (n - 1) + 1 = n
  BY <1>3
<1>5. n - 1 \in Missing
  BY <1>3, <1>4
<1> QED
  BY <1>2, <1>3, <1>4, <1>5 DEF R

\* What KeptOf makes of one more message.
OneMore(shorter, message) == IF message = Talk!Omitted THEN shorter ELSE Append(shorter, message)

LEMMA KeptDefined ==
    ASSUME NEW input, Len(input) \in Nat
    PROVE  \A n \in 0 .. Len(input) :
              Talk!KeptOf(input)[n] =
                IF n = 0 THEN <<>> ELSE OneMore(Talk!KeptOf(input)[n - 1], input[n])
<1> DEFINE Follows(g, m) == g = [n \in 0 .. m |->
              IF n = 0 THEN <<>> ELSE OneMore(g[n - 1], input[n])]
           S == {m \in Nat : \E f : Follows(f, m)}
<1>1. 0 \in S
  <2> DEFINE one == [n \in 0 .. 0 |-> <<>>]
  <2>1. Follows(one, 0)
    OBVIOUS
  <2> QED
    BY <2>1
<1>2. ASSUME NEW m \in Nat, m \in S PROVE m + 1 \in S
  <2>1. PICK shorter : Follows(shorter, m)
    BY <1>2
  <2> DEFINE more == [n \in 0 .. m + 1 |-> IF n = m + 1 THEN OneMore(shorter[m], input[m + 1]) ELSE shorter[n]]
             next == [n \in 0 .. m + 1 |-> IF n = 0 THEN <<>> ELSE OneMore(more[n - 1], input[n])]
  <2>2. ASSUME NEW n \in 0 .. m + 1 PROVE more[n] = next[n]
    <3>1. CASE n = m + 1
      <4>1. more[n] = OneMore(shorter[m], input[m + 1])
        BY <3>1
      <4>2. n # 0 /\ n - 1 = m /\ m \in 0 .. m + 1 /\ m # m + 1
        BY <3>1
      <4>3. next[n] = OneMore(more[m], input[m + 1]) /\ more[m] = shorter[m]
        BY <3>1, <4>2
      <4> QED
        BY <4>1, <4>3
    <3>2. CASE n = 0
      <4>1. 0 # m + 1 /\ 0 \in 0 .. m /\ 0 \in 0 .. m + 1
        OBVIOUS
      <4>2. shorter[0] = <<>>
        BY <2>1, <4>1
      <4> QED
        BY <3>2, <4>1, <4>2
    <3>3. CASE n # 0 /\ n # m + 1
      <4>1. n \in 0 .. m /\ n - 1 \in 0 .. m + 1 /\ n - 1 # m + 1
        BY <3>3
      <4>2. shorter[n] = OneMore(shorter[n - 1], input[n])
        BY <2>1, <3>3, <4>1
      <4>3. more[n] = shorter[n] /\ more[n - 1] = shorter[n - 1]
        BY <3>3, <4>1
      <4>4. next[n] = OneMore(more[n - 1], input[n])
        BY <3>3
      <4> QED
        BY <4>2, <4>3, <4>4
    <3> QED
      BY <3>1, <3>2, <3>3
  <2>3. more = next
    BY <2>2
  <2>4. Follows(more, m + 1)
    BY <2>3
  <2> HIDE DEF more, next, Follows
  <2>5. \E f : Follows(f, m + 1)
    BY <2>4
  <2> QED
    BY <2>5
<1>3. Len(input) \in S
  BY <1>1, <1>2, Induction
<1> HIDE DEF S
<1>4. PICK shorter : Follows(shorter, Len(input))
  BY <1>3 DEF S
<1>5. Follows(Talk!KeptOf(input), Len(input))
  BY <1>4 DEF Talk!KeptOf, OneMore
<1> HIDE DEF Follows
<1>6. \A f : Follows(f, Len(input)) => \A n \in 0 .. Len(input) :
         f[n] = IF n = 0 THEN <<>> ELSE OneMore(f[n - 1], input[n])
  BY DEF Follows
<1> QED
  BY <1>5, <1>6

\* f is what is left of the first n messages of m; g says where each of f stood.
Thins(m, n, f, g) ==
    /\ f \in Seq(Message) /\ g \in [1 .. Len(f) -> 1 .. n]
    /\ \A i \in 1 .. Len(f) : f[i] = m[g[i]]
    /\ \A i, j \in 1 .. Len(f) : i < j => g[i] < g[j]
    /\ \A p \in 1 .. n : m[p] = Talk!Omitted \/ \E i \in 1 .. Len(f) : g[i] = p

LEMMA ThinsMore ==
    ASSUME NEW m \in Seq(Message), NEW n \in Nat, n < Len(m), NEW f, NEW g, Thins(m, n, f, g)
    PROVE  \E h : Thins(m, n + 1, OneMore(f, m[n + 1]), h)
<1>1. /\ f \in Seq(Message) /\ g \in [1 .. Len(f) -> 1 .. n] /\ Len(f) \in Nat
      /\ \A i \in 1 .. Len(f) : f[i] = m[g[i]]
      /\ \A i, j \in 1 .. Len(f) : i < j => g[i] < g[j]
      /\ \A p \in 1 .. n : m[p] = Talk!Omitted \/ \E i \in 1 .. Len(f) : g[i] = p
      /\ n + 1 \in 1 .. Len(m) /\ m[n + 1] \in Message
  BY DEF Thins
<1>2. CASE m[n + 1] = Talk!Omitted
  <2>1. OneMore(f, m[n + 1]) = f /\ g \in [1 .. Len(f) -> 1 .. n + 1]
    BY <1>1, <1>2 DEF OneMore
  <2>2. Thins(m, n + 1, f, g)
    BY <1>1, <1>2, <2>1 DEF Thins
  <2> QED
    BY <2>1, <2>2
<1>3. CASE m[n + 1] # Talk!Omitted
  <2>1. PICK e : e = Append(f, m[n + 1])
    OBVIOUS
  <2>2. /\ e \in Seq(Message) /\ Len(e) = Len(f) + 1 /\ e[Len(f) + 1] = m[n + 1]
        /\ \A i \in 1 .. Len(f) : e[i] = f[i]
    BY <1>1, <2>1
  <2>3. PICK h : h = [i \in 1 .. Len(e) |-> IF i = Len(f) + 1 THEN n + 1 ELSE g[i]]
    OBVIOUS
  <2>4. h[Len(f) + 1] = n + 1 /\ \A i \in 1 .. Len(f) : h[i] = g[i] /\ i # Len(f) + 1 /\ i \in 1 .. Len(e)
    BY <1>1, <2>2, <2>3
  <2>5. \A i \in 1 .. Len(e) : i \in 1 .. Len(f) \/ i = Len(f) + 1
    BY <1>1, <2>2
  <2>6. h \in [1 .. Len(e) -> 1 .. n + 1]
    BY <1>1, <2>3, <2>5
  <2>7. \A i \in 1 .. Len(e) : e[i] = m[h[i]]
    BY <1>1, <2>2, <2>4, <2>5
  <2>8. \A i, j \in 1 .. Len(e) : i < j => h[i] < h[j]
    <3> SUFFICES ASSUME NEW i \in 1 .. Len(e), NEW j \in 1 .. Len(e), i < j
                 PROVE  h[i] < h[j]
      OBVIOUS
    <3>1. i \in 1 .. Len(f)
      BY <1>1, <2>2
    <3>2. h[i] = g[i] /\ g[i] \in 1 .. n
      BY <1>1, <2>4, <3>1
    <3>3. CASE j = Len(f) + 1
      <4>1. h[j] = n + 1
        BY <2>4, <3>3
      <4> QED
        BY <3>2, <4>1
    <3>4. CASE j \in 1 .. Len(f)
      <4>1. h[j] = g[j] /\ g[i] < g[j]
        BY <1>1, <2>4, <3>1, <3>4
      <4> QED
        BY <3>2, <4>1
    <3> QED
      BY <2>5, <3>3, <3>4
  <2>9. \A p \in 1 .. n + 1 : m[p] = Talk!Omitted \/ \E i \in 1 .. Len(e) : h[i] = p
    <3> TAKE p \in 1 .. n + 1
    <3>1. CASE p = n + 1
      <4>1. Len(f) + 1 \in 1 .. Len(e)
        BY <1>1, <2>2
      <4> QED
        BY <2>4, <3>1, <4>1
    <3>2. CASE p \in 1 .. n
      BY <1>1, <2>4, <3>2
    <3> QED
      BY <3>1, <3>2
  <2>10. Thins(m, n + 1, e, h)
    BY <2>2, <2>6, <2>7, <2>8, <2>9 DEF Thins
  <2> QED
    BY <1>3, <2>1, <2>10 DEF OneMore
<1> QED
  BY <1>2, <1>3

LEMMA KeptThins ==
    ASSUME NEW m \in Seq(Message)
    PROVE  \E g : Thins(m, Len(m), Talk!KeptOf(m)[Len(m)], g)
<1> DEFINE S == {n \in Nat : n <= Len(m) => \E g : Thins(m, n, Talk!KeptOf(m)[n], g)}
<1>1. Len(m) \in Nat
  OBVIOUS
<1>2. 0 \in S
  <2>1. Talk!KeptOf(m)[0] = <<>>
    BY <1>1, KeptDefined
  <2>2. Thins(m, 0, <<>>, [i \in 1 .. 0 |-> 0])
    BY DEF Thins
  <2> QED
    BY <2>1, <2>2
<1>3. ASSUME NEW n \in Nat, n \in S PROVE n + 1 \in S
  <2> SUFFICES ASSUME n + 1 <= Len(m) PROVE \E g : Thins(m, n + 1, Talk!KeptOf(m)[n + 1], g)
    OBVIOUS
  <2>1. n < Len(m) /\ n + 1 \in 0 .. Len(m) /\ n + 1 # 0 /\ (n + 1) - 1 = n
    BY <1>1
  <2>2. PICK f : f = Talk!KeptOf(m)[n]
    OBVIOUS
  <2>3. PICK g : Thins(m, n, f, g)
    BY <1>3, <2>1, <2>2
  <2>4. Talk!KeptOf(m)[n + 1] = OneMore(f, m[n + 1])
    BY <1>1, <2>1, <2>2, KeptDefined
  <2> QED
    BY <2>1, <2>3, <2>4, ThinsMore
<1> HIDE DEF S
<1>4. Len(m) \in S
  BY <1>1, <1>2, <1>3, Induction
<1> QED
  BY <1>1, <1>4 DEF S

LEMMA KeptWhole == ASSUME NEW m, Whole(m) PROVE Whole(Talk!KeptOf(m)[Len(m)])
<1>1. PICK f : f = Talk!KeptOf(m)[Len(m)]
  OBVIOUS
<1>2. m \in Seq(Message) /\ Len(m) \in Nat
  BY DEF Whole
<1>3. PICK g : Thins(m, Len(m), f, g)
  BY <1>1, <1>2, KeptThins
<1>4. /\ f \in Seq(Message) /\ Len(f) \in Nat /\ \A i \in 1 .. Len(f) : g[i] \in 1 .. Len(m)
      /\ \A i \in 1 .. Len(f) : f[i] = m[g[i]]
      /\ \A i, j \in 1 .. Len(f) : i < j => g[i] < g[j]
      /\ \A p \in 1 .. Len(m) : m[p] = Talk!Omitted \/ \E i \in 1 .. Len(f) : g[i] = p
  BY <1>3 DEF Thins
<1>5. \A i, j \in 1 .. Len(f) : g[i] < g[j] => i < j
  BY <1>4
<1>6. Talk!Omitted.role = "omitted"
  BY DEF Talk!Omitted
<1>7. ASSUME NEW i \in 1 .. Len(f), f[i].role = "tool" PROVE \E j \in 1 .. i - 1 : Backs(f, i, j)
  <2>1. PICK p \in 1 .. Len(m) : p = g[i] /\ m[p] = f[i]
    BY <1>4
  <2>2. PICK q \in 1 .. p - 1 : Backs(m, p, q)
    BY <1>2, <1>7, <2>1 DEF Whole, Sound
  <2>3. q \in 1 .. Len(m) /\ m[q] # Talk!Omitted
    BY <1>2, <1>6, <2>2 DEF Backs
  <2>4. PICK j \in 1 .. Len(f) : g[j] = q
    BY <1>4, <2>3
  <2>5. j < i
    BY <1>4, <1>5, <2>1, <2>2, <2>4
  <2>6. ASSUME NEW k \in j + 1 .. i - 1 PROVE f[k].role = "tool" /\ f[k].calls # f[i].calls
    <3>1. k \in 1 .. Len(f) /\ j < k /\ k < i
      BY <1>4
    <3>2. PICK r \in 1 .. Len(m) : r = g[k] /\ f[k] = m[r]
      BY <1>4, <3>1
    <3>3. r \in q + 1 .. p - 1
      BY <1>4, <2>1, <2>4, <3>1, <3>2
    <3> QED
      BY <2>1, <2>2, <3>2, <3>3 DEF Backs
  <2>7. f[j] = m[q] /\ j \in 1 .. i - 1
    BY <1>4, <2>4, <2>5
  <2>8. Backs(f, i, j)
    BY <2>1, <2>2, <2>6, <2>7 DEF Backs
  <2> QED
    BY <2>7, <2>8
<1>8. ASSUME ~Limited, NEW i \in 1 .. Len(f), f[i].role = "assistant", NEW c \in f[i].calls
      PROVE  \E j \in i + 1 .. Len(f) : AnswersCall(f, i, c, j)
  <2>1. PICK p \in 1 .. Len(m) : p = g[i] /\ m[p] = f[i]
    BY <1>4
  <2>2. PICK q \in p + 1 .. Len(m) : AnswersCall(m, p, c, q)
    BY <1>2, <1>8, <2>1 DEF Whole, Complete
  <2>3. q \in 1 .. Len(m) /\ q \in p + 1 .. q
    BY <1>2, <2>1
  <2>4. m[q] # Talk!Omitted
    BY <1>6, <2>2, <2>3 DEF AnswersCall
  <2>5. PICK j \in 1 .. Len(f) : g[j] = q
    BY <1>4, <2>3, <2>4
  <2>6. i < j
    BY <1>4, <1>5, <2>1, <2>2, <2>5
  <2>7. ASSUME NEW k \in i + 1 .. j PROVE f[k].role = "tool"
    <3>1. k \in 1 .. Len(f) /\ i < k /\ (k < j \/ k = j)
      BY <1>4
    <3>2. PICK r \in 1 .. Len(m) : r = g[k] /\ f[k] = m[r]
      BY <1>4, <3>1
    <3>3. r \in p + 1 .. q
      BY <1>4, <2>1, <2>5, <3>1, <3>2
    <3> QED
      BY <2>2, <3>2, <3>3 DEF AnswersCall
  <2>8. f[j] = m[q] /\ j \in i + 1 .. Len(f)
    BY <1>4, <2>5, <2>6
  <2>9. AnswersCall(f, i, c, j)
    BY <2>2, <2>7, <2>8 DEF AnswersCall
  <2> QED
    BY <2>8, <2>9
<1> QED
  BY <1>1, <1>4, <1>7, <1>8 DEF Whole, Sound, Complete

LEMMA HollowsWhole == ASSUME NEW m, Whole(m), NEW s \in Talk!Hollows(m) PROVE Whole(s)
<1> DEFINE rest == Talk!KeptOf(m)[Len(m)]
           starts == {i \in 1 .. Len(rest) : i = 1 \/ rest[i].role # "tool"}
<1>1. s = m \/ \E l, r \in starts :
         1 < l /\ s = SubSeq(rest, 1, l - 1) \o <<Talk!Omitted>> \o SubSeq(rest, r, Len(rest))
  <2> DEFINE middle == CHOOSE i \in starts :
                Talk!Cardinality({j \in starts : j < i}) = Talk!Cardinality(starts) \div 2
             hole(l, r) == SubSeq(rest, 1, l - 1) \o <<Talk!Omitted>> \o SubSeq(rest, r, Len(rest))
             early == {i \in starts : 1 < i /\ i <= middle}
             tail == {i \in starts : i > middle}
             holes == {hole(l, r) : l \in early, r \in tail}
  <2>1. Talk!Hollows(m) = IF Talk!Cardinality(starts) < 3 THEN {m} ELSE holes
    BY DEF Talk!Hollows
  <2>2. s = m \/ s \in holes
    <3> HIDE DEF holes, starts
    <3> QED
      BY <2>1
  <2>3. early \subseteq {i \in starts : 1 < i} /\ tail \subseteq starts
    <3> HIDE DEF starts, middle
    <3> QED
      OBVIOUS
  <2>4. s \in holes => \E l \in early, r \in tail : s = hole(l, r)
    <3> HIDE DEF hole, early, tail
    <3> QED
      OBVIOUS
  <2> HIDE DEF starts, middle, early, tail, holes
  <2>5. s = m \/ \E l, r \in starts : 1 < l /\ s = hole(l, r)
    <3> HIDE DEF hole
    <3> QED
      BY <2>2, <2>3, <2>4
  <2> QED
    BY <2>5
<1>2. Whole(rest) /\ Len(rest) \in Nat
  BY KeptWhole DEF Whole
<1> HIDE DEF rest
<1>3. ASSUME NEW i \in starts PROVE \E n : i = n + 1 /\ n = i - 1 /\ Between(rest, n)
  <2>1. i \in 1 .. Len(rest) /\ i = (i - 1) + 1 /\ i - 1 \in 0 .. Len(rest)
    BY <1>2
  <2>2. rest[i].role # "tool"
    <3> SUFFICES ASSUME i = 1, rest[1].role = "tool" PROVE FALSE
      BY <1>3
    <3>1. \E j \in 1 .. 1 - 1 : Backs(rest, 1, j)
      BY <1>2, <2>1 DEF Whole, Sound
    <3> QED
      BY <3>1
  <2> QED
    BY <2>1, <2>2 DEF Between
<1>4. CASE s = m
  BY <1>4
<1>5. CASE s # m
  <2>1. PICK l, r \in starts :
           1 < l /\ s = SubSeq(rest, 1, l - 1) \o <<Talk!Omitted>> \o SubSeq(rest, r, Len(rest))
    BY <1>1, <1>5
  <2>2. PICK n : n = l - 1 /\ Between(rest, n)
    BY <1>3
  <2>3. PICK k : r = k + 1 /\ Between(rest, k)
    BY <1>3
  <2>4. Whole(SubSeq(rest, 1, l - 1)) /\ Whole(SubSeq(rest, r, Len(rest)))
    BY <1>2, <2>2, <2>3, FrontWhole, RestWhole
  <2>5. Whole(SubSeq(rest, 1, l - 1) \o <<Talk!Omitted>>)
    BY <2>4, RepliesWhole, JoinedWhole
  <2> QED
    BY <2>1, <2>4, <2>5, JoinedWhole
<1> QED
  BY <1>4, <1>5

-----------------------------------------------------------------------------
\* A whole sequence that may be cut at n.
Cuttable(m, n) == Whole(m) /\ Between(m, n)
\* The same with a call behind it that runs.
WithCall(m, n) == \E front : \E id \in Nat :
                     Cuttable(front, n) /\ m = front \o <<Talk!Said({id})>>
\* A whole sequence and the prompt for its summary.
Asked(m) == \E input : Whole(input) /\ m = Append(input, Talk!Told)

TalkInv ==
    /\ turn \in {"idle", "turn", "asked", "again", "tool", "full", "summary"}
    /\ opening \in Nat /\ steering \in Nat /\ before.opening \in Nat
    /\ Cuttable(before.context, before.lastGood)
    /\ IF turn = "tool" THEN WithCall(convo, lastGood) ELSE Cuttable(convo, lastGood)
    /\ Whole(sent) /\ Whole(snapshot) /\ (turn = "summary" => Asked(sent))

LEMMA JoinedCuttable ==
    ASSUME NEW a, NEW n, Cuttable(a, n), NEW b, Whole(b)
    PROVE  /\ Cuttable(a \o b, n) /\ Cuttable(a \o b, Len(a)) /\ Cuttable(a \o b, Len(a \o b))
           /\ Cuttable(a, Len(a))
<1>1. PICK m : m = a \o b
  OBVIOUS
<1>2. /\ a \in Seq(Message) /\ b \in Seq(Message) /\ m \in Seq(Message)
      /\ Len(a) \in Nat /\ Len(b) \in Nat /\ Len(m) = Len(a) + Len(b)
      /\ \A i \in 1 .. Len(a) : m[i] = a[i]
      /\ Len(b) > 0 => m[Len(a) + 1] = b[1]
  BY <1>1 DEF Whole, Cuttable
<1>3. Whole(a) /\ Whole(m) /\ Between(a, n) /\ n \in 0 .. Len(a)
  BY <1>1, JoinedWhole DEF Cuttable, Between
<1>4. Len(b) > 0 => b[1].role # "tool"
  <2> SUFFICES ASSUME Len(b) > 0, b[1].role = "tool" PROVE FALSE
    OBVIOUS
  <2>1. \E j \in 1 .. 1 - 1 : Backs(b, 1, j)
    BY <1>2 DEF Whole, Sound
  <2> QED
    BY <2>1
<1>5. Between(m, Len(a)) /\ Between(m, Len(m)) /\ Between(a, Len(a))
  BY <1>2, <1>4 DEF Between
<1>6. Between(m, n)
  <2>1. CASE n = Len(a)
    BY <1>5, <2>1
  <2>2. CASE n < Len(a)
    BY <1>2, <1>3, <2>2, SMTT(30) DEF Between
  <2> QED
    BY <1>2, <1>3, <2>1, <2>2
<1> QED
  BY <1>1, <1>3, <1>5, <1>6 DEF Cuttable

LEMMA ToldCuttable ==
    ASSUME NEW m, NEW n, Cuttable(m, n)
    PROVE  /\ Cuttable(Append(m, Talk!Told), n)
           /\ Cuttable(Append(m, Talk!Told), Len(Append(m, Talk!Told)))
<1>1. Append(m, Talk!Told) = m \o <<Talk!Told>>
  BY MessageTypes, AppendIsConcat DEF Cuttable, Whole
<1> QED
  BY <1>1, RepliesWhole, JoinedCuttable

LEMMA AskedFront == ASSUME NEW m, Asked(m) PROVE Whole(m) /\ Whole(Talk!Front(m))
<1>1. PICK input : Whole(input) /\ m = Append(input, Talk!Told)
  BY DEF Asked
<1>2. Cuttable(input, Len(input)) /\ Whole(m)
  <2>1. Cuttable(input, Len(input))
    BY <1>1 DEF Cuttable, Between, Whole
  <2> QED
    BY <1>1, <2>1, ToldCuttable DEF Cuttable
<1>3. Talk!Front(m) = input
  <2>1. input \in Seq(Message) /\ Len(input) \in Nat /\ Len(m) - 1 = Len(input)
    BY <1>1, MessageTypes DEF Whole
  <2>2. /\ SubSeq(m, 1, Len(input)) \in Seq(Message) /\ Len(SubSeq(m, 1, Len(input))) = Len(input)
        /\ \A i \in 1 .. Len(input) : SubSeq(m, 1, Len(input))[i] = input[i]
    BY <1>1, <2>1, MessageTypes
  <2>3. SubSeq(m, 1, Len(input)) = input
    BY <2>1, <2>2, SeqEqual
  <2> QED
    BY <2>1, <2>3 DEF Talk!Front
<1> QED
  BY <1>1, <1>2, <1>3

LEMMA TalkStarts == ASSUME Talk!InitTalk PROVE TalkInv
<1>1. Cuttable(<<>>, 0)
  BY RepliesWhole DEF Cuttable, Between
<1> QED
  BY <1>1, RepliesWhole DEF Talk!InitTalk, Talk!Branch, TalkInv

LEMMA BoundaryStep ==
    ASSUME TalkInv,
           \/ Talk!TakePrompt \/ Talk!StopAtCap \/ Talk!AskModel
           \/ \E kind \in {"steering", "instruction", "notice"} : Talk!Hears(kind)
    PROVE  TalkInv'
<1>1. CASE Talk!TakePrompt
  <2>1. Cuttable(convo, lastGood) /\ Whole(sent) /\ Whole(snapshot) /\ opening \in Nat
    BY <1>1 DEF Talk!TakePrompt, TalkInv
  <2>2. Cuttable(convo', lastGood')
    BY <1>1, <2>1, ToldCuttable DEF Talk!TakePrompt
  <2>3. /\ turn' = "turn" /\ steering' = 0 /\ opening' = opening /\ sent' = sent
        /\ snapshot' = snapshot
        /\ before'.context = convo /\ before'.lastGood = lastGood /\ before'.opening = opening
    BY <1>1 DEF Talk!TakePrompt, Talk!Branch, Talk!sideVars
  <2> QED
    BY <2>1, <2>2, <2>3 DEF TalkInv
<1>2. CASE \E kind \in {"steering", "instruction", "notice"} : Talk!Hears(kind)
  <2>1. PICK kind \in {"steering", "instruction", "notice"} : Talk!Hears(kind)
    BY <1>2
  <2>2. Cuttable(convo, lastGood)
    BY <2>1 DEF Talk!Hears, TalkInv
  <2>3. Cuttable(convo', lastGood')
    BY <2>1, <2>2, ToldCuttable DEF Talk!Hears
  <2>4. /\ turn' = turn /\ turn = "turn" /\ opening' = opening /\ sent' = sent
        /\ snapshot' = snapshot /\ before' = before /\ (steering \in Nat => steering' \in Nat)
    BY <2>1 DEF Talk!Hears, Talk!sideVars
  <2> QED
    BY <2>3, <2>4 DEF TalkInv
<1>3. CASE Talk!StopAtCap
  BY <1>3 DEF Talk!StopAtCap, Talk!branchVars, Talk!promptVars, Talk!sideVars, TalkInv
<1>4. CASE Talk!AskModel
  BY <1>4 DEF Talk!AskModel, Talk!branchVars, Talk!promptVars, Talk!sideVars, TalkInv, Cuttable
<1> QED
  BY <1>1, <1>2, <1>3, <1>4

\* What a reply adds is whole by itself, or a call that now runs.
LEMMA KeepStep ==
    ASSUME TalkInv, NEW messages, NEW next \in {"idle", "turn", "tool"}, Talk!Keep(messages, next),
           IF next = "tool" THEN \E id \in Nat : messages = <<Talk!Said({id})>>
                            ELSE Whole(messages)
    PROVE  TalkInv'
<1>1. /\ Cuttable(convo, lastGood) /\ convo' = convo \o messages /\ lastGood' \in {lastGood, Len(convo)}
      /\ turn' = next /\ sent' = <<>> /\ opening' = opening /\ steering' = steering
      /\ before' = before /\ snapshot' = snapshot
  BY DEF Talk!Keep, Talk!promptVars, Talk!sideVars, TalkInv
<1>2. CASE next = "tool"
  <2>1. PICK id \in Nat : messages = <<Talk!Said({id})>>
    BY <1>2
  <2>2. Cuttable(convo, Len(convo))
    BY <1>1, RepliesWhole, JoinedCuttable
  <2>3. Cuttable(convo, lastGood')
    BY <1>1, <2>2
  <2>4. WithCall(convo', lastGood')
    BY <1>1, <2>1, <2>3 DEF WithCall
  <2> QED
    BY <1>1, <1>2, <2>4, RepliesWhole DEF TalkInv
<1>3. CASE next # "tool"
  <2>1. Cuttable(convo', lastGood')
    BY <1>1, <1>3, JoinedCuttable
  <2> QED
    BY <1>1, <1>3, <2>1, RepliesWhole DEF TalkInv
<1> QED
  BY <1>2, <1>3

LEMMA ReplyStep ==
    ASSUME TalkInv,
           \/ \E several \in BOOLEAN : Talk!RefuseCalls(several)
           \/ \E calls \in {{}} \union {{id} : id \in Talk!NewCalls} : Talk!StopAtBudget(calls)
           \/ \E next \in {"idle", "turn"} : Talk!Answer(next)
           \/ Talk!CallTool
    PROVE  TalkInv'
<1>0. \A id \in Talk!NewCalls : id \in Nat
  <2>1. Whole(convo) \/ WithCall(convo, lastGood)
    BY DEF TalkInv, Cuttable
  <2>2. Len(convo) \in Nat
    <3>1. CASE Whole(convo)
      BY <3>1 DEF Whole
    <3>2. CASE WithCall(convo, lastGood)
      <4>1. PICK front : \E id \in Nat :
               Cuttable(front, lastGood) /\ convo = front \o <<Talk!Said({id})>>
        BY <3>2 DEF WithCall
      <4>2. PICK id \in Nat : front \in Seq(Message) /\ convo = front \o <<Talk!Said({id})>>
        BY <4>1 DEF Cuttable, Whole
      <4>3. Talk!Said({id}) \in Message
        BY MessageTypes
      <4>4. convo \in Seq(Message)
        BY <4>2, <4>3
      <4> QED
        BY <4>4
    <3> QED
      BY <2>1, <3>1, <3>2
  <2> QED
    BY <2>2 DEF Talk!NewCalls
<1>1. ASSUME NEW several \in BOOLEAN, Talk!RefuseCalls(several) PROVE TalkInv'
  <2>1. PICK id \in Talk!NewCalls :
           Talk!Keep(IF several
                     THEN <<Talk!Said({id, id + 1}), Talk!ResultOf(id), Talk!ResultOf(id + 1)>>
                     ELSE <<Talk!Said({id}), Talk!ResultOf(id)>>, "turn")
    BY <1>1 DEF Talk!RefuseCalls
  <2>2. PICK messages : messages =
           IF several
           THEN <<Talk!Said({id, id + 1}), Talk!ResultOf(id), Talk!ResultOf(id + 1)>>
           ELSE <<Talk!Said({id}), Talk!ResultOf(id)>>
    OBVIOUS
  <2>3. Whole(messages)
    BY <1>0, <2>2, RepliesWhole
  <2>4. Talk!Keep(messages, "turn")
    BY <2>1, <2>2
  <2> QED
    BY <2>3, <2>4, KeepStep
<1>2. ASSUME NEW calls \in {{}} \union {{id} : id \in Talk!NewCalls}, Talk!StopAtBudget(calls)
      PROVE  TalkInv'
  <2>1. Talk!Keep(<<Talk!Said(calls)>>, "idle") /\ Limited
    BY <1>2 DEF Talk!StopAtBudget
  <2>2. Whole(<<Talk!Said(calls)>>)
    BY <1>0, <2>1, RepliesWhole
  <2> QED
    BY <2>1, <2>2, KeepStep
<1>3. ASSUME NEW next \in {"idle", "turn"}, Talk!Answer(next) PROVE TalkInv'
  <2>1. Talk!Keep(<<Talk!Said({})>>, next)
    BY <1>3 DEF Talk!Answer
  <2> QED
    BY <2>1, RepliesWhole, KeepStep
<1>4. ASSUME Talk!CallTool PROVE TalkInv'
  <2>1. PICK id \in Talk!NewCalls : Talk!Keep(<<Talk!Said({id})>>, "tool")
    BY <1>4 DEF Talk!CallTool
  <2> QED
    BY <1>0, <2>1, KeepStep
<1> QED
  BY <1>1, <1>2, <1>3, <1>4

LEMMA FinishStep == ASSUME TalkInv, NEW full \in BOOLEAN, Talk!Finish(full) PROVE TalkInv'
<1>1. /\ turn = "tool" /\ turn' \in {"full", "turn"} /\ opening' = opening /\ lastGood' = lastGood
      /\ steering' = steering /\ before' = before /\ sent' = sent /\ snapshot' = snapshot
      /\ \E c \in convo[Len(convo)].calls : convo' = Append(convo, Talk!ResultOf(c))
  BY DEF Talk!Finish, Talk!promptVars
<1>2. WithCall(convo, lastGood)
  BY <1>1 DEF TalkInv
<1>3. PICK front : \E id \in Nat :
         Cuttable(front, lastGood) /\ convo = front \o <<Talk!Said({id})>>
  BY <1>2 DEF WithCall
<1>4. PICK id \in Nat : Cuttable(front, lastGood) /\ convo = front \o <<Talk!Said({id})>>
  BY <1>3
<1>5. PICK said \in Message : said = Talk!Said({id}) /\ said.calls = {id}
  <2>1. {id} \in SUBSET Nat
    OBVIOUS
  <2>2. Talk!Said({id}) \in Message /\ Talk!Said({id}).calls = {id}
    BY <2>1, MessageTypes DEF Talk!Said
  <2> QED
    BY <2>2
<1>6. PICK result \in Message : result = Talk!ResultOf(id)
  BY MessageTypes
<1>7. front \in Seq(Message) /\ convo = front \o <<said>>
  BY <1>4, <1>5 DEF Cuttable, Whole
<1>8. convo[Len(convo)] = said
  BY <1>7
<1>9. convo' = Append(front \o <<said>>, result)
  BY <1>1, <1>5, <1>6, <1>7, <1>8
<1>10. Append(front \o <<said>>, result) = front \o <<said, result>>
  <2>1. front \o <<said>> \in Seq(Message) /\ <<said>> \in Seq(Message) /\ <<result>> \in Seq(Message)
    BY <1>7
  <2>2. Append(front \o <<said>>, result) = (front \o <<said>>) \o <<result>>
    BY <2>1, AppendIsConcat
  <2>3. (front \o <<said>>) \o <<result>> = front \o (<<said>> \o <<result>>)
    BY <1>7, <2>1, ConcatAssociative
  <2>4. <<said>> \o <<result>> = <<said, result>>
    <3>1. PICK one, two : one = <<said>> \o <<result>> /\ two = <<said, result>>
      OBVIOUS
    <3>2. one \in Seq(Message) /\ Len(one) = 2 /\ one[1] = said /\ one[2] = result
      BY <3>1
    <3>3. two \in Seq(Message) /\ Len(two) = 2 /\ two[1] = said /\ two[2] = result
      BY <3>1
    <3>4. \A i \in 1 .. Len(one) : one[i] = two[i]
      BY <3>2, <3>3
    <3> QED
      BY <3>1, <3>2, <3>3, <3>4, SeqEqual
  <2> QED
    BY <2>2, <2>3, <2>4
<1>11. Whole(<<said, result>>)
  BY <1>5, <1>6, RepliesWhole
<1>12. Cuttable(convo', lastGood')
  BY <1>1, <1>4, <1>9, <1>10, <1>11, JoinedCuttable
<1> QED
  BY <1>1, <1>12 DEF TalkInv

LEMMA RoomStep ==
    ASSUME TalkInv, Talk!NoRoom \/ Talk!NothingToCompact \/ Talk!StillNoRoom
    PROVE  TalkInv'
  BY RepliesWhole DEF Talk!NoRoom, Talk!NothingToCompact, Talk!StillNoRoom, Talk!branchVars,
     Talk!promptVars, Talk!sideVars, TalkInv

LEMMA SummaryStep ==
    ASSUME TalkInv,
           Talk!BeginSummary \/ Talk!AskShorter \/ Talk!AskSummaryAgain \/ Talk!NoSummary
    PROVE  TalkInv'
<1>1. CASE Talk!BeginSummary
  <2>1. Cuttable(convo, lastGood) /\ Whole(convo) /\ Between(convo, lastGood)
    BY <1>1 DEF Talk!BeginSummary, TalkInv, Cuttable
  <2>2. Asked(sent') /\ Whole(sent')
    <3>1. Asked(Append(convo, Talk!Told))
      BY <2>1 DEF Asked
    <3> QED
      BY <1>1, <3>1, AskedFront DEF Talk!BeginSummary
  <2>3. Whole(snapshot')
    BY <1>1, <2>1, FrontWhole DEF Talk!BeginSummary
  <2> QED
    BY <1>1, <2>1, <2>2, <2>3
    DEF Talk!BeginSummary, Talk!branchVars, Talk!promptVars, TalkInv
<1>2. CASE Talk!AskShorter
  <2>1. PICK s \in Talk!Shorter(Talk!Front(sent), snapshot) :
           sent' = Append(s.input, Talk!Told) /\ snapshot' = s.other
    BY <1>2 DEF Talk!AskShorter
  <2>2. Whole(Talk!Front(sent)) /\ Whole(snapshot)
    BY <1>2, AskedFront DEF Talk!AskShorter, TalkInv
  <2>3. \/ s.input \in Talk!Hollows(Talk!Front(sent)) /\ s.other = snapshot
        \/ s.input = snapshot /\ s.other = <<>>
    BY DEF Talk!Shorter
  <2>4. Whole(s.input) /\ Whole(s.other)
    BY <2>2, <2>3, HollowsWhole, RepliesWhole
  <2>5. Asked(sent') /\ Whole(sent')
    <3>1. Asked(Append(s.input, Talk!Told))
      BY <2>4 DEF Asked
    <3> QED
      BY <2>1, <3>1, AskedFront
  <2> QED
    BY <1>2, <2>1, <2>4, <2>5
    DEF Talk!AskShorter, Talk!branchVars, Talk!promptVars, TalkInv
<1>3. CASE Talk!AskSummaryAgain
  BY <1>3 DEF Talk!AskSummaryAgain, Talk!branchVars, Talk!promptVars, TalkInv
<1>4. CASE Talk!NoSummary
  BY <1>4, RepliesWhole DEF Talk!NoSummary, Talk!branchVars, Talk!promptVars, TalkInv
<1> QED
  BY <1>1, <1>2, <1>3, <1>4

LEMMA InstallStep == ASSUME TalkInv, Talk!InstallSummary PROVE TalkInv'
<1>1. PICK from \in Talk!Tails, prompt \in {<<>>, <<Talk!Told>>} :
         /\ convo' = prompt \o <<Talk!Told>> \o SubSeq(convo, from, Len(convo))
         /\ opening' = Len(prompt) + 2 /\ lastGood' = Len(convo')
  BY DEF Talk!InstallSummary
<1>2. Cuttable(convo, lastGood) /\ Whole(convo) /\ Len(convo) \in Nat /\ opening \in Nat
  BY DEF Talk!InstallSummary, TalkInv, Cuttable, Whole
<1>3. PICK n : from = n + 1 /\ Between(convo, n)
  <2>1. from = (from - 1) + 1 /\ from - 1 \in 0 .. Len(convo)
    BY <1>2 DEF Talk!Tails
  <2>2. from - 1 < Len(convo) => convo[from].role # "tool"
    BY <1>2 DEF Talk!Tails
  <2> QED
    BY <2>1, <2>2 DEF Between
<1>4. Whole(SubSeq(convo, from, Len(convo)))
  BY <1>2, <1>3, RestWhole
<1>5. Whole(prompt \o <<Talk!Told>>)
  BY RepliesWhole, JoinedWhole
<1>6. Cuttable(prompt \o <<Talk!Told>>, Len(prompt \o <<Talk!Told>>))
  BY <1>5 DEF Cuttable, Between, Whole
<1>7. Cuttable(convo', lastGood')
  BY <1>1, <1>4, <1>6, JoinedCuttable
<1>8. opening' \in Nat
  <2>1. Len(prompt) \in {0, 1}
    OBVIOUS
  <2> QED
    BY <1>1, <2>1
<1>9. /\ sent' \in {convo', <<>>} /\ turn' \in {"again", "turn"} /\ snapshot' = <<>>
      /\ steering' = steering /\ before' = before
  BY DEF Talk!InstallSummary, Talk!promptVars
<1> QED
  BY <1>7, <1>8, <1>9, RepliesWhole DEF TalkInv, Cuttable

LEMMA RollBackStep == ASSUME TalkInv, Talk!RollBack PROVE TalkInv'
<1>1. PICK added : added = [i \in 1 .. steering |-> Talk!Told]
  OBVIOUS
<1>2. /\ convo' = before.context \o added /\ lastGood' \in {before.lastGood, Len(convo')}
      /\ opening' = before.opening /\ turn' = "idle" /\ sent' = <<>> /\ snapshot' = <<>>
      /\ steering' = steering /\ before' = before
  BY <1>1 DEF Talk!RollBack, Talk!promptVars
<1>3. Whole(added)
  <2>1. steering \in Nat /\ Talk!Told \in Message /\ Talk!Told.role = "user"
    BY MessageTypes DEF TalkInv, Talk!Told
  <2>2. added \in Seq(Message) /\ Len(added) = steering
        /\ \A i \in 1 .. steering : added[i] = Talk!Told
    BY <1>1, <2>1
  <2> QED
    BY <2>1, <2>2, QuietWhole
<1>4. Cuttable(before.context, before.lastGood) /\ before.opening \in Nat /\ steering \in Nat
  BY DEF TalkInv
<1>5. Cuttable(convo', lastGood')
  BY <1>2, <1>3, <1>4, JoinedCuttable
<1> QED
  BY <1>2, <1>4, <1>5, RepliesWhole DEF TalkInv

LEMMA TalkStep == ASSUME TalkInv, Talk!NextTalk PROVE TalkInv'
  BY BoundaryStep, ReplyStep, FinishStep, RoomStep, SummaryStep, InstallStep, RollBackStep
  DEF Talk!NextTalk

LEMMA TalkIsWhole ==
    ASSUME TalkInv PROVE Talk!NoResultOrphaned /\ (~Limited => Talk!EveryCallAnswered)
<1>1. Sound(sent) /\ (~Limited => Complete(sent))
  BY DEF TalkInv, Whole
<1>2. Talk!NoResultOrphaned
  BY <1>1 DEF Sound, Backs, Talk!NoResultOrphaned, Talk!Answers
<1>3. ~Limited => Talk!EveryCallAnswered
  BY <1>1 DEF Complete, AnswersCall, Talk!EveryCallAnswered, Talk!Answers
<1> QED
  BY <1>2, <1>3

LEMMA TalkAlways ==
    /\ PartsInit => TalkInv
    /\ TalkInv /\ [PartsNext]_allVars => TalkInv'
<1>1. PartsInit => TalkInv
  BY TalkStarts DEF PartsInit
<1>2. TalkInv /\ UNCHANGED talksVars => TalkInv'
  BY DEF talksVars, TalkInv, Cuttable, WithCall, Asked
<1>3. TalkInv /\ [PartsNext]_allVars => TalkInv'
  BY <1>2, OnePartSteps, TalkStep
<1> QED
  BY <1>1, <1>3

\* NoResultOrphaned: whatever compactions drop, summaries leave out and rollbacks take
\* back, and however many tokens are left, no request has a tool result without its call
\* (engine.py:1000-1262, 1545-1857, compaction.py:238-286, staircase.py:156-175).
THEOREM NoResultWithoutCall == PartsSpec => []Talk!NoResultOrphaned
<1>1. TalkInv => Talk!NoResultOrphaned
  BY TalkIsWhole
<1> QED
  BY <1>1, TalkAlways, PTL DEF PartsSpec

\* RequestsAreWhole: as long as no token budget ends a prompt between a call and its
\* result, every request has each call with its results behind it as well.
THEOREM RequestsStayWhole == ASSUME ~Limited PROVE PartsSpec => []RequestsAreWhole
<1>1. TalkInv => RequestsAreWhole
  BY TalkIsWhole DEF RequestsAreWhole
<1> QED
  BY <1>1, TalkAlways, PTL DEF PartsSpec

-----------------------------------------------------------------------------
(***************************************************************************)
(* Subscriptions. What a handler changes is described by what it does to   *)
(* one subscription and by the event it posts about it, if any (OneTurn);  *)
(* what is said of each of the others stays (OtherSub). Reports and ends   *)
(* go over all of them, by induction.                                      *)
(***************************************************************************)

Statuses == {"active", "completed", "cancelled", "failed"}
Span == [start : Nat, end : Nat]
Sub == [kind : Kinds, status : Statuses, first : Nat, cursor : Nat, next : Int,
        pending : Span, timer : BOOLEAN, watch : BOOLEAN]
Posted == [sub : Nat, type : {"changes", "progress", "failed", "ended", "other"},
           start : Nat, end : Nat]
World == [subs : Seq(Sub), inbox : Seq(Posted)]

Lasting(s) == s.status \in {"active", "completed"}

\* The batches of a stream follow one another, and what was told of it is in them.
Streamed(w, i, s, known) ==
    /\ \A j, k \in Sent(w, i) : j < k => w.inbox[j].end <= w.inbox[k].start
    /\ \A k \in Sent(w, i) : w.inbox[k].end <= IF Has(s) THEN s.pending.start ELSE s.cursor
    /\ Has(s) => s.pending.start <= s.cursor /\ s.pending.end = s.cursor
    /\ \A n \in s.first + 1 .. s.cursor : (\E r \in known : Covers(r, n)) =>
          Covers(s.pending, n) \/ \E k \in Sent(w, i) : Covers(w.inbox[k], n)
    /\ s.cursor = s.first \/ \E r \in known : r.end = s.cursor
    /\ s.status = "active" => \A r \in known : r.end <= s.cursor
StreamOk(w, i, known) == Streamed(w, i, w.subs[i], known)

\* The slices of a progress subscription follow one another up to its cursor.
SlicesOk(w, i) ==
    /\ \A k \in Sent(w, i) : w.inbox[k].start = Reaches(w, i, k)
    /\ w.subs[i].cursor = Reaches(w, i, Len(w.inbox) + 1)

\* What is said of a subscription whoever its owner is.
Quiet(w, i, s, done) ==
    /\ s.status # "active" => ~Has(s) /\ ~s.timer
    /\ s.watch => s.kind = "path"
    /\ s.kind = "progress" => ~Has(s)
    /\ done /\ s.kind # "path" => s.status # "active"
    /\ \A j \in Sent(w, i) : w.inbox[j].type = "failed" => s.status = "failed"
    /\ \A j, k \in Sent(w, i) : j < k /\ w.inbox[j].type = "failed" => w.inbox[k].type = "failed"
    /\ \A k \in Sent(w, i), j \in DOMAIN w.inbox :
          j < k /\ w.inbox[j].type = "ended" => s.kind = "path"
QuietOk(w, i, done) == Quiet(w, i, w.subs[i], done)

SubOk(w, i, known, ours, done) ==
    /\ QuietOk(w, i, done)
    /\ ours /\ Lasting(w.subs[i]) /\ w.subs[i].kind = "stream" => StreamOk(w, i, known)
    /\ ours /\ Lasting(w.subs[i]) /\ w.subs[i].kind = "progress" => SlicesOk(w, i)

Streaming(w, i) == w.subs[i].status = "active" /\ w.subs[i].kind = "stream"

\* Of the streams under way the older have not been told more.
Level(w) == \A i, j \in DOMAIN w.subs :
    i < j /\ Streaming(w, i) /\ Streaming(w, j) => w.subs[i].cursor <= w.subs[j].cursor

Sane(w, known, ours, done, n) ==
    /\ w \in World /\ n \in Nat /\ Level(w)
    /\ \A i \in DOMAIN w.subs : SubOk(w, i, known, ours, done) /\ w.subs[i].cursor <= n
    /\ \A k \in DOMAIN w.inbox : /\ w.inbox[k].sub \in 0 .. Len(w.subs)
                                 /\ w.inbox[k].type = "ended" => done

SubsInv ==
    /\ Sane(Now, steps, owner, over, streamed)
    /\ owner \in BOOLEAN /\ over \in BOOLEAN
    /\ \A r \in steps : r \in Span /\ r.end <= streamed

-----------------------------------------------------------------------------
\* A set of places in a list has a last one.
LEMMA LastPlace ==
    ASSUME NEW n \in Nat, NEW P, P \subseteq 0 .. n, P # {}
    PROVE  \E m \in P : \A l \in P : l <= m
<1> DEFINE S == {k \in Nat : \A Q : Q \subseteq 0 .. k /\ Q # {} => \E m \in Q : \A l \in Q : l <= m}
<1>1. 0 \in S
  <2>1. ASSUME NEW Q, Q \subseteq 0 .. 0, Q # {} PROVE \E m \in Q : \A l \in Q : l <= m
    <3>1. PICK m \in Q : TRUE
      BY <2>1
    <3>2. \A l \in Q : l = 0
      BY <2>1
    <3> QED
      BY <3>1, <3>2
  <2> QED
    BY <2>1
<1>2. ASSUME NEW k \in Nat, k \in S PROVE k + 1 \in S
  <2> SUFFICES ASSUME NEW Q, Q \subseteq 0 .. k + 1, Q # {}
               PROVE  \E m \in Q : \A l \in Q : l <= m
    OBVIOUS
  <2>1. CASE k + 1 \in Q
    BY <2>1
  <2>2. CASE k + 1 \notin Q
    <3>1. Q \subseteq 0 .. k
      BY <2>2
    <3> QED
      BY <1>2, <3>1
  <2> QED
    BY <2>1, <2>2
<1> HIDE DEF S
<1>3. n \in S
  BY <1>1, <1>2, Induction
<1> QED
  BY <1>3 DEF S

LEMMA WorldParts ==
    ASSUME NEW w \in World
    PROVE  /\ w.subs \in Seq(Sub) /\ w.inbox \in Seq(Posted)
           /\ Len(w.subs) \in Nat /\ DOMAIN w.subs = 1 .. Len(w.subs)
           /\ Len(w.inbox) \in Nat /\ DOMAIN w.inbox = 1 .. Len(w.inbox)
           /\ \A i \in DOMAIN w.subs : w.subs[i] \in Sub
           /\ \A k \in DOMAIN w.inbox : w.inbox[k] \in Posted
           /\ w = [subs |-> w.subs, inbox |-> w.inbox]
<1>1. w.subs \in Seq(Sub) /\ w.inbox \in Seq(Posted) /\ w = [subs |-> w.subs, inbox |-> w.inbox]
  BY DEF World
<1> QED
  BY <1>1, LenProperties, ElementOfSeq

\* Where the last event before one ended does not change when events follow.
LEMMA SameReach ==
    ASSUME NEW w \in World, NEW v, NEW i, NEW k \in Nat, k <= Len(w.inbox) + 1,
           v.subs[i].first = w.subs[i].first, Earlier(v, i, k) = Earlier(w, i, k),
           \A l \in 1 .. Len(w.inbox) : v.inbox[l] = w.inbox[l]
    PROVE  Reaches(v, i, k) = Reaches(w, i, k)
<1>1. CASE Earlier(w, i, k) = {}
  BY <1>1 DEF Reaches
<1>2. CASE Earlier(w, i, k) # {}
  <2> DEFINE P == Earlier(w, i, k)
             m == CHOOSE j \in P : \A l \in P : l <= j
  <2>1. Len(w.inbox) \in Nat /\ P \subseteq 1 .. Len(w.inbox) /\ P \subseteq 0 .. Len(w.inbox)
    BY WorldParts DEF Earlier, Sent
  <2>2. m \in P
    BY <1>2, <2>1, LastPlace
  <2>3. v.inbox[m] = w.inbox[m]
    BY <2>1, <2>2
  <2>4. Reaches(w, i, k) = w.inbox[m].end /\ Reaches(v, i, k) = v.inbox[m].end
    BY <1>2 DEF Reaches
  <2> QED
    BY <2>3, <2>4
<1> QED
  BY <1>1, <1>2

\* What another event changes of the events of a subscription.
More(w, v, i, e, top) ==
    /\ top \in Nat /\ DOMAIN w.inbox = 1 .. top /\ DOMAIN v.inbox = 1 .. top + 1
    /\ Len(v.inbox) = top + 1
    /\ \A k \in 1 .. top : v.inbox[k] = w.inbox[k]
    /\ v.inbox[top + 1] = e
    /\ Sent(w, i) \subseteq 1 .. top
    /\ \A k : k \in Sent(v, i) <=> k \in Sent(w, i) \/ (k = top + 1 /\ e.sub = i)
    /\ \A k \in 1 .. top + 1 : Reaches(v, i, k) = Reaches(w, i, k)
    /\ Reaches(v, i, top + 2) = IF e.sub = i THEN e.end ELSE Reaches(w, i, top + 1)

LEMMA Grown ==
    ASSUME NEW w \in World, NEW v \in World, NEW e \in Posted, v.inbox = Append(w.inbox, e),
           NEW i, v.subs[i].first = w.subs[i].first, NEW top, top = Len(w.inbox)
    PROVE  More(w, v, i, e, top)
<1>1. /\ top \in Nat /\ DOMAIN w.inbox = 1 .. top /\ w.inbox \in Seq(Posted)
      /\ v.inbox \in Seq(Posted) /\ Len(v.inbox) = top + 1 /\ DOMAIN v.inbox = 1 .. top + 1
      /\ \A k \in 1 .. top : v.inbox[k] = w.inbox[k]
      /\ v.inbox[top + 1] = e
  BY WorldParts, AppendProperties
<1>2. \A k : k \in 1 .. top + 1 <=> k \in 1 .. top \/ k = top + 1
  BY <1>1
<1>3. top + 1 \notin 1 .. top
  BY <1>1
<1>4. Sent(w, i) \subseteq 1 .. top
  BY <1>1 DEF Sent
<1>5. \A k : k \in Sent(v, i) <=> k \in Sent(w, i) \/ (k = top + 1 /\ e.sub = i)
  BY <1>1, <1>2, <1>3 DEF Sent
<1>6. ASSUME NEW k \in 1 .. top + 1 PROVE Reaches(v, i, k) = Reaches(w, i, k)
  <2>1. ~(top + 1 < k) /\ k \in Nat /\ k <= Len(w.inbox) + 1
    BY <1>1
  <2>2. Earlier(v, i, k) = Earlier(w, i, k)
    BY <1>5, <2>1 DEF Earlier
  <2> QED
    BY <1>1, <2>1, <2>2, SameReach
<1>7. CASE e.sub = i
  <2> DEFINE P == Earlier(v, i, top + 2)
  <2>1. top + 1 \in P
    BY <1>1, <1>5, <1>7 DEF Earlier
  <2>2. P \subseteq 1 .. top + 1
    BY <1>1 DEF Earlier, Sent
  <2>3. \A l \in P : l <= top + 1
    BY <1>1, <2>2
  <2>4. ASSUME NEW j \in P, \A l \in P : l <= j PROVE j = top + 1
    <3>1. top + 1 <= j /\ j <= top + 1
      BY <2>1, <2>3, <2>4
    <3> QED
      BY <1>1, <2>2, <2>4, <3>1
  <2> HIDE DEF P
  <2>5. (CHOOSE j \in P : \A l \in P : l <= j) = top + 1
    BY <2>1, <2>3, <2>4
  <2>6. Reaches(v, i, top + 2) = v.inbox[CHOOSE j \in P : \A l \in P : l <= j].end
    BY <2>1 DEF Reaches, P
  <2> QED
    BY <1>1, <1>4, <1>5, <1>6, <1>7, <2>5, <2>6 DEF More
<1>8. CASE e.sub # i
  <2>1. ASSUME NEW k PROVE k \in Sent(w, i) => k < top + 2 /\ k < top + 1
    BY <1>1, <1>4
  <2>2. Earlier(v, i, top + 2) = Earlier(w, i, top + 1)
    BY <1>5, <1>8, <2>1 DEF Earlier
  <2>3. Earlier(v, i, top + 1) = Earlier(w, i, top + 1)
    BY <1>5, <1>8 DEF Earlier
  <2>4. Reaches(v, i, top + 2) = Reaches(v, i, top + 1)
    <3> DEFINE P == Earlier(v, i, top + 2)
               Q == Earlier(v, i, top + 1)
    <3>1. P = Q
      BY <2>2, <2>3
    <3>2. /\ Reaches(v, i, top + 2) = IF P = {} THEN v.subs[i].first
                                        ELSE v.inbox[CHOOSE j \in P : \A l \in P : l <= j].end
          /\ Reaches(v, i, top + 1) = IF Q = {} THEN v.subs[i].first
                                        ELSE v.inbox[CHOOSE j \in Q : \A l \in Q : l <= j].end
      BY DEF Reaches
    <3> HIDE DEF P, Q
    <3> QED
      BY <3>1, <3>2
  <2>5. top + 1 \in 1 .. top + 1
    BY <1>1
  <2>6. Reaches(v, i, top + 1) = Reaches(w, i, top + 1)
    BY <1>6, <2>5
  <2> QED
    BY <1>1, <1>4, <1>5, <1>6, <1>8, <2>4, <2>6 DEF More
<1> QED
  BY <1>7, <1>8

\* A step about one subscription: what becomes of the others' events.
LEMMA OtherSub ==
    ASSUME NEW w \in World, NEW v \in World, NEW j, v.subs[j] = w.subs[j],
           NEW known, NEW ours \in BOOLEAN, NEW done, SubOk(w, j, known, ours, done),
           \/ v.inbox = w.inbox
           \/ \E e \in Posted : e.sub # j /\ v.inbox = Append(w.inbox, e)
    PROVE  SubOk(v, j, known, ours, done)
<1> DEFINE top == Len(w.inbox)
<1>1. /\ top \in Nat /\ DOMAIN w.inbox = 1 .. top /\ Sent(v, j) = Sent(w, j)
      /\ Sent(w, j) \subseteq 1 .. top
      /\ \A k \in 1 .. top : v.inbox[k] = w.inbox[k] /\ k \in DOMAIN v.inbox
      /\ \A k \in 1 .. top : Reaches(v, j, k) = Reaches(w, j, k)
      /\ Reaches(v, j, Len(v.inbox) + 1) = Reaches(w, j, top + 1)
  <2>1. CASE v.inbox = w.inbox
    <3>1. /\ top \in Nat /\ DOMAIN w.inbox = 1 .. top /\ Sent(v, j) = Sent(w, j)
          /\ Sent(w, j) \subseteq 1 .. top
      BY <2>1, WorldParts DEF Sent
    <3>2. \A k : Earlier(v, j, k) = Earlier(w, j, k)
      BY <3>1 DEF Earlier
    <3>3. \A k \in 1 .. top + 1 : Reaches(v, j, k) = Reaches(w, j, k)
      BY <2>1, <3>1, <3>2, SameReach
    <3> HIDE DEF top
    <3>4. top + 1 \in 1 .. top + 1 /\ \A k \in 1 .. top : k \in 1 .. top + 1
      BY <3>1
    <3>5. Len(v.inbox) = top
      BY <2>1 DEF top
    <3> QED
      BY <2>1, <3>1, <3>3, <3>4, <3>5
  <2>2. CASE v.inbox # w.inbox
    <3>1. PICK e \in Posted : e.sub # j /\ v.inbox = Append(w.inbox, e)
      BY <2>2
    <3>2. More(w, v, j, e, top)
      <4>1. v.subs[j].first = w.subs[j].first /\ top = Len(w.inbox)
        OBVIOUS
      <4> HIDE DEF top
      <4> QED
        BY <3>1, <4>1, Grown
    <3> HIDE DEF top
    <3>3. (top + 1) + 1 = top + 2 /\ \A k \in 1 .. top : k \in 1 .. top + 1
      BY <3>2 DEF More
    <3>4. Sent(v, j) = Sent(w, j)
      BY <3>1, <3>2 DEF More
    <3> QED
      BY <3>1, <3>2, <3>3, <3>4 DEF More
  <2> QED
    BY <2>1, <2>2
<1> HIDE DEF top
<1>2. ASSUME NEW k \in Sent(w, j), NEW l \in DOMAIN v.inbox, l < k PROVE l \in 1 .. top
  <2>1. l \in Nat /\ 1 <= l
    BY WorldParts
  <2> QED
    BY <1>1, <1>2, <2>1
<1>3. QuietOk(v, j, done)
  BY <1>1, <1>2, SMTT(30) DEF SubOk, QuietOk, Quiet
<1>4. StreamOk(w, j, known) => StreamOk(v, j, known)
  BY <1>1 DEF StreamOk, Streamed
<1>5. SlicesOk(w, j) => SlicesOk(v, j)
  BY <1>1 DEF SlicesOk, top
<1> QED
  BY <1>3, <1>4, <1>5 DEF SubOk, Lasting

\* What a handler's turn changes: subscription i, and an event about it.
Turn(w, v, i) ==
    /\ v \in World /\ Len(v.subs) = Len(w.subs)
    /\ \A j \in DOMAIN w.subs : j # i => v.subs[j] = w.subs[j]
    /\ v.subs[i].kind = w.subs[i].kind
    /\ v.subs[i].status = "active" => w.subs[i].status = "active"
    /\ v.subs[i].kind = "stream" => v.subs[i].cursor = w.subs[i].cursor
    /\ \/ v.inbox = w.inbox
       \/ \E e \in Posted : e.sub = i /\ e.type # "ended" /\ v.inbox = Append(w.inbox, e)

LEMMA OneTurn ==
    ASSUME NEW known, NEW ours \in BOOLEAN, NEW done, NEW n, NEW w, NEW v,
           Sane(w, known, ours, done, n), NEW i \in DOMAIN w.subs, Turn(w, v, i),
           SubOk(v, i, known, ours, done), v.subs[i].cursor <= n
    PROVE  Sane(v, known, ours, done, n)
<1>1. w \in World /\ v \in World /\ n \in Nat
  BY DEF Sane, Turn
<1>2. DOMAIN v.subs = DOMAIN w.subs /\ Len(v.subs) = Len(w.subs)
  BY <1>1, WorldParts DEF Turn
<1>3. ASSUME NEW j \in DOMAIN v.subs PROVE SubOk(v, j, known, ours, done) /\ v.subs[j].cursor <= n
  <2>1. CASE j = i
    BY <2>1
  <2>2. CASE j # i
    <3>1. /\ v.subs[j] = w.subs[j]
          /\ SubOk(w, j, known, ours, done) /\ w.subs[j].cursor <= n
      BY <1>2, <2>2 DEF Turn, Sane
    <3>2. \/ v.inbox = w.inbox
          \/ \E e \in Posted : e.sub # j /\ v.inbox = Append(w.inbox, e)
      BY <2>2 DEF Turn
    <3>3. SubOk(v, j, known, ours, done)
      BY <1>1, <3>1, <3>2, OtherSub
    <3> QED
      BY <3>1, <3>3
  <2> QED
    BY <2>1, <2>2
<1>4. Level(v)
  BY <1>2 DEF Level, Sane, Turn, Streaming
<1>5. ASSUME NEW k \in DOMAIN v.inbox
      PROVE  v.inbox[k].sub \in 0 .. Len(v.subs) /\ (v.inbox[k].type = "ended" => done)
  <2>1. CASE v.inbox = w.inbox
    BY <1>2, <2>1 DEF Sane
  <2>2. CASE v.inbox # w.inbox
    <3>1. PICK e \in Posted : e.sub = i /\ e.type # "ended" /\ v.inbox = Append(w.inbox, e)
      BY <2>2 DEF Turn
    <3>2. PICK top : top = Len(w.inbox)
      OBVIOUS
    <3>3. /\ w.inbox \in Seq(Posted) /\ top \in Nat /\ DOMAIN w.inbox = 1 .. top
          /\ DOMAIN v.inbox = 1 .. top + 1
          /\ (\A l \in 1 .. top : v.inbox[l] = w.inbox[l]) /\ v.inbox[top + 1] = e
      BY <1>1, <3>1, <3>2, WorldParts, AppendProperties
    <3>4. i \in 0 .. Len(v.subs)
      BY <1>1, <1>2, WorldParts
    <3>5. CASE k \in 1 .. top
      BY <1>2, <3>3, <3>5 DEF Sane
    <3>6. CASE k = top + 1
      BY <3>1, <3>3, <3>4, <3>6
    <3> QED
      BY <3>3, <3>5, <3>6
  <2> QED
    BY <2>1, <2>2
<1> QED
  BY <1>1, <1>3, <1>4, <1>5 DEF Sane

Put(w, i, s) == [subs |-> [w.subs EXCEPT ![i] = s], inbox |-> w.inbox]
Say(w, i, s, e) == [subs |-> [w.subs EXCEPT ![i] = s], inbox |-> Append(w.inbox, e)]

LEMMA Puts ==
    ASSUME NEW w \in World, NEW i \in DOMAIN w.subs, NEW s \in Sub
    PROVE  /\ Put(w, i, s) \in World /\ Len(Put(w, i, s).subs) = Len(w.subs)
           /\ Put(w, i, s).subs[i] = s /\ Put(w, i, s).inbox = w.inbox
           /\ \A j \in DOMAIN w.subs : j # i => Put(w, i, s).subs[j] = w.subs[j]
<1>1. w.subs \in Seq(Sub) /\ w.inbox \in Seq(Posted)
  BY WorldParts
<1> PICK next : next = [w.subs EXCEPT ![i] = s]
  OBVIOUS
<1>2. next \in Seq(Sub) /\ Len(next) = Len(w.subs)
  BY <1>1, ExceptSeq
<1>3. next[i] = s /\ \A j \in DOMAIN w.subs : j # i => next[j] = w.subs[j]
  OBVIOUS
<1>4. Put(w, i, s) = [subs |-> next, inbox |-> w.inbox]
  BY DEF Put
<1> QED
  BY <1>1, <1>2, <1>3, <1>4 DEF World

\* The same for a state known to be the one after the entry was put.
LEMMA PutThere ==
    ASSUME NEW w \in World, NEW i \in DOMAIN w.subs, NEW s \in Sub, NEW v, v = Put(w, i, s)
    PROVE  /\ v \in World /\ Len(v.subs) = Len(w.subs) /\ v.subs[i] = s /\ v.inbox = w.inbox
           /\ \A j \in DOMAIN w.subs : j # i => v.subs[j] = w.subs[j]
BY Puts

LEMMA Says ==
    ASSUME NEW w \in World, NEW i \in DOMAIN w.subs, NEW s \in Sub, NEW e \in Posted
    PROVE  /\ Say(w, i, s, e) \in World /\ Len(Say(w, i, s, e).subs) = Len(w.subs)
           /\ Say(w, i, s, e).subs[i] = s /\ Say(w, i, s, e).inbox = Append(w.inbox, e)
           /\ \A j \in DOMAIN w.subs : j # i => Say(w, i, s, e).subs[j] = w.subs[j]
<1>1. /\ Put(w, i, s).subs \in Seq(Sub) /\ Put(w, i, s).subs = [w.subs EXCEPT ![i] = s]
      /\ w.inbox \in Seq(Posted)
  BY Puts, WorldParts DEF Put
<1>2. Append(w.inbox, e) \in Seq(Posted)
  BY <1>1, AppendProperties
<1>3. Say(w, i, s, e) = [subs |-> Put(w, i, s).subs, inbox |-> Append(w.inbox, e)]
  BY <1>1 DEF Say
<1> QED
  BY <1>1, <1>2, <1>3, Puts DEF World

\* A turn that posts nothing.
Stays(was, s, ours) ==
    /\ s.kind = was.kind /\ s.first = was.first
    /\ s.cursor = was.cursor \/ (~ours /\ s.kind = "progress")
    /\ s.watch => was.watch
    /\ s.status # "active" => ~Has(s) /\ ~s.timer
    /\ s.status = "active" => was.status = "active"
    /\ was.status = "failed" => s.status = "failed"
    /\ s.kind = "progress" => ~Has(s)
    /\ ours /\ Lasting(s) => Lasting(was) /\ (s.pending = was.pending \/ s.kind = "path")

LEMMA Silent ==
    ASSUME NEW known, NEW ours \in BOOLEAN, NEW done, NEW n, NEW w, Sane(w, known, ours, done, n),
           NEW i \in DOMAIN w.subs, NEW s \in Sub,
           Stays(w.subs[i], s, ours), s.cursor <= n
    PROVE  Sane(Put(w, i, s), known, ours, done, n)
<1> USE DEF Stays
<1> PICK v : v = Put(w, i, s)
  OBVIOUS
<1>1. w \in World /\ SubOk(w, i, known, ours, done)
  BY DEF Sane
<1>2. /\ v \in World /\ Len(v.subs) = Len(w.subs) /\ v.subs[i] = s /\ v.inbox = w.inbox
      /\ \A j \in DOMAIN w.subs : j # i => v.subs[j] = w.subs[j]
  BY <1>1, Puts
<1>3. Turn(w, v, i)
  BY <1>2 DEF Turn
<1>4. Sent(v, i) = Sent(w, i) /\ DOMAIN w.inbox = 1 .. Len(w.inbox) /\ Len(w.inbox) \in Nat
  BY <1>1, <1>2, WorldParts DEF Sent
<1>5. \A k \in 1 .. Len(w.inbox) + 1 : Reaches(v, i, k) = Reaches(w, i, k)
  <2>1. \A k : Earlier(v, i, k) = Earlier(w, i, k)
    BY <1>4 DEF Earlier
  <2> QED
    BY <1>1, <1>2, <1>4, <2>1, SameReach
<1>6. QuietOk(v, i, done)
  BY <1>1, <1>2, <1>4 DEF SubOk, QuietOk, Quiet
<1>7. ours /\ Lasting(s) /\ s.kind = "stream" => StreamOk(v, i, known)
  BY <1>1, <1>2, <1>4 DEF SubOk, StreamOk, Streamed, Lasting, Has
<1>8. ours /\ Lasting(s) /\ s.kind = "progress" => SlicesOk(v, i)
  <2>1. \A k \in Sent(w, i) : k \in 1 .. Len(w.inbox) + 1
    BY <1>4 DEF Sent
  <2>2. Len(w.inbox) + 1 \in 1 .. Len(w.inbox) + 1
    BY <1>4
  <2> QED
    BY <1>1, <1>2, <1>4, <1>5, <2>1, <2>2 DEF SubOk, SlicesOk
<1>9. SubOk(v, i, known, ours, done)
  BY <1>2, <1>6, <1>7, <1>8 DEF SubOk
<1>10. Sane(v, known, ours, done, n)
  BY <1>2, <1>3, <1>9, OneTurn
<1> QED
  BY <1>10

\* A turn that posts an event.
LEMMA Spoken ==
    ASSUME NEW known, NEW done, NEW n, NEW w, Sane(w, known, TRUE, done, n),
           NEW i \in DOMAIN w.subs, NEW s \in Sub, NEW e \in Posted,
           e.sub = i, e.type \in {"changes", "progress", "failed"},
           s.kind = w.subs[i].kind, s.first = w.subs[i].first, s.cursor <= n,
           s.cursor = w.subs[i].cursor \/ s.kind = "progress",
           s.watch => w.subs[i].watch, ~Has(s),
           s.status # "active" => ~s.timer,
           s.status = "active" => w.subs[i].status = "active",
           s.kind = "path" \/ ~done,
           IF e.type = "failed" THEN s.status = "failed"
           ELSE /\ w.subs[i].status = "active"
                /\ s.kind = "stream" => /\ Has(w.subs[i])
                                        /\ e.start = w.subs[i].pending.start
                                        /\ e.end = w.subs[i].pending.end
                /\ s.kind = "progress" => e.start = w.subs[i].cursor /\ e.end = s.cursor
    PROVE  Sane(Say(w, i, s, e), known, TRUE, done, n)
<1> PICK v : v = Say(w, i, s, e)
  OBVIOUS
<1> PICK top : top = Len(w.inbox)
  OBVIOUS
<1>1. /\ w \in World /\ SubOk(w, i, known, TRUE, done)
      /\ \A k \in DOMAIN w.inbox : w.inbox[k].type = "ended" => done
  BY DEF Sane
<1>2. /\ v \in World /\ Len(v.subs) = Len(w.subs) /\ v.subs[i] = s
      /\ v.inbox = Append(w.inbox, e)
      /\ \A j \in DOMAIN w.subs : j # i => v.subs[j] = w.subs[j]
  BY <1>1, Says
<1>3. Turn(w, v, i)
  BY <1>2 DEF Turn
<1>4. /\ top \in Nat /\ DOMAIN w.inbox = 1 .. top /\ DOMAIN v.inbox = 1 .. top + 1
      /\ Len(v.inbox) = top + 1
      /\ \A k \in 1 .. top : v.inbox[k] = w.inbox[k]
      /\ v.inbox[top + 1] = e
      /\ Sent(w, i) \subseteq 1 .. top
      /\ \A k : k \in Sent(v, i) <=> k \in Sent(w, i) \/ (k = top + 1 /\ e.sub = i)
      /\ \A k \in 1 .. top + 1 : Reaches(v, i, k) = Reaches(w, i, k)
      /\ Reaches(v, i, top + 2) = IF e.sub = i THEN e.end ELSE Reaches(w, i, top + 1)
  <2>1. v.subs[i].first = w.subs[i].first
    BY <1>2
  <2>2. More(w, v, i, e, top)
    BY <1>1, <1>2, <2>1, Grown
  <2> QED
    BY <2>2 DEF More
<1>5. /\ \A k : k \in Sent(v, i) <=> k \in Sent(w, i) \/ k = top + 1
      /\ \A k \in Sent(w, i) : k \in 1 .. top /\ k < top + 1 /\ k \in Nat /\ v.inbox[k] = w.inbox[k]
  BY <1>4
<1>6. QuietOk(v, i, done)
  <2>1. \A j \in Sent(v, i) : v.inbox[j].type = "failed" => s.status = "failed"
    <3>1. w.subs[i].status = "failed" => s.status = "failed"
      OBVIOUS
    <3> QED
      BY <1>1, <1>4, <1>5, <3>1 DEF SubOk, QuietOk, Quiet
  <2>2. ASSUME NEW j \in Sent(v, i), NEW k \in Sent(v, i), j < k, v.inbox[j].type = "failed"
        PROVE  v.inbox[k].type = "failed"
    <3>1. CASE k = top + 1
      <4>1. j \in Sent(w, i)
        BY <1>4, <1>5, <2>2, <3>1
      <4>2. w.subs[i].status = "failed"
        BY <1>1, <1>5, <2>2, <4>1 DEF SubOk, QuietOk, Quiet
      <4> QED
        BY <1>4, <3>1, <4>2
    <3>2. CASE k # top + 1
      <4>1. k \in Sent(w, i) /\ j \in Sent(w, i)
        BY <1>4, <1>5, <2>2, <3>2
      <4> QED
        BY <1>1, <1>5, <2>2, <4>1 DEF SubOk, QuietOk, Quiet
    <3> QED
      BY <3>1, <3>2
  <2>3. ASSUME NEW k \in Sent(v, i), NEW j \in DOMAIN v.inbox, j < k, v.inbox[j].type = "ended"
        PROVE  s.kind = "path"
    <3>1. j \in 1 .. top
      BY <1>4, <1>5, <2>3
    <3>2. w.inbox[j].type = "ended"
      BY <1>4, <2>3, <3>1
    <3> QED
      BY <1>1, <1>4, <3>1, <3>2
  <2>4. /\ s.watch => s.kind = "path"
        /\ done /\ s.kind # "path" => s.status # "active"
    BY <1>1 DEF SubOk, QuietOk, Quiet
  <2>5. /\ s.status # "active" => ~Has(s) /\ ~s.timer
        /\ s.kind = "progress" => ~Has(s)
    OBVIOUS
  <2>6. Quiet(v, i, s, done)
    BY <2>1, <2>2, <2>3, <2>4, <2>5, ZenonT(40) DEF Quiet
  <2> QED
    BY <1>2, <2>6 DEF QuietOk
<1>7. ASSUME Lasting(s), s.kind = "stream" PROVE StreamOk(v, i, known)
  <2>1. /\ e.type # "failed" /\ w.subs[i].status = "active" /\ Has(w.subs[i])
        /\ e.start = w.subs[i].pending.start /\ e.end = w.subs[i].pending.end
        /\ s.cursor = w.subs[i].cursor
    BY <1>7 DEF Lasting
  <2>2. StreamOk(w, i, known)
    BY <1>1, <1>7, <2>1 DEF SubOk, Lasting
  <2>3. e.start <= s.cursor /\ e.end = s.cursor
    BY <2>1, <2>2 DEF StreamOk, Streamed
  <2>4. \A j, k \in Sent(v, i) : j < k => v.inbox[j].end <= v.inbox[k].start
    <3> SUFFICES ASSUME NEW j \in Sent(v, i), NEW k \in Sent(v, i), j < k
                 PROVE  v.inbox[j].end <= v.inbox[k].start
      OBVIOUS
    <3>1. j \in Sent(w, i)
      BY <1>4, <1>5
    <3>2. CASE k = top + 1
      BY <1>4, <1>5, <2>1, <2>2, <3>1, <3>2 DEF StreamOk, Streamed
    <3>3. CASE k # top + 1
      <4>1. k \in Sent(w, i)
        BY <1>5, <3>3
      <4> QED
        BY <1>5, <2>2, <3>1, <4>1 DEF StreamOk, Streamed
    <3> QED
      BY <3>2, <3>3
  <2>5. ASSUME NEW k \in Sent(v, i) PROVE v.inbox[k].end <= s.cursor
    <3>1. CASE k = top + 1
      BY <1>4, <2>3, <3>1 DEF Sub
    <3>2. CASE k # top + 1
      <4>1. k \in Sent(w, i) /\ k \in 1 .. top
        BY <1>5, <3>2
      <4>2. w.inbox[k] \in Posted /\ w.subs[i] \in Sub
        BY <1>1, <1>4, <4>1, WorldParts
      <4>3. w.inbox[k].end <= w.subs[i].pending.start /\ w.subs[i].pending.start <= s.cursor
        BY <2>1, <2>2, <4>1 DEF StreamOk, Streamed
      <4>4. w.inbox[k].end \in Nat /\ w.subs[i].pending.start \in Nat /\ s.cursor \in Nat
        BY <4>2 DEF Posted, Sub, Span
      <4> QED
        BY <1>5, <4>1, <4>3, <4>4
    <3> QED
      BY <3>1, <3>2
  <2>6. ASSUME NEW m \in s.first + 1 .. s.cursor, \E r \in known : Covers(r, m)
        PROVE  \E k \in Sent(v, i) : Covers(v.inbox[k], m)
    <3>1. Covers(w.subs[i].pending, m) \/ \E k \in Sent(w, i) : Covers(w.inbox[k], m)
      BY <2>1, <2>2, <2>6 DEF StreamOk, Streamed
    <3>2. CASE Covers(w.subs[i].pending, m)
      <4>1. Covers(v.inbox[top + 1], m)
        BY <1>4, <2>1, <3>2 DEF Covers
      <4> QED
        BY <1>5, <4>1
    <3>3. CASE \E k \in Sent(w, i) : Covers(w.inbox[k], m)
      BY <1>5, <3>3
    <3> QED
      BY <3>1, <3>2, <3>3
  <2>7. /\ \A r \in known : r.end <= s.cursor
        /\ s.cursor = s.first \/ \E r \in known : r.end = s.cursor
    BY <2>1, <2>2 DEF StreamOk, Streamed
  <2>8. Streamed(v, i, s, known)
    BY <2>4, <2>5, <2>6, <2>7 DEF Streamed
  <2> QED
    BY <1>2, <2>8 DEF StreamOk
<1>8. ASSUME Lasting(s), s.kind = "progress" PROVE SlicesOk(v, i)
  <2>1. /\ e.type # "failed" /\ w.subs[i].status = "active"
        /\ e.start = w.subs[i].cursor /\ e.end = s.cursor
    BY <1>8 DEF Lasting
  <2>2. SlicesOk(w, i)
    BY <1>1, <1>8, <2>1 DEF SubOk, Lasting
  <2>3. ASSUME NEW k \in Sent(v, i) PROVE v.inbox[k].start = Reaches(v, i, k)
    <3>1. k \in 1 .. top + 1 /\ top + 1 \in 1 .. top + 1
      BY <1>4, <1>5
    <3>2. CASE k = top + 1
      <4>1. Reaches(v, i, k) = w.subs[i].cursor
        BY <1>4, <2>2, <3>1, <3>2 DEF SlicesOk
      <4> QED
        BY <1>4, <2>1, <3>2, <4>1
    <3>3. CASE k # top + 1
      <4>1. k \in Sent(w, i)
        BY <1>5, <3>3
      <4> QED
        BY <1>4, <1>5, <2>2, <3>1, <4>1 DEF SlicesOk
    <3> QED
      BY <3>2, <3>3
  <2>4. (top + 1) + 1 = top + 2
    BY <1>4
  <2>5. s.cursor = Reaches(v, i, Len(v.inbox) + 1)
    BY <1>4, <2>1, <2>4
  <2> QED
    BY <1>2, <2>3, <2>5 DEF SlicesOk
<1>9. SubOk(v, i, known, TRUE, done)
  BY <1>2, <1>6, <1>7, <1>8 DEF SubOk
<1>10. Sane(v, known, TRUE, done, n)
  BY <1>2, <1>3, <1>9, OneTurn
<1> QED
  BY <1>10

-----------------------------------------------------------------------------
\* The handlers, as turns.
Failed(s) == [s EXCEPT !.pending = NoRange, !.status = "failed", !.timer = FALSE]

\* What else a turn changes.
Only(w, v, i) ==
    /\ v \in World /\ Len(v.subs) = Len(w.subs) /\ DOMAIN v.subs = DOMAIN w.subs
    /\ \A j \in DOMAIN w.subs : v.subs[j].kind = w.subs[j].kind
    /\ \A j \in DOMAIN w.subs : j # i => v.subs[j] = w.subs[j]

LEMMA OnlyOne ==
    ASSUME NEW w \in World, NEW v \in World, NEW i, Len(v.subs) = Len(w.subs),
           v.subs[i].kind = w.subs[i].kind,
           \A j \in DOMAIN w.subs : j # i => v.subs[j] = w.subs[j]
    PROVE  Only(w, v, i)
  BY WorldParts DEF Only

LEMMA OnlyTwice ==
    ASSUME NEW w, NEW x, NEW v, NEW i, Only(w, x, i), Only(x, v, i)
    PROVE  Only(w, v, i)
  BY DEF Only

LEMMA OnlyNone ==
    ASSUME NEW w \in World, NEW i
    PROVE  Only(w, w, i)
  BY OnlyOne

LEMMA Spelled ==
    ASSUME NEW w \in World, NEW i \in DOMAIN w.subs, NEW s
    PROVE  [w EXCEPT !.subs[i] = s] = Put(w, i, s)
<1>1. w = [subs |-> w.subs, inbox |-> w.inbox]
  BY WorldParts
<1> QED
  BY <1>1 DEF Put

LEMMA SameWorld ==
    ASSUME NEW w \in World, NEW i \in DOMAIN w.subs
    PROVE  Put(w, i, w.subs[i]) = w
<1>1. w.subs \in [1 .. Len(w.subs) -> Sub] /\ w = [subs |-> w.subs, inbox |-> w.inbox]
  BY WorldParts, LenProperties
<1>2. [w.subs EXCEPT ![i] = w.subs[i]] = w.subs
  BY <1>1
<1> QED
  BY <1>1, <1>2 DEF Put

LEMMA PutTwice ==
    ASSUME NEW w \in World, NEW i \in DOMAIN w.subs, NEW s, NEW t
    PROVE  Put(Put(w, i, s), i, t) = Put(w, i, t)
<1>1. w.subs \in [1 .. Len(w.subs) -> Sub]
  BY WorldParts, LenProperties
<1>2. [[w.subs EXCEPT ![i] = s] EXCEPT ![i] = t] = [w.subs EXCEPT ![i] = t]
  BY <1>1
<1> QED
  BY <1>2 DEF Put

LEMMA InboxPut ==
    ASSUME NEW x, NEW more, x = [subs |-> x.subs, inbox |-> x.inbox]
    PROVE  [x EXCEPT !.inbox = more] = [subs |-> x.subs, inbox |-> more]
OBVIOUS

LEMMA InboxGrows ==
    ASSUME NEW x, NEW e, x = [subs |-> x.subs, inbox |-> x.inbox]
    PROVE  [x EXCEPT !.inbox = Append(@, e)] = [subs |-> x.subs, inbox |-> Append(x.inbox, e)]
<1> PICK more : more = Append(x.inbox, e)
  OBVIOUS
<1>1. [x EXCEPT !.inbox = more] = [subs |-> x.subs, inbox |-> more]
  BY InboxPut
<1> QED
  BY <1>1, Zenon

LEMMA PutSay ==
    ASSUME NEW w, NEW i, NEW s, NEW e
    PROVE  [Put(w, i, s) EXCEPT !.inbox = Append(@, e)] = Say(w, i, s, e)
<1> PICK x : x = Put(w, i, s)
  OBVIOUS
<1>1. x = [subs |-> x.subs, inbox |-> x.inbox]
  BY DEF Put
<1>2. [x EXCEPT !.inbox = Append(@, e)] = [subs |-> x.subs, inbox |-> Append(x.inbox, e)]
  BY <1>1, InboxGrows
<1>3. Say(w, i, s, e) = [subs |-> x.subs, inbox |-> Append(x.inbox, e)]
  BY DEF Put, Say
<1> QED
  BY <1>2, <1>3

LEMMA Posts ==
    ASSUME NEW w \in World, NEW i \in DOMAIN w.subs, NEW s \in Sub, NEW type, NEW t
    PROVE  Post(Put(w, i, s), i, type, t) =
              IF owner THEN Say(w, i, s, Event(i, type, t)) ELSE Put(w, i, s)
<1> PICK e : e = Event(i, type, t)
  OBVIOUS
<1>1. Post(Put(w, i, s), i, type, t) = IF owner THEN [Put(w, i, s) EXCEPT !.inbox = Append(@, e)] ELSE Put(w, i, s)
  BY DEF Post
<1>2. [Put(w, i, s) EXCEPT !.inbox = Append(@, e)] = Say(w, i, s, e)
  BY PutSay
<1> QED
  BY <1>1, <1>2, Zenon

LEMMA Fails ==
    ASSUME NEW w \in World, NEW i \in DOMAIN w.subs, NEW s \in Sub
    PROVE  /\ Failed(s) \in Sub
           /\ Fail(Put(w, i, s), i) = IF owner THEN Say(w, i, Failed(s), Event(i, "failed", Failed(s)))
                                     ELSE Put(w, i, Failed(s))
<1>1. Put(w, i, s) \in World /\ i \in DOMAIN Put(w, i, s).subs /\ Put(w, i, s).subs[i] = s
  BY Puts, WorldParts
<1>2. Failed(s) \in Sub
  BY DEF Failed, Sub, Span, Statuses, NoRange
<1>3. [Emptied(s) EXCEPT !.status = "failed", !.timer = FALSE] = Failed(s)
  BY DEF Emptied, Failed, Sub
<1> PICK t : t = Failed(s)
  OBVIOUS
<1>4. [Put(w, i, s) EXCEPT !.subs[i] = t] = Put(w, i, t)
  <2> PICK x : x = Put(w, i, s)
    OBVIOUS
  <2>1. x \in World /\ i \in DOMAIN x.subs /\ t \in Sub
    BY <1>1, <1>2
  <2>2. [x EXCEPT !.subs[i] = t] = Put(x, i, t)
    BY <2>1, Spelled
  <2>3. Put(x, i, t) = Put(w, i, t)
    BY PutTwice
  <2> QED
    BY <2>2, <2>3
<1>5. Fail(Put(w, i, s), i) = Post([Put(w, i, s) EXCEPT !.subs[i] = t], i, "failed", t)
  BY <1>1, <1>3 DEF Fail
<1>6. Fail(Put(w, i, s), i) = IF owner THEN Say(w, i, t, Event(i, "failed", t)) ELSE Put(w, i, t)
  BY <1>2, <1>4, <1>5, Posts
<1> QED
  BY <1>2, <1>6

LEMMA EventIs ==
    ASSUME NEW i \in Nat, NEW type \in {"changes", "progress", "failed"}, NEW t, t.pending \in Span
    PROVE  /\ Event(i, type, t) \in Posted /\ Event(i, type, t).sub = i
           /\ Event(i, type, t).type = type /\ Event(i, type, t).start = t.pending.start
           /\ Event(i, type, t).end = t.pending.end
BY DEF Event, Posted, Span

\* A subscription that fails, in the middle of a turn or at its start.
LEMMA FailOk ==
    ASSUME owner \in BOOLEAN, NEW known, NEW done, NEW n, NEW w, Sane(w, known, owner, done, n),
           NEW i \in DOMAIN w.subs, w.subs[i].kind = "path" \/ w.subs[i].status = "active",
           NEW s \in Sub, s.kind = w.subs[i].kind, s.first = w.subs[i].first, s.cursor <= n,
           s.cursor = w.subs[i].cursor \/ s.kind = "progress", s.watch => w.subs[i].watch
    PROVE  /\ Sane(Fail(Put(w, i, s), i), known, owner, done, n)
           /\ Only(w, Fail(Put(w, i, s), i), i)
           /\ Fail(Put(w, i, s), i).subs[i] = Failed(s)
<1> PICK t : t = Failed(s)
  OBVIOUS
<1> PICK e : e = Event(i, "failed", t)
  OBVIOUS
<1> PICK v : v = Fail(Put(w, i, s), i)
  OBVIOUS
<1>1. w \in World /\ SubOk(w, i, known, owner, done) /\ i \in Nat
  <2>1. w \in World /\ SubOk(w, i, known, owner, done)
    BY DEF Sane
  <2> QED
    BY <2>1, WorldParts
<1>2. t \in Sub /\ v = IF owner THEN Say(w, i, t, e) ELSE Put(w, i, t)
  BY <1>1, Fails
<1>3. /\ t.kind = s.kind /\ t.first = s.first /\ t.cursor = s.cursor /\ t.watch = s.watch
      /\ t.status = "failed" /\ ~t.timer /\ ~Has(t) /\ t.pending \in Span
  BY <1>2 DEF Failed, Sub, Has
<1>4. e \in Posted /\ e.sub = i /\ e.type = "failed"
  BY <1>1, <1>3, EventIs
<1>5. t.kind = "path" \/ ~done
  BY <1>1, <1>3 DEF SubOk, QuietOk, Quiet
<1>6. Sane(v, known, owner, done, n)
  <2>1. CASE owner
    <3>1. owner = TRUE
      BY <2>1
    <3>2. Sane(w, known, TRUE, done, n)
      BY <3>1
    <3>3. Sane(Say(w, i, t, e), known, TRUE, done, n)
      BY <1>2, <1>3, <1>4, <1>5, <3>2, Spoken
    <3> QED
      BY <1>2, <3>1, <3>3
  <2>2. CASE ~owner
    <3>1. owner = FALSE /\ Sane(w, known, FALSE, done, n)
      BY <2>2
    <3>2. Stays(w.subs[i], t, FALSE) /\ t.cursor <= n
      BY <1>3 DEF Stays
    <3>3. Sane(Put(w, i, t), known, FALSE, done, n)
      BY <1>2, <3>1, <3>2, Silent
    <3> QED
      BY <1>2, <3>1, <3>3
  <2> QED
    BY <2>1, <2>2
<1>7. Only(w, v, i) /\ v.subs[i] = t
  <2>1. /\ v \in World /\ Len(v.subs) = Len(w.subs) /\ v.subs[i] = t
        /\ \A j \in DOMAIN w.subs : j # i => v.subs[j] = w.subs[j]
    <3>1. CASE owner
      BY <1>1, <1>2, <1>4, <3>1, Says
    <3>2. CASE ~owner
      BY <1>1, <1>2, <3>2, Puts
    <3> QED
      BY <3>1, <3>2
  <2> QED
    BY <1>1, <1>3, <2>1, OnlyOne
<1> QED
  BY <1>6, <1>7

\* What is published comes of a subscription under way.
Tells(was, s, t) ==
    /\ was.status = "active" /\ s.status = "active" /\ ~Has(s)
    /\ s.kind = was.kind /\ s.first = was.first
    /\ s.cursor = was.cursor \/ s.kind = "progress"
    /\ s.watch => was.watch
    /\ t.pending \in Span
    /\ s.kind = "stream" => Has(was) /\ t.pending = was.pending
    /\ s.kind = "progress" => t.pending = [start |-> was.cursor, end |-> s.cursor]

LEMMA PublishOk ==
    ASSUME owner \in BOOLEAN, NEW known, NEW done, NEW n, NEW w, Sane(w, known, owner, done, n),
           NEW i \in DOMAIN w.subs, NEW s \in Sub, s.cursor <= n,
           NEW type \in {"changes", "progress"}, NEW t, Tells(w.subs[i], s, t)
    PROVE  /\ Sane(Publish(Put(w, i, s), i, type, t), known, owner, done, n)
           /\ Only(w, Publish(Put(w, i, s), i, type, t), i)
           /\ \/ Publish(Put(w, i, s), i, type, t).subs[i] = s
              \/ Publish(Put(w, i, s), i, type, t).subs[i] = Failed(s)
<1> PICK e : e = Event(i, type, t)
  OBVIOUS
<1> PICK v : v = Publish(Put(w, i, s), i, type, t)
  OBVIOUS
<1> USE DEF Tells
<1>1. w \in World /\ SubOk(w, i, known, owner, done) /\ i \in Nat
  <2>1. w \in World /\ SubOk(w, i, known, owner, done)
    BY DEF Sane
  <2> QED
    BY <2>1, WorldParts
<1>2. CASE v = Fail(Put(w, i, s), i)
  BY <1>2, FailOk
<1>3. CASE v # Fail(Put(w, i, s), i)
  <2>1. v = IF owner THEN Say(w, i, s, e) ELSE Put(w, i, s)
    BY <1>1, <1>3, Posts DEF Publish
  <2>2. /\ e \in Posted /\ e.sub = i /\ e.type = type
        /\ e.start = t.pending.start /\ e.end = t.pending.end
    BY <1>1, EventIs
  <2>3. s.kind = "path" \/ ~done
    BY <1>1 DEF SubOk, QuietOk, Quiet
  <2>4. Sane(v, known, owner, done, n)
    <3>1. CASE owner
      <4>1. owner = TRUE
        BY <3>1
      <4>2. Sane(w, known, TRUE, done, n)
        BY <4>1
      <4>3. s.kind = "progress" => e.start = w.subs[i].cursor /\ e.end = s.cursor
        BY <2>2
      <4>4. s.kind = "stream" => /\ Has(w.subs[i]) /\ e.start = w.subs[i].pending.start
                                 /\ e.end = w.subs[i].pending.end
        BY <2>2
      <4>5. Sane(Say(w, i, s, e), known, TRUE, done, n)
        BY <2>2, <2>3, <4>2, <4>3, <4>4, Spoken, ZenonT(40)
      <4> QED
        BY <2>1, <4>1, <4>5
    <3>2. CASE ~owner
      <4>1. owner = FALSE /\ Sane(w, known, FALSE, done, n)
        BY <3>2
      <4>2. Stays(w.subs[i], s, FALSE)
        BY DEF Stays
      <4>3. Sane(Put(w, i, s), known, FALSE, done, n)
        BY <4>1, <4>2, Silent
      <4> QED
        BY <2>1, <4>1, <4>3
    <3> QED
      BY <3>1, <3>2
  <2>5. Only(w, v, i) /\ v.subs[i] = s
    <3>1. /\ v \in World /\ Len(v.subs) = Len(w.subs) /\ v.subs[i] = s
          /\ \A j \in DOMAIN w.subs : j # i => v.subs[j] = w.subs[j]
      <4>1. CASE owner
        BY <1>1, <2>1, <2>2, <4>1, Says
      <4>2. CASE ~owner
        BY <1>1, <2>1, <4>2, Puts
      <4> QED
        BY <4>1, <4>2
    <3> QED
      BY <1>1, <3>1, OnlyOne DEF Tells
  <2> QED
    BY <2>4, <2>5
<1> QED
  BY <1>2, <1>3

\* A batch goes out, or there is none.
LEMMA FlushOk ==
    ASSUME owner \in BOOLEAN, NEW known, NEW done, NEW n, NEW w, Sane(w, known, owner, done, n),
           NEW i \in DOMAIN w.subs
    PROVE  /\ Sane(Flush(w, i), known, owner, done, n)
           /\ Only(w, Flush(w, i), i)
           /\ ~Flush(w, i).subs[i].timer
           /\ Active(Flush(w, i), i) => ~Has(Flush(w, i).subs[i])
           /\ Active(Flush(w, i), i) => Active(w, i)
<1> PICK v : v = Flush(w, i)
  OBVIOUS
<1> PICK s : s = w.subs[i]
  OBVIOUS
<1>t. PICK t : t = [s EXCEPT !.timer = FALSE]
  OBVIOUS
<1>u. PICK u : u = [t EXCEPT !.pending = NoRange]
  OBVIOUS
<1>1. w \in World /\ SubOk(w, i, known, owner, done) /\ s \in Sub /\ s.cursor <= n /\ i \in Nat
  <2>1. w \in World /\ SubOk(w, i, known, owner, done) /\ w.subs[i].cursor <= n
    BY DEF Sane
  <2> QED
    BY <2>1, WorldParts
<1>2. /\ t \in Sub /\ t.kind = s.kind /\ t.status = s.status /\ t.first = s.first
      /\ t.cursor = s.cursor /\ t.pending = s.pending /\ t.watch = s.watch /\ ~t.timer
      /\ (Has(t) <=> Has(s))
  BY <1>1, <1>t DEF Sub, Has
<1>3. /\ u \in Sub /\ u.kind = s.kind /\ u.status = s.status /\ u.first = s.first
      /\ u.cursor = s.cursor /\ ~Has(u) /\ u.watch = s.watch /\ ~u.timer
  BY <1>2, <1>u DEF Sub, Has, NoRange, Span
<1>4. [w EXCEPT !.subs[i].timer = FALSE] = Put(w, i, t)
  <2>1. [w EXCEPT !.subs[i] = t] = Put(w, i, t)
    BY <1>1, Spelled
  <2>2. t = [w.subs[i] EXCEPT !.timer = FALSE]
    BY <1>t
  <2> QED
    BY <2>1, <2>2, Zenon
<1>5. CASE ~Active(w, i) \/ ~Has(s)
  <2>1. v = Put(w, i, t)
    BY <1>4, <1>5 DEF Flush
  <2>2. Stays(s, t, owner)
    <3>1. /\ s.status # "active" => ~Has(s)
          /\ s.kind = "progress" => ~Has(s)
      BY <1>1 DEF SubOk, QuietOk, Quiet
    <3> QED
      BY <1>2, <3>1 DEF Stays, Lasting
  <2>3. Sane(v, known, owner, done, n)
    BY <1>1, <1>2, <2>1, <2>2, Silent
  <2>4. /\ v \in World /\ Len(v.subs) = Len(w.subs) /\ v.subs[i] = t
        /\ \A j \in DOMAIN w.subs : j # i => v.subs[j] = w.subs[j]
    BY <1>1, <1>2, <2>1, Puts
  <2>5. Only(w, v, i)
    BY <1>1, <1>2, <2>4, OnlyOne
  <2> QED
    BY <1>2, <1>5, <2>3, <2>4, <2>5 DEF Active
<1>6. CASE Active(w, i) /\ Has(s)
  <2>1. [Put(w, i, t) EXCEPT !.subs[i] = Emptied(@)] = Put(w, i, u)
    <3> PICK x : x = Put(w, i, t)
      OBVIOUS
    <3>1. x \in World /\ i \in DOMAIN x.subs /\ x.subs[i] = t
      BY <1>1, <1>2, Puts, WorldParts
    <3>2. [x EXCEPT !.subs[i] = u] = Put(x, i, u)
      BY <3>1, Spelled
    <3>3. Put(x, i, u) = Put(w, i, u)
      BY <1>1, PutTwice
    <3>4. Emptied(x.subs[i]) = u
      BY <1>u, <3>1 DEF Emptied
    <3> QED
      BY <3>2, <3>3, <3>4
  <2>2. v = Publish(Put(w, i, u), i, "changes", s)
    BY <1>4, <1>6, <2>1 DEF Flush
  <2>3. s.status = "active"
    BY <1>6 DEF Active
  <2>4. u.kind # "progress"
    BY <1>1, <1>3, <1>6 DEF SubOk, QuietOk, Quiet
  <2>5. s.pending \in Span
    BY <1>1 DEF Sub
  <2>6. /\ Sane(v, known, owner, done, n) /\ Only(w, v, i)
        /\ v.subs[i] = u \/ v.subs[i] = Failed(u)
    <3>1. Tells(s, u, s) /\ u.cursor <= n
      BY <1>1, <1>3, <1>6, <2>3, <2>4, <2>5 DEF Tells
    <3> QED
      BY <1>3, <2>2, <3>1, PublishOk
  <2>7. ~Failed(u).timer /\ Failed(u).status = "failed"
    BY <1>3 DEF Failed, Sub
  <2> QED
    BY <1>3, <1>6, <2>6, <2>7 DEF Active
<1> QED
  BY <1>5, <1>6

\* A progress slice goes out when a threshold was reached.
LEMMA ReachOk ==
    ASSUME owner \in BOOLEAN, NEW known, NEW done, NEW n, NEW w, Sane(w, known, owner, done, n),
           NEW i \in DOMAIN w.subs, NEW end \in Nat, end <= n
    PROVE  Sane(Reach(w, i, end), known, owner, done, n) /\ Only(w, Reach(w, i, end), i)
<1> PICK v : v = Reach(w, i, end)
  OBVIOUS
<1> PICK s : s = w.subs[i]
  OBVIOUS
<1>t. PICK t : t = [s EXCEPT !.cursor = end, !.next = (end \div Every + 1) * Every]
  OBVIOUS
<1>s. PICK slice : slice = [s EXCEPT !.pending = [start |-> s.cursor, end |-> end]]
  OBVIOUS
<1>1. w \in World /\ SubOk(w, i, known, owner, done) /\ s \in Sub /\ i \in Nat
  <2>1. w \in World /\ SubOk(w, i, known, owner, done)
    BY DEF Sane
  <2> QED
    BY <2>1, WorldParts
<1>2. CASE ~Active(w, i) \/ s.kind # "progress" \/ end < s.next
  <2>1. v = w
    BY <1>2 DEF Reach
  <2>2. Only(w, w, i)
    BY <1>1, OnlyNone
  <2> QED
    BY <2>1, <2>2
<1>3. CASE Active(w, i) /\ s.kind = "progress" /\ ~(end < s.next)
  <2>1. (end \div Every + 1) * Every \in Int
    BY SubscriptionConstants
  <2>2. /\ t \in Sub /\ t.kind = s.kind /\ t.status = s.status /\ t.first = s.first
        /\ t.cursor = end /\ t.pending = s.pending /\ t.watch = s.watch
    BY <1>1, <1>t, <2>1 DEF Sub
  <2>3. ~Has(t) /\ t.status = "active"
    BY <1>1, <1>3, <2>2 DEF SubOk, QuietOk, Quiet, Has, Active
  <2>4. slice.pending = [start |-> s.cursor, end |-> end] /\ slice.pending \in Span
    BY <1>1, <1>s DEF Sub, Span
  <2>5. v = Publish(Put(w, i, t), i, "progress", slice)
    <3>1. [w EXCEPT !.subs[i] = t] = Put(w, i, t)
      BY <1>1, Spelled
    <3> QED
      BY <1>3, <1>s, <1>t, <3>1 DEF Reach
  <2>6. Sane(v, known, owner, done, n) /\ Only(w, v, i)
    <3>1. Tells(s, t, slice) /\ t.cursor <= n
      BY <1>3, <2>2, <2>3, <2>4 DEF Tells, Active
    <3> QED
      BY <2>2, <2>5, <3>1, PublishOk
  <2> QED
    BY <2>6
<1> QED
  BY <1>2, <1>3

\* A subscription whose stream has ended is over.
LEMMA FinishOk ==
    ASSUME owner \in BOOLEAN, NEW known, NEW done, NEW n, NEW w, Sane(w, known, owner, done, n),
           NEW i \in DOMAIN w.subs
    PROVE  /\ Sane(FinishOne(w, i), known, owner, done, n) /\ Only(w, FinishOne(w, i), i)
           /\ w.subs[i].kind # "path" => ~Active(FinishOne(w, i), i)
<1> PICK v : v = FinishOne(w, i)
  OBVIOUS
<1> PICK x : x = Flush(w, i)
  OBVIOUS
<1>1. w \in World
  BY DEF Sane
<1>2. CASE ~Active(w, i) \/ w.subs[i].kind = "path"
  <2>1. v = w
    BY <1>2 DEF FinishOne
  <2>2. Only(w, w, i)
    BY <1>1, OnlyNone
  <2> QED
    BY <1>2, <2>1, <2>2
<1>3. CASE Active(w, i) /\ w.subs[i].kind # "path"
  <2>1. /\ Sane(x, known, owner, done, n) /\ Only(w, x, i) /\ ~x.subs[i].timer
        /\ Active(x, i) => ~Has(x.subs[i])
    BY FlushOk
  <2>2. CASE ~Active(x, i)
    <3>1. v = x
      BY <1>3, <2>2 DEF FinishOne
    <3> QED
      BY <2>1, <2>2, <3>1
  <2>3. CASE Active(x, i)
    <3> PICK s : s = x.subs[i]
      OBVIOUS
    <3>t. PICK t : t = [s EXCEPT !.status = "completed"]
      OBVIOUS
    <3>1. x \in World /\ i \in DOMAIN x.subs /\ s \in Sub /\ s.cursor <= n /\ QuietOk(x, i, done)
      <4>1. x \in World /\ i \in DOMAIN x.subs
        BY <2>1 DEF Only
      <4>2. s \in Sub
        BY <4>1, WorldParts
      <4> QED
        BY <2>1, <4>1, <4>2 DEF Sane, SubOk
    <3>2. /\ t \in Sub /\ t.kind = s.kind /\ t.status = "completed" /\ t.first = s.first
          /\ t.cursor = s.cursor /\ t.pending = s.pending /\ t.watch = s.watch /\ t.timer = s.timer
      BY <3>1, <3>t DEF Sub, Statuses
    <3>3. v = Put(x, i, t)
      <4>1. [x EXCEPT !.subs[i] = t] = Put(x, i, t)
        BY <3>1, Spelled
      <4>2. [x EXCEPT !.subs[i].status = "completed"] = Put(x, i, t)
        <5>1. t = [x.subs[i] EXCEPT !.status = "completed"]
          BY <3>t
        <5> QED
          BY <4>1, <5>1, Zenon
      <4> QED
        BY <1>3, <2>3, <4>2 DEF FinishOne
    <3>4. s.status = "active" /\ ~Has(s) /\ ~Has(t) /\ ~s.timer
      BY <2>1, <2>3, <3>2 DEF Active, Has
    <3>5. Stays(s, t, owner) /\ t.cursor <= n
      BY <3>1, <3>2, <3>4 DEF Stays, Lasting
    <3>6. Sane(v, known, owner, done, n)
      BY <2>1, <3>1, <3>2, <3>3, <3>5, Silent
    <3>7. /\ v \in World /\ Len(v.subs) = Len(x.subs) /\ v.subs[i] = t
          /\ \A j \in DOMAIN x.subs : j # i => v.subs[j] = x.subs[j]
      BY <3>1, <3>2, <3>3, Puts
    <3>8. Only(w, v, i)
      <4>1. Only(x, v, i)
        BY <3>1, <3>2, <3>7, OnlyOne
      <4> QED
        BY <2>1, <4>1, OnlyTwice
    <3> QED
      BY <3>2, <3>6, <3>7, <3>8 DEF Active
  <2> QED
    BY <2>2, <2>3
<1> QED
  BY <1>2, <1>3

-----------------------------------------------------------------------------
\* The loops over all subscriptions, each as a recursive function.
LEMMA ReachedDefined ==
    ASSUME NEW w, NEW end, Len(w.subs) \in Nat
    PROVE  \A k \in 0 .. Len(w.subs) :
              Reached(w, end)[k] = IF k = 0 THEN w ELSE Reach(Reached(w, end)[k - 1], k, end)
<1> DEFINE Follows(g, m) == g = [k \in 0 .. m |-> IF k = 0 THEN w ELSE Reach(g[k - 1], k, end)]
           S == {m \in Nat : \E f : Follows(f, m)}
<1>1. 0 \in S
  <2> DEFINE one == [k \in 0 .. 0 |-> w]
  <2>1. Follows(one, 0)
    OBVIOUS
  <2> QED
    BY <2>1
<1>2. ASSUME NEW m \in Nat, m \in S PROVE m + 1 \in S
  <2>1. PICK f : Follows(f, m)
    BY <1>2
  <2> DEFINE more == [k \in 0 .. m + 1 |-> IF k = m + 1 THEN Reach(f[m], m + 1, end) ELSE f[k]]
             next == [k \in 0 .. m + 1 |-> IF k = 0 THEN w ELSE Reach(more[k - 1], k, end)]
  <2>2. ASSUME NEW k \in 0 .. m + 1 PROVE more[k] = next[k]
    <3>1. CASE k = m + 1
      <4>1. more[k] = Reach(f[m], m + 1, end)
        BY <3>1
      <4>2. k # 0 /\ k - 1 = m /\ m \in 0 .. m + 1 /\ m # m + 1
        BY <3>1
      <4>3. next[k] = Reach(more[m], m + 1, end) /\ more[m] = f[m]
        BY <3>1, <4>2
      <4> QED
        BY <4>1, <4>3
    <3>2. CASE k = 0
      <4>1. 0 # m + 1 /\ 0 \in 0 .. m /\ 0 \in 0 .. m + 1
        OBVIOUS
      <4>2. f[0] = w
        BY <2>1, <4>1
      <4> QED
        BY <3>2, <4>1, <4>2
    <3>3. CASE k # 0 /\ k # m + 1
      <4>1. k \in 0 .. m /\ k - 1 \in 0 .. m + 1 /\ k - 1 # m + 1
        BY <3>3
      <4>2. f[k] = Reach(f[k - 1], k, end)
        BY <2>1, <3>3, <4>1
      <4>3. more[k] = f[k] /\ more[k - 1] = f[k - 1]
        BY <3>3, <4>1
      <4>4. next[k] = Reach(more[k - 1], k, end)
        BY <3>3
      <4> QED
        BY <4>2, <4>3, <4>4
    <3> QED
      BY <3>1, <3>2, <3>3
  <2>3. more = next
    BY <2>2
  <2>4. Follows(more, m + 1)
    BY <2>3
  <2> HIDE DEF more, next, Follows
  <2>5. \E g : Follows(g, m + 1)
    BY <2>4
  <2> QED
    BY <2>5
<1>3. Len(w.subs) \in S
  BY <1>1, <1>2, Induction
<1> HIDE DEF S
<1>4. PICK f : Follows(f, Len(w.subs))
  BY <1>3 DEF S
<1>5. Follows(Reached(w, end), Len(w.subs))
  BY <1>4 DEF Reached
<1> HIDE DEF Follows
<1>6. \A h : Follows(h, Len(w.subs)) => \A k \in 0 .. Len(w.subs) :
         h[k] = IF k = 0 THEN w ELSE Reach(h[k - 1], k, end)
  BY DEF Follows
<1> QED
  BY <1>5, <1>6

LEMMA FinishedDefined ==
    ASSUME NEW w, Len(w.subs) \in Nat
    PROVE  \A k \in 0 .. Len(w.subs) :
              Finished(w)[k] = IF k = 0 THEN w ELSE FinishOne(Finished(w)[k - 1], k)
<1> DEFINE Follows(g, m) == g = [k \in 0 .. m |-> IF k = 0 THEN w ELSE FinishOne(g[k - 1], k)]
           S == {m \in Nat : \E f : Follows(f, m)}
<1>1. 0 \in S
  <2> DEFINE one == [k \in 0 .. 0 |-> w]
  <2>1. Follows(one, 0)
    OBVIOUS
  <2> QED
    BY <2>1
<1>2. ASSUME NEW m \in Nat, m \in S PROVE m + 1 \in S
  <2>1. PICK f : Follows(f, m)
    BY <1>2
  <2> DEFINE more == [k \in 0 .. m + 1 |-> IF k = m + 1 THEN FinishOne(f[m], m + 1) ELSE f[k]]
             next == [k \in 0 .. m + 1 |-> IF k = 0 THEN w ELSE FinishOne(more[k - 1], k)]
  <2>2. ASSUME NEW k \in 0 .. m + 1 PROVE more[k] = next[k]
    <3>1. CASE k = m + 1
      <4>1. more[k] = FinishOne(f[m], m + 1)
        BY <3>1
      <4>2. k # 0 /\ k - 1 = m /\ m \in 0 .. m + 1 /\ m # m + 1
        BY <3>1
      <4>3. next[k] = FinishOne(more[m], m + 1) /\ more[m] = f[m]
        BY <3>1, <4>2
      <4> QED
        BY <4>1, <4>3
    <3>2. CASE k = 0
      <4>1. 0 # m + 1 /\ 0 \in 0 .. m /\ 0 \in 0 .. m + 1
        OBVIOUS
      <4>2. f[0] = w
        BY <2>1, <4>1
      <4> QED
        BY <3>2, <4>1, <4>2
    <3>3. CASE k # 0 /\ k # m + 1
      <4>1. k \in 0 .. m /\ k - 1 \in 0 .. m + 1 /\ k - 1 # m + 1
        BY <3>3
      <4>2. f[k] = FinishOne(f[k - 1], k)
        BY <2>1, <3>3, <4>1
      <4>3. more[k] = f[k] /\ more[k - 1] = f[k - 1]
        BY <3>3, <4>1
      <4>4. next[k] = FinishOne(more[k - 1], k)
        BY <3>3
      <4> QED
        BY <4>2, <4>3, <4>4
    <3> QED
      BY <3>1, <3>2, <3>3
  <2>3. more = next
    BY <2>2
  <2>4. Follows(more, m + 1)
    BY <2>3
  <2> HIDE DEF more, next, Follows
  <2>5. \E g : Follows(g, m + 1)
    BY <2>4
  <2> QED
    BY <2>5
<1>3. Len(w.subs) \in S
  BY <1>1, <1>2, Induction
<1> HIDE DEF S
<1>4. PICK f : Follows(f, Len(w.subs))
  BY <1>3 DEF S
<1>5. Follows(Finished(w), Len(w.subs))
  BY <1>4 DEF Finished
<1> HIDE DEF Follows
<1>6. \A h : Follows(h, Len(w.subs)) => \A k \in 0 .. Len(w.subs) :
         h[k] = IF k = 0 THEN w ELSE FinishOne(h[k - 1], k)
  BY DEF Follows
<1> QED
  BY <1>5, <1>6

LEMMA BatchedDefined ==
    ASSUME NEW w, NEW begin, NEW end, Len(w.subs) \in Nat
    PROVE  \A k \in 0 .. Len(w.subs) :
              Batched(w, begin, end)[k] = IF k = 0 THEN w ELSE ReportOne(w, Batched(w, begin, end)[k - 1], k, begin, end)
<1> DEFINE Follows(g, m) == g = [k \in 0 .. m |-> IF k = 0 THEN w ELSE ReportOne(w, g[k - 1], k, begin, end)]
           S == {m \in Nat : \E f : Follows(f, m)}
<1>1. 0 \in S
  <2> DEFINE one == [k \in 0 .. 0 |-> w]
  <2>1. Follows(one, 0)
    OBVIOUS
  <2> QED
    BY <2>1
<1>2. ASSUME NEW m \in Nat, m \in S PROVE m + 1 \in S
  <2>1. PICK f : Follows(f, m)
    BY <1>2
  <2> DEFINE more == [k \in 0 .. m + 1 |-> IF k = m + 1 THEN ReportOne(w, f[m], m + 1, begin, end) ELSE f[k]]
             next == [k \in 0 .. m + 1 |-> IF k = 0 THEN w ELSE ReportOne(w, more[k - 1], k, begin, end)]
  <2>2. ASSUME NEW k \in 0 .. m + 1 PROVE more[k] = next[k]
    <3>1. CASE k = m + 1
      <4>1. more[k] = ReportOne(w, f[m], m + 1, begin, end)
        BY <3>1
      <4>2. k # 0 /\ k - 1 = m /\ m \in 0 .. m + 1 /\ m # m + 1
        BY <3>1
      <4>3. next[k] = ReportOne(w, more[m], m + 1, begin, end) /\ more[m] = f[m]
        BY <3>1, <4>2
      <4> QED
        BY <4>1, <4>3
    <3>2. CASE k = 0
      <4>1. 0 # m + 1 /\ 0 \in 0 .. m /\ 0 \in 0 .. m + 1
        OBVIOUS
      <4>2. f[0] = w
        BY <2>1, <4>1
      <4> QED
        BY <3>2, <4>1, <4>2
    <3>3. CASE k # 0 /\ k # m + 1
      <4>1. k \in 0 .. m /\ k - 1 \in 0 .. m + 1 /\ k - 1 # m + 1
        BY <3>3
      <4>2. f[k] = ReportOne(w, f[k - 1], k, begin, end)
        BY <2>1, <3>3, <4>1
      <4>3. more[k] = f[k] /\ more[k - 1] = f[k - 1]
        BY <3>3, <4>1
      <4>4. next[k] = ReportOne(w, more[k - 1], k, begin, end)
        BY <3>3
      <4> QED
        BY <4>2, <4>3, <4>4
    <3> QED
      BY <3>1, <3>2, <3>3
  <2>3. more = next
    BY <2>2
  <2>4. Follows(more, m + 1)
    BY <2>3
  <2> HIDE DEF more, next, Follows
  <2>5. \E g : Follows(g, m + 1)
    BY <2>4
  <2> QED
    BY <2>5
<1>3. Len(w.subs) \in S
  BY <1>1, <1>2, Induction
<1> HIDE DEF S
<1>4. PICK f : Follows(f, Len(w.subs))
  BY <1>3 DEF S
<1>5. Follows(Batched(w, begin, end), Len(w.subs))
  BY <1>4 DEF Batched
<1> HIDE DEF Follows
<1>6. \A h : Follows(h, Len(w.subs)) => \A k \in 0 .. Len(w.subs) :
         h[k] = IF k = 0 THEN w ELSE ReportOne(w, h[k - 1], k, begin, end)
  BY DEF Follows
<1> QED
  BY <1>5, <1>6

LEMMA ProgressOk ==
    ASSUME owner \in BOOLEAN, NEW known, NEW done, NEW n, NEW w, Sane(w, known, owner, done, n),
           NEW end \in Nat, end <= n
    PROVE  Sane(Progress(w, end), known, owner, done, n)
<1> PICK many : many = Len(w.subs)
  OBVIOUS
<1> PICK f : f = Reached(w, end)
  OBVIOUS
<1>1. w \in World /\ many \in Nat
  <2>1. w \in World
    BY DEF Sane
  <2> QED
    BY <2>1, WorldParts
<1>2. \A k \in 0 .. many : f[k] = IF k = 0 THEN w ELSE Reach(f[k - 1], k, end)
  BY <1>1, ReachedDefined
<1> DEFINE Good(k) == Sane(f[k], known, owner, done, n) /\ Len(f[k].subs) = many
           S == {k \in Nat : k <= many => Good(k)}
<1>3. 0 \in S
  <2>1. f[0] = w
    BY <1>1, <1>2
  <2> QED
    BY <2>1
<1>4. ASSUME NEW k \in Nat, k \in S PROVE k + 1 \in S
  <2> SUFFICES ASSUME k + 1 <= many PROVE Good(k + 1)
    OBVIOUS
  <2>1. Good(k) /\ k + 1 \in 0 .. many /\ k + 1 # 0 /\ (k + 1) - 1 = k /\ k + 1 \in 1 .. many
    BY <1>1, <1>4
  <2>2. f[k + 1] = Reach(f[k], k + 1, end)
    BY <1>2, <2>1
  <2>3. k + 1 \in DOMAIN f[k].subs
    <3>1. f[k] \in World
      BY <2>1 DEF Sane
    <3> QED
      BY <2>1, <3>1, WorldParts
  <2>4. Sane(f[k + 1], known, owner, done, n) /\ Only(f[k], f[k + 1], k + 1)
    BY <2>1, <2>2, <2>3, ReachOk
  <2> QED
    BY <2>1, <2>4 DEF Only
<1> HIDE DEF S, Good
<1>5. many \in S
  BY <1>1, <1>3, <1>4, Induction
<1>6. Good(many)
  BY <1>1, <1>5 DEF S
<1> QED
  BY <1>6 DEF Good, Progress

LEMMA FinishEachOk ==
    ASSUME owner \in BOOLEAN, NEW known, NEW done, NEW n, NEW w, Sane(w, known, owner, done, n)
    PROVE  /\ Sane(FinishEach(w), known, owner, done, n)
           /\ \A i \in DOMAIN FinishEach(w).subs :
                 FinishEach(w).subs[i].kind # "path" => ~Active(FinishEach(w), i)
<1> PICK many : many = Len(w.subs)
  OBVIOUS
<1> PICK f : f = Finished(w)
  OBVIOUS
<1>1. w \in World /\ many \in Nat
  <2>1. w \in World
    BY DEF Sane
  <2> QED
    BY <2>1, WorldParts
<1>2. \A k \in 0 .. many : f[k] = IF k = 0 THEN w ELSE FinishOne(f[k - 1], k)
  BY <1>1, FinishedDefined
<1> DEFINE Good(k) == /\ Sane(f[k], known, owner, done, n) /\ Len(f[k].subs) = many
                      /\ \A i \in 1 .. k : f[k].subs[i].kind # "path" => ~Active(f[k], i)
           S == {k \in Nat : k <= many => Good(k)}
<1>3. 0 \in S
  <2>1. f[0] = w
    BY <1>1, <1>2
  <2> QED
    BY <2>1
<1>4. ASSUME NEW k \in Nat, k \in S PROVE k + 1 \in S
  <2> SUFFICES ASSUME k + 1 <= many PROVE Good(k + 1)
    OBVIOUS
  <2>1. Good(k) /\ k + 1 \in 0 .. many /\ k + 1 # 0 /\ (k + 1) - 1 = k /\ k + 1 \in 1 .. many
    BY <1>1, <1>4
  <2>2. f[k + 1] = FinishOne(f[k], k + 1)
    BY <1>2, <2>1
  <2>3. k + 1 \in DOMAIN f[k].subs /\ DOMAIN f[k].subs = 1 .. many
    <3>1. f[k] \in World
      BY <2>1 DEF Sane
    <3> QED
      BY <2>1, <3>1, WorldParts
  <2>4. /\ Sane(f[k + 1], known, owner, done, n) /\ Only(f[k], f[k + 1], k + 1)
        /\ f[k].subs[k + 1].kind # "path" => ~Active(f[k + 1], k + 1)
    BY <2>1, <2>2, <2>3, FinishOk
  <2>5. ASSUME NEW i \in 1 .. k + 1, f[k + 1].subs[i].kind # "path" PROVE ~Active(f[k + 1], i)
    <3>1. i \in 1 .. many /\ f[k].subs[i].kind # "path"
      BY <1>1, <2>1, <2>3, <2>4, <2>5, SMTT(30) DEF Only
    <3>2. CASE i = k + 1
      BY <2>4, <3>1, <3>2
    <3>3. CASE i # k + 1
      <4>1. i \in 1 .. k /\ f[k + 1].subs[i] = f[k].subs[i]
        BY <2>3, <2>4, <3>1, <3>3 DEF Only
      <4> QED
        BY <2>1, <3>1, <4>1 DEF Active
    <3> QED
      BY <3>2, <3>3
  <2> QED
    BY <2>1, <2>4, <2>5 DEF Only
<1> HIDE DEF S, Good
<1>5. many \in S
  BY <1>1, <1>3, <1>4, Induction
<1>6. Good(many)
  BY <1>1, <1>5 DEF S
<1>7. FinishEach(w) = f[many] /\ f[many] \in World
  BY <1>6 DEF FinishEach, Good, Sane
<1>8. DOMAIN f[many].subs = 1 .. many
  BY <1>6, <1>7, WorldParts DEF Good
<1> QED
  BY <1>6, <1>7, <1>8 DEF Good

-----------------------------------------------------------------------------
\* A step is told to every stream under way; what they are told is all there is.
LEMMA CarriedIs ==
    ASSUME NEW w \in World, NEW i \in DOMAIN w.subs, NEW begin \in Nat, NEW n \in Nat, begin <= n,
           \A k \in DOMAIN w.subs : w.subs[k].cursor <= n
    PROVE  /\ Carried(w, begin, i) \in Nat /\ Carried(w, begin, i) >= begin
           /\ \/ Carried(w, begin, i) = begin
              \/ \E k \in 1 .. i - 1 : Streaming(w, k) /\ Carried(w, begin, i) = w.subs[k].cursor
<1> PICK c : c = Carried(w, begin, i)
  OBVIOUS
<1> DEFINE P == {w.subs[j].cursor : j \in {k \in 1 .. i - 1 : Active(w, k) /\ w.subs[k].kind = "stream"}}
                  \union {begin}
<1>1. ASSUME NEW k \in 1 .. i - 1 PROVE k \in DOMAIN w.subs /\ w.subs[k].cursor \in Nat
  <2>1. k \in DOMAIN w.subs
    BY WorldParts
  <2>2. w.subs[k] \in Sub
    BY <2>1, WorldParts
  <2> QED
    BY <2>1, <2>2 DEF Sub
<1>2. P \subseteq 0 .. n /\ begin \in P
  BY <1>1
<1>3. \A c1 \in P : c1 = begin \/ \E k \in 1 .. i - 1 : Streaming(w, k) /\ c1 = w.subs[k].cursor
  BY DEF Streaming, Active
<1>4. c = CHOOSE m \in P : \A l \in P : l <= m
  BY DEF Carried
<1> HIDE DEF P
<1>5. \E m \in P : \A l \in P : l <= m
  BY <1>2, LastPlace
<1>6. c \in P /\ \A l \in P : l <= c
  BY <1>4, <1>5
<1>7. c \in Nat /\ c >= begin
  BY <1>2, <1>6
<1> QED
  BY <1>3, <1>6, <1>7

\* What was carried over from an older stream is not past what this one was told.
LEMMA CarriedOver ==
    ASSUME NEW w \in World, NEW i \in DOMAIN w.subs, NEW begin \in Nat, NEW n \in Nat, begin <= n,
           \A k \in DOMAIN w.subs : w.subs[k].cursor <= n, Level(w), NEW end
    PROVE  Activity(w.subs[i], Carried(w, begin, i), end) = Activity(w.subs[i], begin, end)
<1> PICK c : c = Carried(w, begin, i)
  OBVIOUS
<1> PICK s : s = w.subs[i]
  OBVIOUS
<1>1. CASE ~Streaming(w, i)
  BY <1>1 DEF Activity, Streaming
<1>2. CASE Streaming(w, i)
  <2>1. c \in Nat /\ c >= begin /\ s.cursor \in Nat
    <3>1. s \in Sub
      BY WorldParts
    <3> QED
      BY <3>1, CarriedIs DEF Sub
  <2>2. c = begin \/ c <= s.cursor
    <3>1. CASE c = begin
      BY <3>1
    <3>2. CASE c # begin
      <4>1. PICK k \in 1 .. i - 1 : Streaming(w, k) /\ c = w.subs[k].cursor
        BY <3>2, CarriedIs
      <4>2. k \in DOMAIN w.subs /\ k < i
        BY WorldParts
      <4> QED
        BY <1>2, <4>1, <4>2 DEF Level
    <3> QED
      BY <3>1, <3>2
  <2>3. (IF c > s.cursor THEN c ELSE s.cursor) = (IF begin > s.cursor THEN begin ELSE s.cursor)
    BY <2>1, <2>2
  <2> QED
    BY <2>3 DEF Activity
<1> QED
  BY <1>1, <1>2

\* What is batched of a stream under way: from the step, or from what came before it.
Batch(s, begin, end) ==
    [start |-> IF Has(s) THEN s.pending.start ELSE IF begin > s.cursor THEN begin ELSE s.cursor,
     end |-> end]

Advanced(s, t, begin, end) ==
    /\ t \in Sub /\ t.kind = s.kind /\ t.status = s.status /\ t.first = s.first /\ t.watch = s.watch
    /\ s.status # "active" \/ s.kind # "stream" => t = s
    /\ s.status = "active" /\ s.kind = "stream" =>
          /\ t.cursor = end
          /\ \/ t = s
             \/ Has(t) /\ s.cursor < end /\ t.pending = Batch(s, begin, end)

LEMMA ActivityIs ==
    ASSUME NEW s \in Sub, NEW begin \in Nat, NEW end \in Nat, begin < end, s.cursor <= end
    PROVE  Advanced(s, Activity(s, begin, end), begin, end)
<1> PICK t : t = Activity(s, begin, end)
  OBVIOUS
<1> SUFFICES Advanced(s, t, begin, end)
  OBVIOUS
<1> USE DEF Advanced
<1>1. CASE s.status # "active" \/ s.kind # "stream"
  BY <1>1 DEF Activity
<1>2. CASE s.status = "active" /\ s.kind = "stream"
  <2> PICK from : from = IF begin > s.cursor THEN begin ELSE s.cursor
    OBVIOUS
  <2>1. from \in Nat /\ s.cursor \in Nat /\ s.pending \in Span
    BY DEF Sub
  <2>2. CASE end <= from
    <3>1. t = s
      BY <2>2 DEF Activity
    <3>2. s.cursor = end
      BY <2>1, <2>2
    <3> QED
      BY <1>2, <3>1, <3>2
  <2>3. CASE ~(end <= from)
    <3> PICK batch : batch = Batch(s, begin, end)
      OBVIOUS
    <3>1. t = [s EXCEPT !.cursor = end, !.timer = TRUE, !.pending = batch]
      BY <1>2, <2>3 DEF Activity, Batch, Has
    <3>2. batch \in Span /\ batch.end = end
      BY <2>1 DEF Batch, Span
    <3>3. batch # NoRange /\ s.cursor < end
      BY <2>1, <2>3, <3>2 DEF NoRange
    <3>4. t \in Sub /\ t.pending = batch
      BY <3>1, <3>2 DEF Sub
    <3> QED
      BY <1>2, <3>1, <3>3, <3>4 DEF Has, Sub
  <2> QED
    BY <2>2, <2>3
<1> QED
  BY <1>1, <1>2

EndBy(known, begin) == \A r \in known : r.end \in Nat /\ r.end <= begin

And(known, begin, end) == known \union {[start |-> begin, end |-> end]}

LEMMA ActivityOk ==
    ASSUME NEW w \in World, NEW v \in World, NEW i \in DOMAIN w.subs, v.inbox = w.inbox,
           NEW known, NEW ours \in BOOLEAN, SubOk(w, i, known, ours, FALSE),
           NEW begin \in Nat, NEW end \in Nat, begin < end, w.subs[i].cursor <= end,
           v.subs[i] = Activity(w.subs[i], begin, end),
           EndBy(known, begin)
    PROVE  SubOk(v, i, And(known, begin, end), ours, FALSE)
<1> USE DEF EndBy, And
<1> PICK new : new = [start |-> begin, end |-> end]
  OBVIOUS
<1> PICK all : all = known \union {new}
  OBVIOUS
<1> PICK s : s = w.subs[i]
  OBVIOUS
<1> PICK t : t = v.subs[i]
  OBVIOUS
<1>1. s \in Sub /\ s.cursor \in Nat /\ s.first \in Nat /\ s.pending.start \in Nat /\ s.pending.end \in Nat
  <2>1. s \in Sub
    BY WorldParts
  <2> QED
    BY <2>1 DEF Sub, Span
<1>2. /\ t \in Sub /\ t.kind = s.kind /\ t.status = s.status /\ t.first = s.first /\ t.watch = s.watch
      /\ s.status # "active" \/ s.kind # "stream" => t = s
      /\ s.status = "active" /\ s.kind = "stream" =>
            /\ t.cursor = end
            /\ \/ t = s
               \/ Has(t) /\ s.cursor < end /\ t.pending = Batch(s, begin, end)
  <2>1. Advanced(s, t, begin, end)
    BY <1>1, ActivityIs
  <2> QED
    BY <2>1 DEF Advanced
<1>3. Sent(v, i) = Sent(w, i)
  BY DEF Sent
<1>4. new.start = begin /\ new.end = end /\ \A r : r \in all <=> r \in known \/ r = new
  OBVIOUS
\* Nothing that this one was told of is news.
<1>5. ASSUME ours, Lasting(s), s.kind = "stream",
             NEW m \in s.first + 1 .. s.cursor, NEW r \in all, Covers(r, m)
      PROVE  r \in known
  <2> SUFFICES ASSUME Covers(new, m) PROVE FALSE
    BY <1>4, <1>5
  <2>1. s.cursor = s.first \/ \E q \in known : q.end = s.cursor
    BY <1>5 DEF SubOk, StreamOk, Streamed
  <2>2. m \in Nat /\ begin < m /\ m <= s.cursor /\ m > s.first
    BY <1>1, <1>4 DEF Covers
  <2>3. s.cursor # s.first
    BY <1>1, <2>2
  <2> QED
    BY <1>1, <2>1, <2>2, <2>3
<1>6. CASE t = s
  <2>1. SubOk(v, i, known, ours, FALSE)
    BY <1>6, OtherSub
  <2>2. ASSUME ours, Lasting(t), t.kind = "stream" PROVE Streamed(v, i, t, all)
    <3>1. Streamed(v, i, t, known)
      BY <2>1, <2>2 DEF SubOk, StreamOk
    <3>2. t.cursor = t.first \/ \E r \in all : r.end = t.cursor
      BY <1>4, <3>1 DEF Streamed
    <3>3. t.status = "active" => \A r \in all : r.end <= t.cursor
      BY <1>1, <1>2, <1>4, <1>6, <2>2, <3>1 DEF Streamed
    <3>4. \A m \in t.first + 1 .. t.cursor : (\E r \in all : Covers(r, m)) => \E r \in known : Covers(r, m)
      BY <1>5, <1>6, <2>2
    <3> QED
      BY <3>1, <3>2, <3>3, <3>4 DEF Streamed
  <2> QED
    BY <1>6, <2>1, <2>2 DEF SubOk, StreamOk
<1>7. CASE t # s
  <2>1. /\ s.status = "active" /\ s.kind = "stream" /\ t.cursor = end
        /\ Has(t) /\ s.cursor < end /\ t.pending = Batch(s, begin, end)
    BY <1>2, <1>7
  <2>2. QuietOk(v, i, FALSE)
    <3>1. /\ s.watch => s.kind = "path"
          /\ \A j \in Sent(w, i) : w.inbox[j].type = "failed" => s.status = "failed"
          /\ \A j, k \in Sent(w, i) : j < k /\ w.inbox[j].type = "failed" => w.inbox[k].type = "failed"
          /\ \A k \in Sent(w, i), j \in DOMAIN w.inbox :
                j < k /\ w.inbox[j].type = "ended" => s.kind = "path"
      BY DEF SubOk, QuietOk, Quiet
    <3>2. t.status = "active" /\ t.kind = "stream"
      BY <1>2, <2>1
    <3>3. Quiet(v, i, t, FALSE)
      BY <1>2, <1>3, <3>1, <3>2 DEF Quiet
    <3> QED
      BY <3>3 DEF QuietOk
  <2>3. ASSUME ours PROVE Streamed(v, i, t, all)
    <3> PICK from : from = IF begin > s.cursor THEN begin ELSE s.cursor
      OBVIOUS
    <3>1. Streamed(w, i, s, known)
      BY <2>1, <2>3 DEF SubOk, StreamOk, Lasting
    <3>2. from \in Nat /\ from < end /\ s.cursor <= from /\ begin <= from
      BY <1>1, <2>1
    <3>3. t.pending.end = end /\ t.pending.start = IF Has(s) THEN s.pending.start ELSE from
      BY <2>1 DEF Batch
    <3>4. Has(s) => s.pending.start <= s.cursor /\ s.pending.end = s.cursor
      BY <3>1 DEF Streamed
    <3>5. t.pending.start \in Nat /\ t.pending.start <= from /\ t.pending.start < end
      BY <1>1, <3>2, <3>3, <3>4
    <3>6. ASSUME NEW k \in Sent(v, i) PROVE v.inbox[k].end <= t.pending.start
      <4>1. w.inbox[k].end <= IF Has(s) THEN s.pending.start ELSE s.cursor
        BY <1>3, <3>1 DEF Streamed
      <4>2. w.inbox[k] \in Posted
        BY <1>3, WorldParts DEF Sent
      <4>3. w.inbox[k].end \in Nat
        BY <4>2 DEF Posted
      <4> QED
        BY <1>1, <3>2, <3>3, <4>1, <4>3
    <3>7. ASSUME NEW m \in t.first + 1 .. t.cursor, NEW r \in all, Covers(r, m)
          PROVE  Covers(t.pending, m) \/ \E k \in Sent(v, i) : Covers(v.inbox[k], m)
      <4>1. m \in Nat /\ m <= end /\ m >= s.first + 1
        BY <1>1, <1>2, <2>1
      <4>2. CASE m <= s.cursor
        <5>1. m \in s.first + 1 .. s.cursor
          BY <1>1, <4>1, <4>2
        <5>2. r \in known
          BY <1>5, <2>1, <2>3, <3>7, <5>1 DEF Lasting
        <5>3. Covers(s.pending, m) \/ \E k \in Sent(w, i) : Covers(w.inbox[k], m)
          BY <3>1, <3>7, <5>1, <5>2 DEF Streamed
        <5>4. CASE Covers(s.pending, m)
          <6>1. Has(s)
            BY <4>1, <5>4 DEF Has, NoRange, Covers
          <6> QED
            BY <3>3, <4>1, <5>4, <6>1 DEF Covers
        <5>5. CASE \E k \in Sent(w, i) : Covers(w.inbox[k], m)
          BY <1>3, <5>5
        <5> QED
          BY <5>3, <5>4, <5>5
      <4>3. CASE m > s.cursor
        <5>1. r = new
          <6>1. CASE r \in known
            <7>1. r.end <= s.cursor /\ r.end \in Nat /\ m <= r.end
              BY <2>1, <3>1, <3>7, <6>1 DEF Streamed, Covers
            <7> QED
              BY <1>1, <4>1, <4>3, <7>1
          <6> QED
            BY <1>4, <6>1
        <5>2. begin < m
          BY <1>4, <3>7, <5>1 DEF Covers
        <5>3. from < m
          BY <1>1, <4>1, <4>3, <5>2
        <5>4. t.pending.start < m /\ m <= t.pending.end
          BY <3>2, <3>3, <3>5, <4>1, <5>3
        <5> QED
          BY <5>4 DEF Covers
      <4> QED
        BY <1>1, <4>1, <4>2, <4>3
    <3>8. \A j, k \in Sent(v, i) : j < k => v.inbox[j].end <= v.inbox[k].start
      BY <1>3, <3>1 DEF Streamed
    <3>9. \A r \in all : r.end <= t.cursor
      BY <1>4, <2>1
    <3>10. \E r \in all : r.end = t.cursor
      BY <1>4, <2>1
    <3>11. t.pending.start <= t.cursor /\ t.pending.end = t.cursor
      BY <2>1, <3>3, <3>5
    <3> QED
      BY <2>1, <3>6, <3>7, <3>8, <3>9, <3>10, <3>11 DEF Streamed
  <2>4. t.kind = "stream"
    BY <1>2, <2>1
  <2> QED
    BY <2>2, <2>3, <2>4 DEF SubOk, StreamOk
<1> QED
  BY <1>6, <1>7

LEMMA ReportIs ==
    ASSUME NEW w \in World, Level(w), NEW begin \in Nat, NEW end \in Nat, begin < end,
           \A i \in DOMAIN w.subs : w.subs[i].cursor <= end
    PROVE  /\ Report(w, begin, end) \in World /\ Len(Report(w, begin, end).subs) = Len(w.subs)
           /\ Report(w, begin, end).inbox = w.inbox
           /\ \A i \in DOMAIN w.subs :
                 Report(w, begin, end).subs[i] = Activity(w.subs[i], begin, end)
<1> PICK many : many = Len(w.subs)
  OBVIOUS
<1> PICK f : f = Batched(w, begin, end)
  OBVIOUS
<1>1. many \in Nat /\ DOMAIN w.subs = 1 .. many
  BY WorldParts
<1>2. \A k \in 0 .. many : f[k] = IF k = 0 THEN w ELSE ReportOne(w, f[k - 1], k, begin, end)
  BY <1>1, BatchedDefined
<1> DEFINE Good(k) == /\ f[k] \in World /\ Len(f[k].subs) = many /\ f[k].inbox = w.inbox
                      /\ \A j \in 1 .. k : f[k].subs[j] = Activity(w.subs[j], begin, end)
                      /\ \A j \in k + 1 .. many : f[k].subs[j] = w.subs[j]
           S == {k \in Nat : k <= many => Good(k)}
<1>3. 0 \in S
  <2>1. f[0] = w
    BY <1>1, <1>2
  <2> QED
    BY <2>1
<1>4. ASSUME NEW k \in Nat, k \in S PROVE k + 1 \in S
  <2> SUFFICES ASSUME k + 1 <= many PROVE Good(k + 1)
    OBVIOUS
  <2> PICK i : i = k + 1
    OBVIOUS
  <2> PICK x : x = f[k]
    OBVIOUS
  <2>t. PICK t : t = Activity(w.subs[i], begin, end)
    OBVIOUS
  <2>1. Good(k) /\ i \in 0 .. many /\ i # 0 /\ i - 1 = k /\ i \in 1 .. many /\ i \in k + 1 .. many
    BY <1>1, <1>4
  <2>2. f[i] = ReportOne(w, x, i, begin, end)
    BY <1>2, <2>1
  <2>3. x \in World /\ i \in DOMAIN x.subs /\ DOMAIN x.subs = 1 .. many /\ x.subs[i] = w.subs[i]
    BY <2>1, WorldParts
  <2>4. Activity(x.subs[i], Carried(w, begin, i), end) = t
    <3>1. begin <= end /\ i \in DOMAIN w.subs
      BY <1>1, <2>1
    <3>2. Activity(w.subs[i], Carried(w, begin, i), end) = t
      BY <2>t, <3>1, CarriedOver
    <3> QED
      BY <2>3, <2>t, <3>2
  <2>5. t \in Sub
    <3>1. w.subs[i] \in Sub /\ w.subs[i].cursor <= end
      BY <1>1, <2>1, WorldParts
    <3>2. Advanced(w.subs[i], t, begin, end)
      BY <2>t, <3>1, ActivityIs
    <3> QED
      BY <3>2 DEF Advanced
  <2>6. f[i] = Put(x, i, t)
    <3>1. [x EXCEPT !.subs[i] = t] = Put(x, i, t)
      BY <2>3, Spelled
    <3>2. ReportOne(w, x, i, begin, end) = [x EXCEPT !.subs[i] = Activity(x.subs[i], Carried(w, begin, i), end)]
      BY DEF ReportOne
    <3> QED
      BY <2>2, <2>4, <3>1, <3>2, Zenon
  <2> PICK y : y = f[i]
    OBVIOUS
  <2>7. /\ y \in World /\ Len(y.subs) = many /\ y.subs[i] = t /\ y.inbox = w.inbox
        /\ \A j \in 1 .. many : j # i => y.subs[j] = x.subs[j]
    <3>1. Len(x.subs) = many /\ x.inbox = w.inbox
      BY <2>1
    <3>2. y = Put(x, i, t)
      BY <2>6
    <3> HIDE DEF Good
    <3>3. /\ y \in World /\ Len(y.subs) = Len(x.subs) /\ y.subs[i] = t /\ y.inbox = x.inbox
          /\ \A j \in DOMAIN x.subs : j # i => y.subs[j] = x.subs[j]
      BY <2>3, <2>5, <3>2, PutThere
    <3> QED
      BY <2>3, <3>1, <3>3
  <2>8. \A j \in 1 .. k : j # i /\ j \in 1 .. many /\ x.subs[j] = Activity(w.subs[j], begin, end)
    BY <1>1, <2>1
  <2>9. \A j \in i + 1 .. many : j # i /\ j \in 1 .. many /\ x.subs[j] = w.subs[j]
    BY <1>1, <2>1
  <2>10. \A j \in 1 .. i : j \in 1 .. k \/ j = i
    BY <2>1
  <2>11. \A j \in 1 .. i : y.subs[j] = Activity(w.subs[j], begin, end)
    BY <2>t, <2>7, <2>8, <2>10
  <2>12. \A j \in i + 1 .. many : y.subs[j] = w.subs[j]
    BY <2>7, <2>9
  <2> QED
    BY <2>7, <2>11, <2>12
<1> HIDE DEF S, Good
<1>5. many \in S
  BY <1>1, <1>3, <1>4, Induction
<1>6. Good(many)
  BY <1>1, <1>5 DEF S
<1> QED
  BY <1>1, <1>6 DEF Good, Report

LEMMA ReportOk ==
    ASSUME NEW known, NEW ours \in BOOLEAN, NEW w, NEW begin \in Nat, NEW end \in Nat, begin < end,
           Sane(w, known, ours, FALSE, end), EndBy(known, begin)
    PROVE  Sane(Report(w, begin, end), And(known, begin, end), ours, FALSE, end)
<1> PICK v : v = Report(w, begin, end)
  OBVIOUS
<1> PICK all : all = And(known, begin, end)
  OBVIOUS
<1>1. w \in World /\ Level(w) /\ \A i \in DOMAIN w.subs : w.subs[i].cursor <= end
  BY DEF Sane
<1>2. /\ v \in World /\ Len(v.subs) = Len(w.subs) /\ v.inbox = w.inbox
      /\ \A i \in DOMAIN w.subs : v.subs[i] = Activity(w.subs[i], begin, end)
  BY <1>1, ReportIs
<1>3. DOMAIN v.subs = DOMAIN w.subs
  BY <1>1, <1>2, WorldParts
<1>4. ASSUME NEW i \in DOMAIN w.subs PROVE Advanced(w.subs[i], v.subs[i], begin, end)
  <2>1. w.subs[i] \in Sub
    BY <1>1, WorldParts
  <2> QED
    BY <1>1, <1>2, <2>1, ActivityIs
<1>5. \A i \in DOMAIN w.subs : Streaming(v, i) => v.subs[i].cursor = end
  BY <1>4 DEF Advanced, Streaming
<1>6. ASSUME NEW i \in DOMAIN v.subs PROVE SubOk(v, i, all, ours, FALSE) /\ v.subs[i].cursor <= end
  <2>1. SubOk(w, i, known, ours, FALSE) /\ w.subs[i].cursor <= end /\ v.subs[i] = Activity(w.subs[i], begin, end)
    BY <1>2, <1>3 DEF Sane
  <2>2. SubOk(v, i, all, ours, FALSE)
    <3>1. i \in DOMAIN w.subs /\ v.inbox = w.inbox
      BY <1>2, <1>3
    <3>2. SubOk(v, i, And(known, begin, end), ours, FALSE)
      BY <1>1, <1>2, <2>1, <3>1, ActivityOk
    <3> QED
      BY <3>2
  <2>3. v.subs[i].cursor <= end
    BY <1>3, <1>4, <2>1 DEF Advanced
  <2> QED
    BY <2>2, <2>3
<1>7. Level(v)
  BY <1>3, <1>5 DEF Level
<1>8. \A k \in DOMAIN v.inbox : v.inbox[k].sub \in 0 .. Len(v.subs) /\ (v.inbox[k].type = "ended" => FALSE)
  BY <1>2 DEF Sane
<1> QED
  BY <1>2, <1>6, <1>7, <1>8 DEF Sane

-----------------------------------------------------------------------------
\* The actions that are not a turn of one subscription.
LEMMA RegisterOk ==
    ASSUME NEW known, NEW ours \in BOOLEAN, NEW done, NEW n, NEW w, Sane(w, known, ours, done, n),
           NEW s \in Sub, s.first = n, s.cursor = n, ~Has(s), ~s.timer, s.watch => s.kind = "path",
           done /\ s.kind # "path" => s.status # "active", s.status # "failed",
           \A r \in known : r.end <= n
    PROVE  Sane([subs |-> Append(w.subs, s), inbox |-> w.inbox], known, ours, done, n)
<1> PICK many : many = Len(w.subs)
  OBVIOUS
<1> PICK more : more = Append(w.subs, s)
  OBVIOUS
<1> PICK v : v = [subs |-> more, inbox |-> w.inbox]
  OBVIOUS
<1>1. w \in World /\ many \in Nat /\ DOMAIN w.subs = 1 .. many /\ n \in Nat
  <2>1. w \in World /\ n \in Nat
    BY DEF Sane
  <2> QED
    BY <2>1, WorldParts
<1>2. /\ more \in Seq(Sub) /\ Len(more) = many + 1 /\ DOMAIN more = 1 .. many + 1
      /\ \A j \in 1 .. many : more[j] = w.subs[j]
      /\ more[many + 1] = s
  <2>1. w.subs \in Seq(Sub)
    BY <1>1, WorldParts
  <2> QED
    BY <2>1, AppendProperties, LenProperties
<1>3. v \in World /\ v.subs = more /\ v.inbox = w.inbox
  BY <1>1, <1>2, WorldParts DEF World
<1>4. ASSUME NEW j \in 1 .. many PROVE SubOk(v, j, known, ours, done) /\ v.subs[j].cursor <= n
  <2>1. SubOk(w, j, known, ours, done) /\ w.subs[j].cursor <= n /\ v.subs[j] = w.subs[j]
    BY <1>1, <1>2, <1>3 DEF Sane
  <2> QED
    BY <1>1, <1>3, <2>1, OtherSub
<1>5. Sent(v, many + 1) = {}
  <2>1. \A k \in DOMAIN w.inbox : w.inbox[k].sub \in 0 .. many
    BY DEF Sane
  <2>2. many + 1 \notin 0 .. many
    BY <1>1
  <2> QED
    BY <1>3, <2>1, <2>2 DEF Sent
<1>6. SubOk(v, many + 1, known, ours, done)
  <2>1. v.subs[many + 1] = s
    BY <1>2, <1>3
  <2>2. Quiet(v, many + 1, s, done)
    BY <1>5 DEF Quiet
  <2>3. Streamed(v, many + 1, s, known)
    <3>1. s.first + 1 .. s.cursor = {}
      BY <1>1
    <3> QED
      BY <1>5, <3>1 DEF Streamed
  <2>4. SlicesOk(v, many + 1)
    <3>1. Earlier(v, many + 1, Len(v.inbox) + 1) = {}
      BY <1>5 DEF Earlier
    <3> QED
      BY <1>5, <2>1, <3>1 DEF SlicesOk, Reaches
  <2> QED
    BY <2>1, <2>2, <2>3, <2>4 DEF SubOk, QuietOk, StreamOk
<1>7. \A j \in 1 .. many + 1 : j \in 1 .. many \/ j = many + 1
  BY <1>1
<1>8. ASSUME NEW j \in DOMAIN v.subs PROVE SubOk(v, j, known, ours, done) /\ v.subs[j].cursor <= n
  <2>1. CASE j = many + 1
    <3>1. v.subs[j].cursor = n
      BY <1>2, <1>3, <2>1
    <3> QED
      BY <1>1, <1>6, <2>1, <3>1
  <2>2. CASE j # many + 1
    <3>1. j \in 1 .. many
      BY <1>2, <1>3, <1>7, <2>2
    <3> QED
      BY <1>4, <3>1
  <2> QED
    BY <2>1, <2>2
<1>9. Level(v)
  <2> SUFFICES ASSUME NEW j \in 1 .. many + 1, NEW k \in 1 .. many + 1, j < k,
                      Streaming(v, j), Streaming(v, k)
               PROVE  v.subs[j].cursor <= v.subs[k].cursor
    BY <1>2, <1>3 DEF Level
  <2>1. CASE k = many + 1
    BY <1>2, <1>3, <1>8, <2>1
  <2>2. CASE k # many + 1
    <3>1. j \in 1 .. many /\ k \in 1 .. many
      BY <1>1, <1>7, <2>2
    <3>2. v.subs[j] = w.subs[j] /\ v.subs[k] = w.subs[k]
      BY <1>2, <1>3, <3>1
    <3> QED
      BY <1>1, <3>1, <3>2 DEF Sane, Level, Streaming
  <2> QED
    BY <2>1, <2>2
<1>10. \A k \in DOMAIN v.inbox : v.inbox[k].sub \in 0 .. Len(v.subs) /\ (v.inbox[k].type = "ended" => done)
  <2>1. \A k \in DOMAIN w.inbox : w.inbox[k].sub \in 0 .. many /\ (w.inbox[k].type = "ended" => done)
    BY DEF Sane
  <2>2. \A j \in 0 .. many : j \in 0 .. many + 1
    BY <1>1
  <2> QED
    BY <1>2, <1>3, <2>1, <2>2
<1> QED
  BY <1>1, <1>3, <1>8, <1>9, <1>10 DEF Sane

LEMMA Longer ==
    ASSUME NEW known, NEW ours, NEW done, NEW n, NEW w, Sane(w, known, ours, done, n),
           NEW m \in Nat, n <= m
    PROVE  Sane(w, known, ours, done, m)
<1>1. w \in World /\ n \in Nat
  BY DEF Sane
<1>2. \A i \in DOMAIN w.subs : w.subs[i].cursor \in Nat
  BY <1>1, WorldParts DEF Sub
<1> QED
  BY <1>1, <1>2 DEF Sane

\* An event that is about no subscription: another one, or the end of the stream.
LEMMA OtherOk ==
    ASSUME NEW known, NEW ours \in BOOLEAN, NEW done, NEW n, NEW w, Sane(w, known, ours, done, n),
           NEW e \in Posted, e.sub = 0, e.type = "ended" => done,
           NEW v, v.subs = w.subs, v.inbox = Append(w.inbox, e), v \in World
    PROVE  Sane(v, known, ours, done, n)
<1> PICK top : top = Len(w.inbox)
  OBVIOUS
<1>1. w \in World /\ n \in Nat /\ Len(w.subs) \in Nat /\ DOMAIN w.subs = 1 .. Len(w.subs)
  <2>1. w \in World /\ n \in Nat
    BY DEF Sane
  <2> QED
    BY <2>1, WorldParts
<1>2. /\ top \in Nat /\ DOMAIN w.inbox = 1 .. top /\ DOMAIN v.inbox = 1 .. top + 1
      /\ \A l \in 1 .. top : v.inbox[l] = w.inbox[l]
      /\ v.inbox[top + 1] = e
  <2>1. w.inbox \in Seq(Posted)
    BY <1>1, WorldParts
  <2> QED
    BY <2>1, AppendProperties, LenProperties
<1>3. ASSUME NEW j \in DOMAIN w.subs PROVE SubOk(v, j, known, ours, done) /\ v.subs[j].cursor <= n
  <2>1. SubOk(w, j, known, ours, done) /\ w.subs[j].cursor <= n
    BY DEF Sane
  <2>2. e.sub # j
    BY <1>1
  <2>3. SubOk(v, j, known, ours, done)
    BY <1>1, <2>1, <2>2, OtherSub
  <2> QED
    BY <2>1, <2>3
<1>4. Level(v)
  BY DEF Sane, Level, Streaming
<1>5. \A k \in DOMAIN v.inbox : v.inbox[k].sub \in 0 .. Len(v.subs) /\ (v.inbox[k].type = "ended" => done)
  <2>1. \A k \in DOMAIN w.inbox : w.inbox[k].sub \in 0 .. Len(w.subs) /\ (w.inbox[k].type = "ended" => done)
    BY DEF Sane
  <2>2. \A k \in 1 .. top + 1 : k \in 1 .. top \/ k = top + 1
    BY <1>2
  <2> QED
    BY <1>1, <1>2, <2>1, <2>2
<1> QED
  BY <1>1, <1>3, <1>4, <1>5 DEF Sane

\* When no stream is under way, the stream may end.
LEMMA OverOk ==
    ASSUME NEW known, NEW ours \in BOOLEAN, NEW n, NEW w, Sane(w, known, ours, FALSE, n),
           \A i \in DOMAIN w.subs : w.subs[i].kind # "path" => ~Active(w, i)
    PROVE  Sane(w, known, ours, TRUE, n)
<1>1. ASSUME NEW i \in DOMAIN w.subs PROVE SubOk(w, i, known, ours, TRUE)
  <2>1. SubOk(w, i, known, ours, FALSE)
    BY DEF Sane
  <2>2. Quiet(w, i, w.subs[i], TRUE)
    BY <2>1 DEF SubOk, QuietOk, Quiet, Active
  <2> QED
    BY <2>1, <2>2 DEF SubOk, QuietOk
<1> QED
  BY <1>1 DEF Sane

LEMMA UnownedOk ==
    ASSUME NEW known, NEW ours, NEW none, NEW done, NEW n, NEW w, ~none,
           Sane(w, known, ours, done, n)
    PROVE  Sane(w, known, none, done, n)
BY DEF Sane, SubOk

-----------------------------------------------------------------------------
LEMMA Kept ==
    ASSUME NEW w, Become(w), Sane(w, steps', owner', over', streamed'),
           owner' \in BOOLEAN, over' \in BOOLEAN,
           \A r \in steps' : r \in Span /\ r.end <= streamed'
    PROVE  SubsInv'
<1>1. w \in World
  BY DEF Sane
<1>2. Now' = w
  <2>1. w = [subs |-> w.subs, inbox |-> w.inbox]
    BY <1>1, WorldParts
  <2> QED
    BY <2>1 DEF Now, Become
<1> QED
  BY <1>2 DEF SubsInv

LEMMA InvParts ==
    ASSUME SubsInv
    PROVE  /\ Sane(Now, steps, owner, over, streamed) /\ Now \in World
           /\ Now.subs = subs /\ Now.inbox = inbox /\ streamed \in Nat
           /\ owner \in BOOLEAN /\ over \in BOOLEAN
           /\ \A r \in steps : r \in Span /\ r.end <= streamed
           /\ \A i \in DOMAIN subs : /\ subs[i] \in Sub /\ subs[i].cursor <= streamed
                                      /\ QuietOk(Now, i, over) /\ i \in DOMAIN Now.subs
<1>1. /\ Sane(Now, steps, owner, over, streamed) /\ Now.subs = subs /\ Now.inbox = inbox
      /\ owner \in BOOLEAN /\ over \in BOOLEAN
      /\ \A r \in steps : r \in Span /\ r.end <= streamed
  BY DEF SubsInv, Now
<1>2. Now \in World /\ streamed \in Nat
  BY <1>1 DEF Sane
<1>3. \A i \in DOMAIN Now.subs : Now.subs[i] \in Sub
  BY <1>2, WorldParts
<1>4. \A i \in DOMAIN Now.subs : QuietOk(Now, i, over) /\ Now.subs[i].cursor <= streamed
  BY <1>1 DEF Sane, SubOk
<1> QED
  BY <1>1, <1>2, <1>3, <1>4

\* The greatest end of what was reported.
LEMMA ReportedIs ==
    ASSUME SubsInv
    PROVE  /\ Reported \in Nat /\ \A r \in steps : r.end <= Reported
           /\ Reported = 0 \/ \E r \in steps : r.end = Reported
<1>1. /\ streamed \in Nat /\ \A r \in steps : r \in Span /\ r.end <= streamed
  BY InvParts
<1>2. CASE steps = {}
  BY <1>2 DEF Reported
<1>3. CASE steps # {}
  <2> DEFINE P == {r.end : r \in steps}
  <2>1. P \subseteq 0 .. streamed /\ P # {}
    BY <1>1, <1>3 DEF Span
  <2>2. \E m \in P : \A l \in P : l <= m
    BY <1>1, <2>1, LastPlace
  <2>3. \E m \in P : \A r \in steps : r.end <= m
    BY <2>2
  <2>4. Reported = CHOOSE m \in P : \A r \in steps : r.end <= m
    BY <1>3 DEF Reported
  <2> HIDE DEF P
  <2>5. Reported \in P /\ \A r \in steps : r.end <= Reported
    BY <2>3, <2>4
  <2>6. Reported \in Nat
    BY <2>1, <2>5
  <2> QED
    BY <2>5, <2>6 DEF P
<1> QED
  BY <1>2, <1>3

\* A handler that changes one subscription and posts nothing.
LEMMA QuietStep ==
    ASSUME SubsInv, NEW i \in DOMAIN subs, NEW t \in Sub, subs' = [subs EXCEPT ![i] = t],
           Stays(subs[i], t, owner), t.cursor = subs[i].cursor,
           UNCHANGED <<inbox, streamed, steps, over, owner>>
    PROVE  SubsInv'
<1>1. /\ Sane(Now, steps, owner, over, streamed) /\ Now.subs = subs /\ Now.inbox = inbox
      /\ streamed \in Nat /\ owner \in BOOLEAN /\ over \in BOOLEAN
      /\ \A r \in steps : r \in Span /\ r.end <= streamed
      /\ t.cursor <= streamed /\ i \in DOMAIN Now.subs
  BY InvParts
<1>2. Sane(Put(Now, i, t), steps, owner, over, streamed)
  <2>1. Stays(Now.subs[i], t, owner)
    BY <1>1
  <2> QED
    BY <1>1, <2>1, Silent
<1>3. Become(Put(Now, i, t))
  BY <1>1 DEF Become, Put
<1> QED
  BY <1>1, <1>2, <1>3, Kept

LEMMA CancelKeeps ==
    ASSUME SubsInv, NEW i \in DOMAIN subs, subs' = [subs EXCEPT ![i] = Cancelled(@)],
           UNCHANGED <<inbox, streamed, steps, over, owner>>
    PROVE  SubsInv'
<1> PICK s : s = subs[i]
  OBVIOUS
<1>t. PICK t : t = Cancelled(s)
  OBVIOUS
<1>1. s \in Sub /\ QuietOk(Now, i, over) /\ Now.subs = subs
  BY InvParts
<1>2. /\ t \in Sub /\ t.kind = s.kind /\ t.first = s.first /\ t.cursor = s.cursor
      /\ t.status = (IF s.status = "active" THEN "cancelled" ELSE s.status)
      /\ t.pending = NoRange /\ ~t.timer /\ ~t.watch
  BY <1>1, <1>t DEF Cancelled, Emptied, Sub, Statuses, Span, NoRange
<1>3. s.status # "active" => s.pending = NoRange
  BY <1>1 DEF QuietOk, Quiet, Has
<1>4. Stays(s, t, owner)
  BY <1>2, <1>3 DEF Stays, Lasting, Has
<1>5. subs' = [subs EXCEPT ![i] = t]
  BY <1>t
<1> QED
  BY <1>2, <1>4, <1>5, QuietStep

LEMMA StepKeeps ==
    ASSUME SubsInv, Step
    PROVE  SubsInv'
<1>1. /\ Sane(Now, steps, owner, over, streamed) /\ Now \in World /\ streamed \in Nat
      /\ owner \in BOOLEAN /\ over \in BOOLEAN
      /\ \A r \in steps : r \in Span /\ r.end <= streamed
  BY InvParts
<1>2. PICK begin \in {Reported, Reported + 1} :
         /\ begin < streamed
         /\ steps' = steps \union {[start |-> begin, end |-> streamed]}
         /\ Become(Progress(Report(Now, begin, streamed), streamed))
  BY DEF Step
<1>3. over = FALSE /\ over' = over /\ owner' = owner /\ streamed' = streamed
  BY <1>1 DEF Step
<1>4. /\ Reported \in Nat /\ \A r \in steps : r.end <= Reported
  BY ReportedIs
<1>5. begin \in Nat /\ EndBy(steps, begin)
  BY <1>1, <1>2, <1>4 DEF EndBy, Span
<1>6. Sane(Report(Now, begin, streamed), And(steps, begin, streamed), owner, FALSE, streamed)
  <2>1. Sane(Now, steps, owner, FALSE, streamed)
    BY <1>1, <1>3
  <2> QED
    BY <1>1, <1>2, <1>5, <2>1, ReportOk
<1>7. steps' = And(steps, begin, streamed)
  BY <1>2 DEF And
<1>8. Sane(Progress(Report(Now, begin, streamed), streamed), steps', owner', over', streamed')
  <2>1. streamed <= streamed
    BY <1>1
  <2>2. Sane(Progress(Report(Now, begin, streamed), streamed), And(steps, begin, streamed), owner, FALSE, streamed)
    BY <1>1, <1>6, <2>1, ProgressOk
  <2> QED
    BY <1>3, <1>7, <2>2
<1>9. \A r \in steps' : r \in Span /\ r.end <= streamed'
  <2>1. [start |-> begin, end |-> streamed] \in Span
    BY <1>1, <1>5 DEF Span
  <2> QED
    BY <1>1, <1>2, <1>3, <2>1
<1> QED
  BY <1>1, <1>2, <1>3, <1>8, <1>9, Kept

LEMMA EndKeeps ==
    ASSUME SubsInv, StreamEnds
    PROVE  SubsInv'
<1>1. /\ Sane(Now, steps, owner, over, streamed) /\ streamed \in Nat
      /\ owner \in BOOLEAN /\ over \in BOOLEAN
      /\ \A r \in steps : r \in Span /\ r.end <= streamed
  BY InvParts
<1>2. over = FALSE /\ over' = TRUE /\ UNCHANGED <<streamed, steps, owner>>
  BY <1>1 DEF StreamEnds
<1> PICK w : w = FinishEach(Now)
  OBVIOUS
<1> PICK v : v = IF owner THEN [w EXCEPT !.inbox = Append(@, Ending)] ELSE w
  OBVIOUS
<1>3. Become(v)
  BY DEF StreamEnds
<1>4. /\ Sane(w, steps, owner, FALSE, streamed)
      /\ \A i \in DOMAIN w.subs : w.subs[i].kind # "path" => ~Active(w, i)
  <2>1. Sane(Now, steps, owner, FALSE, streamed)
    BY <1>1, <1>2
  <2> QED
    BY <1>1, <2>1, FinishEachOk
<1>5. Sane(w, steps, owner, TRUE, streamed) /\ w \in World
  <2>1. Sane(w, steps, owner, TRUE, streamed)
    BY <1>1, <1>4, OverOk
  <2> QED
    BY <2>1 DEF Sane
<1>6. Sane(v, steps, owner, TRUE, streamed)
  <2>1. CASE ~owner
    BY <1>5, <2>1
  <2>2. CASE owner
    <3>1. w = [subs |-> w.subs, inbox |-> w.inbox] /\ w.inbox \in Seq(Posted)
      BY <1>5, WorldParts
    <3> PICK e : e = Ending
      OBVIOUS
    <3>2. e \in Posted /\ e.sub = 0
      BY <1>1 DEF Ending, Posted
    <3>3. v = [subs |-> w.subs, inbox |-> Append(w.inbox, e)]
      <4>1. [w EXCEPT !.inbox = Append(@, e)] = [subs |-> w.subs, inbox |-> Append(w.inbox, e)]
        BY <3>1, InboxGrows
      <4> QED
        BY <2>2, <4>1
    <3>4. v \in World /\ v.subs = w.subs /\ v.inbox = Append(w.inbox, e)
      <4>1. Append(w.inbox, e) \in Seq(Posted) /\ w.subs \in Seq(Sub)
        BY <1>5, <3>1, <3>2, AppendProperties, WorldParts
      <4> QED
        BY <3>3, <4>1, SMTT(30) DEF World
    <3> QED
      BY <1>1, <1>5, <3>2, <3>4, OtherOk
  <2> QED
    BY <2>1, <2>2
<1>7. Sane(v, steps', owner', over', streamed')
  BY <1>2, <1>6
<1> QED
  BY <1>1, <1>2, <1>3, <1>7, Kept

LEMMA RegisterKeeps ==
    ASSUME SubsInv, NEW kind \in Kinds, Register(kind)
    PROVE  SubsInv'
<1>1. /\ Sane(Now, steps, owner, over, streamed) /\ Now.subs = subs /\ Now.inbox = inbox
      /\ streamed \in Nat /\ owner \in BOOLEAN /\ over \in BOOLEAN
      /\ \A r \in steps : r \in Span /\ r.end <= streamed
  BY InvParts
<1> PICK closed : closed = (over /\ kind # "path")
  OBVIOUS
<1>s. PICK s : s = [kind |-> kind, status |-> IF closed THEN "completed" ELSE "active",
                    first |-> streamed, cursor |-> streamed, next |-> Every,
                    pending |-> NoRange, timer |-> FALSE, watch |-> kind = "path"]
  OBVIOUS
<1>2. subs' = Append(subs, s) /\ UNCHANGED <<inbox, streamed, steps, over, owner>>
  BY <1>s DEF Register
<1>3. /\ s \in Sub /\ s.first = streamed /\ s.cursor = streamed /\ ~Has(s) /\ ~s.timer
      /\ s.watch => s.kind = "path"
      /\ over /\ s.kind # "path" => s.status # "active"
      /\ s.status # "failed"
  <2>1. /\ s.kind = kind /\ s.status = (IF closed THEN "completed" ELSE "active") /\ s.first = streamed
        /\ s.cursor = streamed /\ s.next = Every /\ s.pending = NoRange /\ s.timer = FALSE
        /\ s.watch = (kind = "path")
    BY <1>s
  <2>2. NoRange \in Span /\ Every \in Int /\ s.status \in Statuses /\ (kind = "path") \in BOOLEAN
    BY <2>1, SubscriptionConstants DEF Span, NoRange, Statuses
  <2>3. s \in Sub
    BY <1>1, <1>s, <2>1, <2>2 DEF Sub
  <2> QED
    BY <2>1, <2>3 DEF Has
<1> PICK v : v = [subs |-> Append(subs, s), inbox |-> inbox]
  OBVIOUS
<1>4. Sane(v, steps, owner, over, streamed)
  BY <1>1, <1>3, RegisterOk
<1>5. Become(v)
  BY <1>2 DEF Become
<1>6. Sane(v, steps', owner', over', streamed')
  BY <1>2, <1>4
<1> QED
  BY <1>1, <1>2, <1>5, <1>6, Kept

LEMMA PathKeeps ==
    ASSUME SubsInv, NEW i \in DOMAIN subs, PathChanges(i) \/ PathRemoved(i) \/ WatchFails(i)
    PROVE  SubsInv'
<1> PICK s : s = subs[i]
  OBVIOUS
<1>1. /\ Sane(Now, steps, owner, over, streamed) /\ Now \in World /\ Now.subs = subs /\ Now.inbox = inbox
      /\ streamed \in Nat /\ owner \in BOOLEAN /\ over \in BOOLEAN
      /\ \A r \in steps : r \in Span /\ r.end <= streamed
      /\ s \in Sub /\ s.cursor <= streamed /\ QuietOk(Now, i, over) /\ i \in DOMAIN Now.subs
  BY InvParts
<1>2. s.watch /\ s.kind = "path" /\ UNCHANGED <<streamed, steps, over, owner>>
  <2>1. s.watch /\ UNCHANGED <<streamed, steps, over, owner>>
    BY DEF PathChanges, PathRemoved, WatchFails
  <2> QED
    BY <1>1, <2>1 DEF QuietOk, Quiet
<1>3. s.status # "active" => ~Has(s) /\ ~s.timer
  BY <1>1 DEF QuietOk, Quiet
<1>u. PICK u : u = [s EXCEPT !.watch = FALSE]
  OBVIOUS
<1>4. /\ u \in Sub /\ u.kind = s.kind /\ u.first = s.first /\ u.cursor = s.cursor /\ ~u.watch
      /\ u.status = s.status /\ u.pending = s.pending /\ u.timer = s.timer /\ (Has(u) <=> Has(s))
  BY <1>1, <1>u DEF Sub, Has
<1>5. Stays(s, u, owner)
  BY <1>2, <1>3, <1>4 DEF Stays, Lasting
<1>6. CASE PathChanges(i)
  <2>t. PICK t : t = [s EXCEPT !.pending = Changed, !.timer = TRUE]
    OBVIOUS
  <2>1. subs' = [subs EXCEPT ![i] = IF s.status # "active" THEN u ELSE t] /\ inbox' = inbox
    BY <1>6, <1>u, <2>t DEF PathChanges
  <2>2. CASE s.status # "active"
    BY <1>2, <1>4, <1>5, <2>1, <2>2, QuietStep
  <2>3. CASE s.status = "active"
    <3>1. /\ t \in Sub /\ t.kind = s.kind /\ t.first = s.first /\ t.cursor = s.cursor
          /\ t.watch = s.watch /\ t.status = s.status
      BY <1>1, <2>t DEF Sub, Span, Changed
    <3>2. Stays(s, t, owner)
      BY <1>2, <2>3, <3>1 DEF Stays, Lasting
    <3> QED
      BY <1>2, <2>1, <2>3, <3>1, <3>2, QuietStep
  <2> QED
    BY <2>2, <2>3
<1>7. CASE PathRemoved(i) \/ WatchFails(i)
  <2> PICK w : w = Put(Now, i, u)
    OBVIOUS
  <2>1. [Now EXCEPT !.subs[i].watch = FALSE] = w
    <3>1. [Now EXCEPT !.subs[i] = u] = Put(Now, i, u)
      BY <1>1, Spelled
    <3>2. u = [Now.subs[i] EXCEPT !.watch = FALSE]
      BY <1>1, <1>u
    <3> QED
      BY <3>1, <3>2, Zenon
  <2>2. Sane(w, steps, owner, over, streamed)
    <3>1. Now.subs[i] = s /\ u.cursor <= streamed
      BY <1>1, <1>4
    <3> QED
      BY <1>1, <1>4, <1>5, <3>1, Silent
  <2>3. w \in World /\ i \in DOMAIN w.subs /\ w.subs[i] = u
    <3>1. w \in World /\ Len(w.subs) = Len(Now.subs) /\ w.subs[i] = u
      BY <1>1, <1>4, Puts
    <3> QED
      BY <1>1, <3>1, WorldParts
  <2>4. ASSUME NEW x, Sane(x, steps, owner, over, streamed), i \in DOMAIN x.subs, x.subs[i].kind = "path"
        PROVE  Sane(Fail(x, i), steps, owner, over, streamed)
    <3>1. x \in World /\ x.subs[i] \in Sub /\ x.subs[i].cursor <= streamed
      <4>1. x \in World /\ x.subs[i].cursor <= streamed
        BY <2>4 DEF Sane
      <4> QED
        BY <2>4, <4>1, WorldParts
    <3>2. Put(x, i, x.subs[i]) = x
      BY <2>4, <3>1, SameWorld
    <3>3. Sane(Fail(Put(x, i, x.subs[i]), i), steps, owner, over, streamed)
      BY <1>1, <2>4, <3>1, FailOk
    <3> QED
      BY <3>2, <3>3
  <2>5. CASE WatchFails(i)
    <3>1. Become(Fail(w, i))
      BY <2>1, <2>5 DEF WatchFails
    <3>2. Sane(Fail(w, i), steps, owner, over, streamed)
      BY <1>2, <1>4, <2>2, <2>3, <2>4
    <3>3. Sane(Fail(w, i), steps', owner', over', streamed')
      BY <1>2, <3>2
    <3> QED
      BY <1>1, <1>2, <3>1, <3>3, Kept
  <2>6. CASE PathRemoved(i)
    <3> PICK x : x = Flush(w, i)
      OBVIOUS
    <3> PICK v : v = IF Active(x, i) THEN Fail(x, i) ELSE x
      OBVIOUS
    <3>1. Become(v)
      BY <2>1, <2>6 DEF PathRemoved
    <3>2. Sane(x, steps, owner, over, streamed) /\ Only(w, x, i)
      BY <1>1, <2>2, <2>3, FlushOk
    <3>3. i \in DOMAIN x.subs /\ x.subs[i].kind = "path"
      BY <1>2, <1>4, <2>3, <3>2 DEF Only
    <3>4. Sane(v, steps, owner, over, streamed)
      BY <2>4, <3>2, <3>3
    <3>5. Sane(v, steps', owner', over', streamed')
      BY <1>2, <3>4
    <3> QED
      BY <1>1, <1>2, <3>1, <3>5, Kept
  <2> QED
    BY <1>7, <2>5, <2>6
<1> QED
  BY <1>6, <1>7

LEMMA OwnerKeeps ==
    ASSUME SubsInv, OwnerGone
    PROVE  SubsInv'
<1>1. /\ Sane(Now, steps, owner, over, streamed) /\ Now.subs = subs /\ Now.inbox = inbox
      /\ over \in BOOLEAN /\ \A r \in steps : r \in Span /\ r.end <= streamed
  BY InvParts
<1>2. ~owner' /\ owner' \in BOOLEAN /\ UNCHANGED <<subs, inbox, streamed, steps, over>>
  BY DEF OwnerGone
<1> PICK w : w = Now
  OBVIOUS
<1>3. Become(w)
  BY <1>2 DEF Become, Now
<1>4. Sane(w, steps, owner, over, streamed)
  BY <1>1
<1>5. Sane(w, steps, owner', over, streamed)
  BY <1>2, <1>4, UnownedOk
<1>6. Sane(w, steps', owner', over', streamed')
  BY <1>2, <1>5
<1> QED
  BY <1>1, <1>2, <1>3, <1>6, Kept

LEMMA SubsNext ==
    ASSUME SubsInv, [NextSubscriptions]_subVars
    PROVE  SubsInv'
<1>1. /\ Sane(Now, steps, owner, over, streamed) /\ Now \in World /\ Now.subs = subs /\ Now.inbox = inbox
      /\ streamed \in Nat /\ owner \in BOOLEAN /\ over \in BOOLEAN
      /\ \A r \in steps : r \in Span /\ r.end <= streamed
  BY InvParts
<1>2. Become(Now) <=> UNCHANGED <<subs, inbox>>
  BY DEF Become, Now
<1>3. CASE UNCHANGED subVars
  <2>1. UNCHANGED <<subs, inbox, streamed, steps, over, owner>>
    BY <1>3 DEF subVars
  <2>2. Sane(Now, steps', owner', over', streamed')
    BY <1>1, <2>1
  <2> QED
    BY <1>1, <1>2, <2>1, <2>2, Kept
<1>4. CASE Log
  <2>1. streamed' = streamed + 1 /\ UNCHANGED <<subs, inbox, steps, over, owner>>
    BY <1>4 DEF Log
  <2>2. streamed' \in Nat /\ streamed <= streamed'
    BY <1>1, <2>1
  <2>3. Sane(Now, steps, owner, over, streamed')
    BY <1>1, <2>2, Longer
  <2>4. Sane(Now, steps', owner', over', streamed')
    BY <2>1, <2>3
  <2>5. \A r \in steps' : r \in Span /\ r.end <= streamed'
    BY <1>1, <2>1 DEF Span
  <2> QED
    BY <1>1, <1>2, <2>1, <2>4, <2>5, Kept
<1>5. CASE Step
  BY <1>5, StepKeeps
<1>6. CASE StreamEnds
  BY <1>6, EndKeeps
<1>7. CASE OtherEvent
  <2> PICK e : e = [sub |-> 0, type |-> "other", start |-> 0, end |-> 0]
    OBVIOUS
  <2> PICK v : v = [subs |-> subs, inbox |-> Append(inbox, e)]
    OBVIOUS
  <2>1. Become(v) /\ UNCHANGED <<streamed, steps, over, owner>>
    BY <1>7 DEF OtherEvent, Become
  <2>2. e \in Posted /\ e.sub = 0 /\ e.type # "ended"
    BY DEF Posted
  <2>3. v \in World /\ v.subs = subs /\ v.inbox = Append(inbox, e)
    <3>1. subs \in Seq(Sub) /\ Append(inbox, e) \in Seq(Posted)
      BY <1>1, <2>2, WorldParts, AppendProperties
    <3> QED
      BY <3>1 DEF World
  <2>4. Sane(v, steps, owner, over, streamed)
    BY <1>1, <2>2, <2>3, OtherOk
  <2>5. Sane(v, steps', owner', over', streamed')
    BY <2>1, <2>4
  <2> QED
    BY <1>1, <2>1, <2>5, Kept
<1>8. CASE OwnerGone
  BY <1>8, OwnerKeeps
<1>9. ASSUME NEW kind \in Kinds, Register(kind) PROVE SubsInv'
  BY <1>9, RegisterKeeps
<1>10. ASSUME NEW i \in DOMAIN subs, TimerFires(i) PROVE SubsInv'
  <2>1. Become(Flush(Now, i)) /\ UNCHANGED <<streamed, steps, over, owner>>
    BY <1>10 DEF TimerFires
  <2>2. Sane(Flush(Now, i), steps, owner, over, streamed)
    <3>1. i \in DOMAIN Now.subs
      BY <1>1
    <3> QED
      BY <1>1, <3>1, FlushOk
  <2>3. Sane(Flush(Now, i), steps', owner', over', streamed')
    BY <2>1, <2>2
  <2> QED
    BY <1>1, <2>1, <2>3, Kept
<1>11. ASSUME NEW i \in DOMAIN subs, PathChanges(i) \/ PathRemoved(i) \/ WatchFails(i) PROVE SubsInv'
  BY <1>11, PathKeeps
<1>12. ASSUME NEW i \in DOMAIN subs, CancelSubscription(i) \/ CloseOne(i) PROVE SubsInv'
  <2>1. subs' = [subs EXCEPT ![i] = Cancelled(@)] /\ UNCHANGED <<inbox, streamed, steps, over, owner>>
    BY <1>12 DEF CancelSubscription, CloseOne
  <2> QED
    BY <2>1, CancelKeeps
<1> QED
  BY <1>3, <1>4, <1>5, <1>6, <1>7, <1>8, <1>9, <1>10, <1>11, <1>12 DEF NextSubscriptions

LEMMA SubsInit ==
    ASSUME InitSubscriptions
    PROVE  SubsInv
<1>1. subs = <<>> /\ inbox = <<>> /\ streamed = 0 /\ steps = {} /\ over = FALSE /\ owner = TRUE
  BY DEF InitSubscriptions
<1>2. Now = [subs |-> <<>>, inbox |-> <<>>]
  BY <1>1 DEF Now
<1>3. Now \in World /\ DOMAIN Now.subs = {} /\ DOMAIN Now.inbox = {}
  BY <1>2, EmptySeq DEF World
<1>4. Sane(Now, steps, owner, over, streamed)
  BY <1>1, <1>3 DEF Sane, Level
<1> QED
  BY <1>1, <1>4 DEF SubsInv

\* A message is in one batch that was sent or in the one that waits, if it was told at all.
LEMMA OnceOnly ==
    ASSUME SubsInv, owner, NEW i \in DOMAIN subs, Lasting(subs[i]), subs[i].kind = "stream",
           NEW m \in subs[i].first + 1 .. streamed, \E r \in steps : Covers(r, m)
    PROVE  Cardinality({k \in Sent(Now, i) : Covers(inbox[k], m)})
              + (IF Covers(subs[i].pending, m) THEN 1 ELSE 0) = IF m <= subs[i].cursor THEN 1 ELSE 0
<1> PICK s : s = subs[i]
  OBVIOUS
<1> DEFINE C == {k \in Sent(Now, i) : Covers(inbox[k], m)}
<1>1. /\ Now \in World /\ Now.subs = subs /\ Now.inbox = inbox /\ s \in Sub
      /\ Sane(Now, steps, owner, over, streamed) /\ i \in DOMAIN Now.subs
  BY InvParts
<1>2. /\ s.first \in Nat /\ s.cursor \in Nat /\ s.pending.start \in Nat /\ s.pending.end \in Nat
      /\ m \in Nat /\ m >= s.first + 1
  BY <1>1 DEF Sub, Span
<1>3. Streamed(Now, i, s, steps)
  BY <1>1 DEF Sane, SubOk, StreamOk
<1>4. Covers(s.pending, m) => Has(s)
  BY <1>2 DEF Covers, Has, NoRange
<1>5. ASSUME NEW k \in Sent(Now, i)
      PROVE  /\ k \in Nat /\ inbox[k].start \in Nat /\ inbox[k].end \in Nat
             /\ inbox[k].end <= s.cursor
             /\ Has(s) => inbox[k].end <= s.pending.start
  <2>1. k \in DOMAIN Now.inbox /\ k \in Nat
    BY <1>1, WorldParts DEF Sent
  <2>2. inbox[k] \in Posted
    BY <1>1, <2>1, WorldParts
  <2>3. inbox[k].start \in Nat /\ inbox[k].end \in Nat
    BY <2>2 DEF Posted
  <2>4. /\ inbox[k].end <= IF Has(s) THEN s.pending.start ELSE s.cursor
        /\ Has(s) => s.pending.start <= s.cursor
    BY <1>1, <1>3 DEF Streamed
  <2> QED
    BY <1>2, <2>1, <2>3, <2>4
<1>6. ASSUME NEW j \in C, NEW k \in C PROVE j = k
  <2> SUFFICES ASSUME NEW a \in C, NEW b \in C, a < b PROVE FALSE
    BY <1>5
  <2>1. inbox[a].end <= inbox[b].start
    BY <1>1, <1>3 DEF Streamed
  <2>2. m <= inbox[a].end /\ inbox[b].start < m
    BY DEF Covers
  <2>3. inbox[a].end \in Nat /\ inbox[b].start \in Nat
    BY <1>5
  <2> QED
    BY <1>2, <2>1, <2>2, <2>3
<1>7. CASE m <= s.cursor
  <2>1. Covers(s.pending, m) \/ C # {}
    <3>1. m \in s.first + 1 .. s.cursor
      BY <1>2, <1>7
    <3>2. Covers(s.pending, m) \/ \E k \in Sent(Now, i) : Covers(inbox[k], m)
      BY <1>1, <1>3, <3>1 DEF Streamed
    <3> QED
      BY <3>2
  <2>2. CASE Covers(s.pending, m)
    <3>1. ASSUME NEW k \in C PROVE FALSE
      <4>1. inbox[k].end <= s.pending.start /\ inbox[k].end \in Nat
        BY <1>4, <1>5, <2>2
      <4>2. m <= inbox[k].end /\ s.pending.start < m
        BY <2>2 DEF Covers
      <4> QED
        BY <1>2, <4>1, <4>2
    <3>2. C = {}
      BY <3>1
    <3>3. Cardinality(C) = 0
      BY <3>2, FS_EmptySet
    <3> QED
      BY <1>7, <2>2, <3>3
  <2>3. CASE ~Covers(s.pending, m)
    <3>1. PICK k : k \in C
      BY <2>1, <2>3
    <3>2. C = {k}
      BY <1>6, <3>1
    <3> HIDE DEF C
    <3>3. Cardinality(C) = 1
      BY <3>2, FS_Singleton
    <3> QED
      BY <1>7, <2>3, <3>3 DEF C
  <2> QED
    BY <2>2, <2>3
<1>8. CASE m > s.cursor
  <2>1. ASSUME NEW k \in C PROVE FALSE
    <3>1. m <= inbox[k].end /\ inbox[k].end <= s.cursor /\ inbox[k].end \in Nat
      BY <1>5 DEF Covers
    <3> QED
      BY <1>2, <1>8, <3>1
  <2>2. ~Covers(s.pending, m)
    <3> SUFFICES ASSUME Covers(s.pending, m) PROVE FALSE
      OBVIOUS
    <3>1. s.pending.end = s.cursor /\ m <= s.pending.end
      BY <1>3, <1>4 DEF Streamed, Covers
    <3> QED
      BY <1>2, <1>8, <3>1
  <2>3. C = {}
    BY <2>1
  <2>4. Cardinality(C) = 0
    BY <2>3, FS_EmptySet
  <2>5. ~(m <= s.cursor)
    BY <1>2, <1>8
  <2> QED
    BY <2>2, <2>4, <2>5
<1> QED
  BY <1>2, <1>7, <1>8

LEMMA SubsHold ==
    ASSUME SubsInv
    PROVE  BatchesAreWhole
<1>1. /\ Sane(Now, steps, owner, over, streamed) /\ Now \in World /\ Now.subs = subs /\ Now.inbox = inbox
      /\ \A r \in steps : r \in Span
  BY InvParts
<1>2. EachStepOnce
  <2> SUFFICES ASSUME owner, NEW i \in DOMAIN subs, subs[i].status \in {"active", "completed"}
               PROVE  /\ subs[i].kind = "stream" =>
                            \A n \in subs[i].first + 1 .. streamed : (\E r \in steps : Covers(r, n)) =>
                                Cardinality({k \in Sent(Now, i) : Covers(inbox[k], n)})
                                    + (IF Covers(subs[i].pending, n) THEN 1 ELSE 0) =
                                  IF n <= subs[i].cursor THEN 1 ELSE 0
                      /\ subs[i].kind = "stream" /\ subs[i].status = "active" => subs[i].cursor >= Reported
                      /\ subs[i].kind = "progress" =>
                            \A k \in Sent(Now, i) : inbox[k].start = Reaches(Now, i, k)
    BY DEF EachStepOnce
  <2>1. Lasting(subs[i]) /\ SubOk(Now, i, steps, owner, over) /\ subs[i] \in Sub
    BY <1>1, InvParts DEF Lasting, Sane
  <2>2. ASSUME subs[i].kind = "stream", NEW n \in subs[i].first + 1 .. streamed, \E r \in steps : Covers(r, n)
        PROVE  Cardinality({k \in Sent(Now, i) : Covers(inbox[k], n)})
                  + (IF Covers(subs[i].pending, n) THEN 1 ELSE 0) = IF n <= subs[i].cursor THEN 1 ELSE 0
    BY <2>1, <2>2, OnceOnly
  <2>3. ASSUME subs[i].kind = "stream", subs[i].status = "active" PROVE subs[i].cursor >= Reported
    <3>1. \A r \in steps : r.end <= subs[i].cursor
      BY <1>1, <2>1, <2>3 DEF SubOk, StreamOk, Streamed
    <3>2. Reported = 0 \/ \E r \in steps : r.end = Reported
      BY ReportedIs
    <3> QED
      BY <2>1, <3>1, <3>2, ReportedIs DEF Sub
  <2>4. ASSUME subs[i].kind = "progress" PROVE \A k \in Sent(Now, i) : inbox[k].start = Reaches(Now, i, k)
    BY <1>1, <2>1, <2>4 DEF SubOk, SlicesOk
  <2> QED
    BY <2>2, <2>3, <2>4
<1>3. OverIsOver
  <2>1. ASSUME NEW i \in DOMAIN subs PROVE QuietOk(Now, i, over)
    BY InvParts
  <2>2. \A i \in DOMAIN subs : subs[i].status # "active" => ~Has(subs[i]) /\ ~subs[i].timer
    BY <1>1, <2>1 DEF QuietOk, Quiet
  <2>3. \A i \in DOMAIN subs : \A j, k \in Sent(Now, i) :
           j < k /\ inbox[j].type = "failed" => inbox[k].type = "failed"
    BY <1>1, <2>1 DEF QuietOk, Quiet
  <2>4. ASSUME NEW j \in DOMAIN inbox, NEW k \in DOMAIN inbox, j < k, inbox[j].type = "ended", inbox[k].sub # 0
        PROVE  subs[inbox[k].sub].kind = "path"
    <3> PICK i : i = inbox[k].sub
      OBVIOUS
    <3>1. i \in DOMAIN subs
      <4>1. i \in 0 .. Len(subs)
        BY <1>1 DEF Sane
      <4>2. Len(subs) \in Nat /\ DOMAIN subs = 1 .. Len(subs)
        BY <1>1, WorldParts
      <4> QED
        BY <2>4, <4>1, <4>2
    <3>2. k \in Sent(Now, i) /\ j \in DOMAIN Now.inbox
      BY <1>1 DEF Sent
    <3> QED
      BY <1>1, <2>1, <2>4, <3>1, <3>2 DEF QuietOk, Quiet
  <2> QED
    BY <2>2, <2>3, <2>4 DEF OverIsOver
<1> QED
  BY <1>2, <1>3 DEF BatchesAreWhole

(***************************************************************************)
(* However many subscriptions, events and messages: what was reported of   *)
(* a stream while it was subscribed to is in one batch of it, sent or      *)
(* waiting, a progress slice begins where the last one ended, and a        *)
(* subscription that is over is silent (activity, progress, finish,        *)
(* _flush and _fail of Subscriptions).                                     *)
(***************************************************************************)
THEOREM BatchesStayWhole == PartsSpec => []BatchesAreWhole
<1>1. PartsInit => SubsInv
  BY SubsInit DEF PartsInit
<1>2. SubsInv /\ [PartsNext]_allVars => SubsInv'
  <2>1. [PartsNext]_allVars => [NextSubscriptions]_subVars
    BY DEF PartsNext, BrokerSteps, ContextSteps, EventSteps, SkillSteps, ServiceSteps, PathSteps,
           WorkerSteps, TurnSteps, TalkSteps, FileSteps, McpSteps, Rest1, Rest2, Rest3, allVars
  <2> QED
    BY <2>1, SubsNext
<1>3. SubsInv => BatchesAreWhole
  BY SubsHold
<1> QED
  BY <1>1, <1>2, <1>3, PTL DEF PartsSpec

=============================================================================
