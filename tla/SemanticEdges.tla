---------------------------- MODULE SemanticEdges ----------------------------
(***************************************************************************)
(* Which model request follows from which: SemanticEdgeTracker             *)
(* (semantic.py), called by the prompts, compactions and refinements of    *)
(* the engines (engine.py) and by the calls of their cells (supervisor.py).*)
(*                                                                         *)
(* A session's edges wait ("pending") until its next work request starts   *)
(* and are committed when that request ends.  Summaries, roll-ups and      *)
(* refinement plans are side requests: they carry an attempt edge and take *)
(* nothing.  A prompt that fails is rolled back, and the continuation      *)
(* point with it; the edges already committed stay where they are.         *)
(*                                                                         *)
(* Requests are numbered in the order they start; 0 is no request.  The    *)
(* order of pending edges reaches no edge, so they are a set.              *)
(***************************************************************************)
EXTENDS Naturals, FiniteSets

CONSTANTS Children,     \* the agents the root may spawn
          Persistent,   \* those that stay idle for further instructions
          Compacting,   \* the sessions whose prompts compact,
          Refining,     \* and those that refine their harness
          MaxMail,      \* bound on the messages agents send each other
          MaxRequests   \* bound on the model requests of the tree

ASSUME EdgeConstants == /\ "root" \notin Children /\ "none" \notin Children
                        /\ Persistent \subseteq Children
                        /\ Compacting \cup Refining \subseteq Children \cup {"root"}
                        /\ MaxMail \in Nat /\ MaxRequests \in Nat

Sessions == {"root"} \cup Children
Requests == 1..MaxRequests
NoCall == [id |-> 0, kind |-> "none", inbound |-> {}, retry |-> FALSE]
NoCompaction == [stage |-> "none", source |-> 0, captured |-> {}, slot |-> 0, retry |-> FALSE]
NoRefinement == [on |-> FALSE, source |-> 0, slot |-> 0]
NoOrigin == [by |-> "none", kind |-> "none", from |-> 0]
NoMark == [count |-> 0, due |-> {}]
NoPoint == [last |-> 0, pending |-> {}, claimed |-> FALSE]

VARIABLES
    count,     \* requests started so far
    session,   \* _Session: the continuation point of each session ...
    returned,  \* ... returned_request_id and
    stopped,   \* cancel_recorded
    saved,     \* the checkpoint of the running prompt
    phase,     \* where the prompt is: idle, ready, retry, calling, replied, cell, side
    call,      \* the open _Request
    scope,     \* the running cell's _Scope.request_id
    comp,      \* the open _Compaction
    refine,    \* the open _Refinement
    edges,     \* the committed edges
    status,    \* each child: unborn, running, idle, completed, failed, cancelled
    spawner,   \* spawned_by_request_id
    result,    \* result_request_id
    mail,      \* unread events and queued instructions, by their source request,
    sent,      \* and the number of messages sent
    raised,    \* a ValueError of the tracker reached the engine
    origin,    \* history: whose request each is, and what it continues,
    gone,      \* the requests of rolled-back prompts,
    due,       \* the edges delivered to each session outside rolled-back prompts,
    mark       \* and these histories when the running prompt began

trackerVars == <<count, session, returned, stopped, edges, raised>>
promptVars == <<saved, phase, call, scope, comp, refine>>
treeVars == <<status, spawner, result, mail, sent>>
historyVars == <<origin, gone, due, mark>>
vars == <<trackerVars, promptVars, treeVars, historyVars>>

Into(from, id) == {<<e[1], id, e[2]>> : e \in from}
Running(s) == IF s = "root" THEN TRUE ELSE status[s] = "running"
Quiet(s) == call[s] = NoCall

Init ==
    /\ count = 0
    /\ session = [s \in Sessions |-> NoPoint]
    /\ returned = [s \in Sessions |-> 0]
    /\ stopped = {}
    /\ saved = [s \in Sessions |-> NoPoint]
    /\ phase = [s \in Sessions |-> "idle"]
    /\ call = [s \in Sessions |-> NoCall]
    /\ scope = [s \in Sessions |-> 0]
    /\ comp = [s \in Sessions |-> NoCompaction]
    /\ refine = [s \in Sessions |-> NoRefinement]
    /\ edges = {}
    /\ status = [c \in Children |-> "unborn"]
    /\ spawner = [c \in Children |-> 0]
    /\ result = [c \in Children |-> 0]
    /\ mail = [s \in Sessions |-> {}]
    /\ sent = 0
    /\ raised = FALSE
    /\ origin = [r \in Requests |-> NoOrigin]
    /\ gone = {}
    /\ due = [s \in Sessions |-> {}]
    /\ mark = [s \in Sessions |-> NoMark]
----------------------------------------------------------------------------
Originates(s, kind) ==
    origin' = [origin EXCEPT ![count + 1] = [by |-> s, kind |-> kind, from |-> session[s].last]]

\* deliver_message, from a request that there is.
Deliver(s, new) ==
    LET known == {e \in new : e[1] # 0}
    IN /\ session' = [session EXCEPT ![s].pending = @ \cup known]
       /\ due' = [due EXCEPT ![s] = @ \cup known]

\* prompt: checkpoint before anything that may fail; an agent that is woken has
\* taken its instructions before (_run_child).
BeginPrompt(s) ==
    /\ Running(s)
    /\ phase[s] = "idle"
    /\ LET new == IF s = "root" THEN {} ELSE IF result[s] # 0 THEN {<<q, "message">> : q \in mail[s]} ELSE {}
       IN /\ Deliver(s, new)
          /\ mail' = [mail EXCEPT ![s] = IF new = {} THEN @ ELSE {}]
    /\ saved' = [saved EXCEPT ![s] = session'[s]]
    /\ mark' = [mark EXCEPT ![s] = [count |-> count, due |-> due'[s]]]
    /\ phase' = [phase EXCEPT ![s] = "ready"]
    /\ UNCHANGED <<count, returned, stopped, edges, raised, call, scope, comp, refine,
                   status, spawner, result, sent, origin, gone>>

\* start_request without a side operation: it takes all that is pending, the
\* spawn once, and continues the last request unless an edge from it is there.
StartWork(s) ==
    /\ phase[s] \in {"ready", "replied", "retry"}
    /\ count < MaxRequests
    /\ LET p == session[s].pending \cup
                  IF s # "root" /\ ~session[s].claimed THEN {<<spawner[s], "call">>} ELSE {}
           q == session[s].last
       IN call' = [call EXCEPT ![s] =
             [id |-> count + 1, kind |-> "work", retry |-> phase[s] = "retry",
              inbound |-> p \cup IF q = 0 \/ \E e \in p : e[1] = q
                                   THEN {} ELSE {<<q, "continuation">>}]]
    /\ session' = [session EXCEPT ![s] = [@ EXCEPT !.pending = {}, !.claimed = s # "root"]]
    /\ count' = count + 1
    /\ Originates(s, "work")
    /\ phase' = [phase EXCEPT ![s] = "calling"]
    /\ UNCHANGED <<returned, stopped, edges, raised, saved, scope, comp, refine,
                   treeVars, gone, due, mark>>

\* finish_request of a work request; its reply calls a tool, or asks for another
\* turn (a nudge, steering, several tool calls).
FinishWork(s, next) ==
    /\ phase[s] = "calling"
    /\ edges' = edges \cup Into(call[s].inbound, call[s].id)
    /\ session' = [session EXCEPT ![s].last = call[s].id]
    /\ scope' = [scope EXCEPT ![s] = IF next = "cell" THEN call[s].id ELSE 0]
    /\ call' = [call EXCEPT ![s] = NoCall]
    /\ phase' = [phase EXCEPT ![s] = next]
    /\ UNCHANGED <<count, returned, stopped, raised, saved, comp, refine, treeVars, historyVars>>

\* The inbound edges of a work request that failed are pending again.
PutBackNothing(s) ==  \* a bug
    session' = session
PutBack(s) ==
    session' = [session EXCEPT ![s].pending = @ \cup call[s].inbound]

\* _complete: an overflow compacts and calls again, once.
Overflow(s) ==
    /\ s \in Compacting
    /\ phase[s] = "calling"
    /\ ~call[s].retry
    /\ PutBack(s)
    /\ comp' = [comp EXCEPT ![s] =
          [stage |-> "summary", source |-> session[s].last, slot |-> 0, retry |-> TRUE,
           captured |-> session'[s].pending]]
    /\ call' = [call EXCEPT ![s] = NoCall]
    /\ phase' = [phase EXCEPT ![s] = "side"]
    /\ UNCHANGED <<count, returned, stopped, edges, raised, saved, scope, refine,
                   treeVars, historyVars>>

\* begin_compaction at the end of a turn, or of one cut short by its length
\* (then the turn's request is made again).
BeginCompaction(s) ==
    /\ s \in Compacting
    /\ phase[s] = "replied"
    /\ \E again \in BOOLEAN :
         comp' = [comp EXCEPT ![s] =
            [stage |-> "summary", source |-> session[s].last, slot |-> 0, retry |-> again,
             captured |-> session[s].pending]]
    /\ phase' = [phase EXCEPT ![s] = "side"]
    /\ UNCHANGED <<trackerVars, saved, call, scope, refine, treeVars, historyVars>>

\* What a prompt leaves when it ends: the parent hears of its child's end.
EndsAs(s, last) ==
    /\ phase' = [phase EXCEPT ![s] = "idle"]
    /\ saved' = [saved EXCEPT ![s] = NoPoint]
    /\ mark' = [mark EXCEPT ![s] = NoMark]
    /\ UNCHANGED <<origin, gone, due>>
    /\ IF s = "root" THEN UNCHANGED treeVars
         ELSE /\ status' = [status EXCEPT ![s] = IF s \notin Persistent THEN "completed"
                                                 ELSE IF mail[s] = {} THEN "idle" ELSE "running"]
              /\ result' = [result EXCEPT ![s] = last]
              /\ mail' = [mail EXCEPT !["root"] = @ \cup ({last} \ {0})]
              /\ UNCHANGED <<spawner, sent>>

\* A prompt ends with its answer, or with a spent budget.
EndPrompt(s) ==
    /\ phase[s] \in {"ready", "replied"}
    /\ EndsAs(s, session[s].last)
    /\ UNCHANGED <<trackerVars, call, scope, comp, refine>>

\* The request overflows again after a compaction: CompactionFailed ends the
\* prompt without rolling it back.
OverflowAgain(s) ==
    /\ phase[s] = "calling"
    /\ call[s].retry
    /\ PutBack(s)
    /\ call' = [call EXCEPT ![s] = NoCall]
    /\ EndsAs(s, session[s].last)
    /\ UNCHANGED <<count, returned, stopped, edges, raised, scope, comp, refine>>
----------------------------------------------------------------------------
\* start_request of a side operation; a slot that is taken is a ValueError.
StartSide(s, kind, inbound) ==
    /\ phase[s] = "side"
    /\ Quiet(s)
    /\ count < MaxRequests
    /\ call' = [call EXCEPT ![s] =
          [id |-> count + 1, kind |-> kind, inbound |-> inbound, retry |-> FALSE]]
    /\ count' = count + 1
    /\ Originates(s, kind)
    /\ UNCHANGED <<session, returned, stopped, edges, saved, phase, scope,
                   treeVars, gone, due, mark>>

Attempt(s) ==
    LET c == comp[s]
    IN {e \in c.captured : e[1] # c.source} \cup
       IF c.source = 0 THEN {} ELSE {<<c.source, "attempt">>}

StartSummary(s) ==
    /\ comp[s].stage = "summary"
    /\ StartSide(s, "summary", Attempt(s))
    /\ raised' = (raised \/ comp[s].slot # 0)
    /\ comp' = [comp EXCEPT ![s].slot = count + 1]
    /\ UNCHANGED refine

StartRollup(s) ==
    /\ comp[s].stage = "rollup"
    /\ StartSide(s, "rollup", Attempt(s))
    /\ UNCHANGED <<raised, comp, refine>>

StartPlan(s) ==
    /\ refine[s].on
    /\ StartSide(s, "plan", IF refine[s].source = 0 THEN {}
                              ELSE {<<refine[s].source, "refinement_attempt">>})
    /\ raised' = (raised \/ refine[s].slot # 0)
    /\ refine' = [refine EXCEPT ![s].slot = count + 1]
    /\ UNCHANGED comp

Answered(s) ==
    /\ edges' = edges \cup Into(call[s].inbound, call[s].id)
    /\ call' = [call EXCEPT ![s] = NoCall]
    /\ UNCHANGED <<count, session, returned, stopped, saved, scope, treeVars, historyVars>>

\* _branch_summary: a usable summary becomes a block; another is released and
\* asked for again.
SummaryUsed(s) ==
    /\ call[s].kind = "summary"
    /\ Answered(s)
    /\ comp' = [comp EXCEPT ![s].stage = "rollup"]
    /\ UNCHANGED <<raised, phase, refine>>

SummaryReleased(s) ==
    /\ call[s].kind = "summary"
    /\ Answered(s)
    /\ raised' = (raised \/ comp[s].slot = 0)
    /\ comp' = [comp EXCEPT ![s].slot = 0]
    /\ UNCHANGED <<phase, refine>>

\* ... and the last unusable one ends the prompt, marked as the violation.
SummaryViolates(s) ==
    /\ call[s].kind = "summary"
    /\ edges' = edges \cup Into(call[s].inbound, call[s].id) \cup
                IF comp[s].source = 0 THEN {}
                  ELSE {<<comp[s].source, comp[s].slot, "violation">>}
    /\ raised' = (raised \/ comp[s].slot = 0)
    /\ call' = [call EXCEPT ![s] = NoCall]
    /\ comp' = [comp EXCEPT ![s] = NoCompaction]
    /\ EndsAs(s, session[s].last)
    /\ UNCHANGED <<count, session, returned, stopped, scope, refine>>

\* fail_request of a side request: what is tried again finds its slot free.
FailSideAnySlot(s) ==  \* a bug: a roll-up gives up the summary's slot
    /\ phase[s] = "side"
    /\ ~Quiet(s)
    /\ call' = [call EXCEPT ![s] = NoCall]
    /\ comp' = [comp EXCEPT ![s].slot = 0]
    /\ refine' = [refine EXCEPT ![s].slot = IF @ = call[s].id THEN 0 ELSE @]
    /\ UNCHANGED <<trackerVars, saved, phase, scope, treeVars, historyVars>>

FailSide(s) ==
    /\ phase[s] = "side"
    /\ ~Quiet(s)
    /\ call' = [call EXCEPT ![s] = NoCall]
    /\ comp' = [comp EXCEPT ![s].slot = IF @ = call[s].id THEN 0 ELSE @]
    /\ refine' = [refine EXCEPT ![s].slot = IF @ = call[s].id THEN 0 ELSE @]
    /\ UNCHANGED <<trackerVars, saved, phase, scope, treeVars, historyVars>>

\* No attempt gave a summary: finish_compaction("failed"), and the prompt ends.
GiveUpSummary(s) ==
    /\ comp[s].stage = "summary"
    /\ Quiet(s)
    /\ comp' = [comp EXCEPT ![s] = NoCompaction]
    /\ EndsAs(s, session[s].last)
    /\ UNCHANGED <<trackerVars, call, scope, refine>>

\* _seal_rollups: a roll-up's reply, usable or not, changes no edge but its own.
RollupAnswered(s) ==
    /\ call[s].kind = "rollup"
    /\ Answered(s)
    /\ UNCHANGED <<raised, phase, comp, refine>>

\* finish_compaction("completed").
FinishCompaction(s) ==
    /\ comp[s].stage = "rollup"
    /\ Quiet(s)
    /\ raised' = (raised \/ comp[s].slot = 0 \/ ~(comp[s].captured \subseteq session[s].pending))
    /\ session' = [session EXCEPT
          ![s].last = comp[s].slot,
          ![s].pending = (@ \ comp[s].captured) \cup {<<comp[s].slot, "compaction">>}]
    /\ due' = [due EXCEPT ![s] = @ \cup {<<comp[s].slot, "compaction">>}]
    /\ phase' = [phase EXCEPT ![s] = IF comp[s].retry THEN "retry" ELSE "ready"]
    /\ comp' = [comp EXCEPT ![s] = NoCompaction]
    /\ UNCHANGED <<count, returned, stopped, edges, saved, call, scope, refine,
                   treeVars, origin, gone, mark>>

\* _refine at a turn boundary.
BeginRefinement(s) ==
    /\ s \in Refining
    /\ phase[s] \in {"ready", "replied"}
    /\ refine' = [refine EXCEPT ![s] = [on |-> TRUE, source |-> session[s].last, slot |-> 0]]
    /\ phase' = [phase EXCEPT ![s] = "side"]
    /\ UNCHANGED <<trackerVars, saved, call, scope, comp, treeVars, historyVars>>

PlanReleased(s) ==
    /\ call[s].kind = "plan"
    /\ Answered(s)
    /\ raised' = (raised \/ refine[s].slot = 0)
    /\ refine' = [refine EXCEPT ![s].slot = 0]
    /\ UNCHANGED <<phase, comp>>

\* finish_refinement: an applied plan is an edge to the next work request.
PlanApplied(s) ==
    /\ call[s].kind = "plan"
    /\ edges' = edges \cup Into(call[s].inbound, call[s].id)
    /\ raised' = (raised \/ refine[s].slot = 0)
    /\ Deliver(s, {<<refine[s].slot, "refinement">>})
    /\ call' = [call EXCEPT ![s] = NoCall]
    /\ refine' = [refine EXCEPT ![s] = NoRefinement]
    /\ phase' = [phase EXCEPT ![s] = "ready"]
    /\ UNCHANGED <<count, returned, stopped, saved, scope, comp, treeVars, origin, gone, mark>>

\* A plan without edits, or no usable plan.
PlanDropped(s) ==
    /\ refine[s].on
    /\ IF Quiet(s) THEN UNCHANGED <<call, edges>>
         ELSE /\ edges' = edges \cup Into(call[s].inbound, call[s].id)
              /\ call' = [call EXCEPT ![s] = NoCall]
    /\ refine' = [refine EXCEPT ![s] = NoRefinement]
    /\ phase' = [phase EXCEPT ![s] = "ready"]
    /\ UNCHANGED <<count, session, returned, stopped, raised, saved, scope, comp,
                   treeVars, historyVars>>
----------------------------------------------------------------------------
\* The calls of a cell carry the request the cell came from.
InCell(s) == phase[s] = "cell"

CloseCell(s) ==
    /\ InCell(s)
    /\ phase' = [phase EXCEPT ![s] = "replied"]
    /\ scope' = [scope EXCEPT ![s] = 0]
    /\ UNCHANGED <<trackerVars, saved, call, comp, refine, treeVars, historyVars>>

Spawn(c) ==
    /\ InCell("root")
    /\ status[c] = "unborn"
    /\ status' = [status EXCEPT ![c] = "running"]
    /\ spawner' = [spawner EXCEPT ![c] = scope["root"]]
    /\ due' = [due EXCEPT ![c] = {<<scope["root"], "call">>}]
    /\ UNCHANGED <<trackerVars, promptVars, result, mail, sent, origin, gone, mark>>

\* agent.report, from the child's cell.
Report(c) ==
    /\ InCell(c)
    /\ sent < MaxMail
    /\ sent' = sent + 1
    /\ mail' = [mail EXCEPT !["root"] = @ \cup {scope[c]}]
    /\ UNCHANGED <<trackerVars, promptVars, status, spawner, result, historyVars>>

\* inbox.read of an unread event.
Read(q) ==
    /\ InCell("root")
    /\ q \in mail["root"]
    /\ mail' = [mail EXCEPT !["root"] = @ \ {q}]
    /\ Deliver("root", {<<q, "message">>})
    /\ UNCHANGED <<count, returned, stopped, edges, raised, promptVars, status, spawner,
                   result, sent, origin, gone, mark>>

\* agent.send and agent.steer wake an idle agent; take_instructions.
Send(c) ==
    /\ InCell("root")
    /\ status[c] \in {"running", "idle"}
    /\ sent < MaxMail
    /\ sent' = sent + 1
    /\ status' = [status EXCEPT ![c] = "running"]
    /\ mail' = [mail EXCEPT ![c] = @ \cup {scope["root"]}]
    /\ UNCHANGED <<trackerVars, promptVars, spawner, result, historyVars>>

TakeMail(c) ==
    /\ phase[c] \in {"ready", "replied"}
    /\ mail[c] # {}
    /\ Deliver(c, {<<q, "message">> : q \in mail[c]})
    /\ mail' = [mail EXCEPT ![c] = {}]
    /\ UNCHANGED <<count, returned, stopped, edges, raised, promptVars, status, spawner,
                   result, sent, origin, gone, mark>>

\* finish_subagent: a request returns once.

HandBack(c, q, type) ==
    IF q = 0 \/ returned[c] = q THEN UNCHANGED <<session, due, returned>>
      ELSE /\ Deliver("root", {<<q, type>>})
           /\ returned' = [returned EXCEPT ![c] = q]

\* agent.result of a run that ended, and of a failed one.
Result(c) ==
    /\ InCell("root")
    /\ result[c] # 0 /\ status[c] \in {"running", "idle", "completed"}
    /\ HandBack(c, result[c], "return")
    /\ UNCHANGED <<count, stopped, edges, raised, promptVars, treeVars, origin, gone, mark>>

ResultFailed(c) ==
    /\ InCell("root")
    /\ status[c] = "failed"
    /\ HandBack(c, session[c].last, "failed")
    /\ UNCHANGED <<count, stopped, edges, raised, promptVars, treeVars, origin, gone, mark>>

\* record_subagent_cancel: once, and only of a child that has a last request.
RecordCancel(c, target) ==
    LET recorded == scope["root"] # 0 /\ target # 0 /\ c \notin stopped
    IN /\ edges' = edges \cup
            IF recorded THEN {<<scope["root"], target, "cancel">>} ELSE {}
       /\ stopped' = stopped \cup IF recorded THEN {c} ELSE {}
----------------------------------------------------------------------------
\* The rollback of a prompt: the open request has failed, the open side
\* operation has ended, and restore puts the continuation point back.
RestoredLate(s) ==  \* a bug: the last request is kept
    [saved[s] EXCEPT !.last = session[s].last]
Restored(s) == saved[s]

Unwind(s) ==
    /\ session' = [session EXCEPT ![s] = Restored(s)]
    /\ call' = [call EXCEPT ![s] = NoCall]
    /\ comp' = [comp EXCEPT ![s] = NoCompaction]
    /\ refine' = [refine EXCEPT ![s] = NoRefinement]
    /\ phase' = [phase EXCEPT ![s] = "idle"]
    /\ scope' = [scope EXCEPT ![s] = 0]
    /\ saved' = [saved EXCEPT ![s] = NoPoint]
    /\ gone' = gone \cup {r \in Requests : origin[r].by = s /\ r > mark[s].count}
    /\ due' = [due EXCEPT ![s] = mark[s].due]
    /\ mark' = [mark EXCEPT ![s] = NoMark]

\* A prompt is cancelled or fails, at any await.
Rollback ==
    /\ phase["root"] # "idle"
    /\ Unwind("root")
    /\ UNCHANGED <<count, returned, stopped, edges, raised, treeVars, origin>>

ChildFails(c) ==
    /\ phase[c] # "idle"
    /\ Unwind(c)
    /\ status' = [status EXCEPT ![c] = "failed"]
    /\ mail' = [mail EXCEPT !["root"] = @ \cup ({session'[c].last} \ {0})]
    /\ UNCHANGED <<count, returned, stopped, edges, raised, spawner, result, sent, origin>>

\* agent.cancel in the root's cell: once the child is stopped, that is recorded.
CancelChild(c) ==
    /\ InCell("root")
    /\ status[c] \in {"running", "idle"}
    /\ IF phase[c] = "idle" THEN UNCHANGED <<session, gone, due, mark, promptVars>> ELSE Unwind(c)
    /\ status' = [status EXCEPT ![c] = "cancelled"]
    /\ RecordCancel(c, session'[c].last)
    /\ UNCHANGED <<count, returned, raised, spawner, result, mail, sent, origin>>

\* agent.result of a cancelled child.
ResultCancelled(c) ==
    /\ InCell("root")
    /\ status[c] = "cancelled"
    /\ RecordCancel(c, session[c].last)
    /\ UNCHANGED <<count, session, returned, raised, promptVars, treeVars, origin, gone,
                   due, mark>>

Next ==
    \/ \E s \in Sessions :
         \/ BeginPrompt(s) \/ StartWork(s) \/ Overflow(s) \/ OverflowAgain(s)
         \/ \E next \in {"replied", "cell"} : FinishWork(s, next)
         \/ EndPrompt(s) \/ CloseCell(s)
         \/ BeginCompaction(s) \/ StartSummary(s) \/ SummaryUsed(s) \/ SummaryReleased(s)
         \/ SummaryViolates(s) \/ GiveUpSummary(s) \/ StartRollup(s) \/ RollupAnswered(s)
         \/ FinishCompaction(s) \/ FailSide(s)
         \/ BeginRefinement(s) \/ StartPlan(s) \/ PlanReleased(s) \/ PlanApplied(s)
         \/ PlanDropped(s)
    \/ Rollback
    \/ \E q \in Requests : Read(q)
    \/ \E c \in Children :
         \/ Spawn(c) \/ Report(c) \/ Send(c) \/ TakeMail(c) \/ Result(c) \/ ResultFailed(c)
         \/ ChildFails(c) \/ CancelChild(c) \/ ResultCancelled(c)

Spec == Init /\ [][Next]_vars
----------------------------------------------------------------------------
Ids == 0..MaxRequests

Surviving == {e \in edges : e[2] \notin gone}
Committed(s) == {<<e[1], e[3]>> : e \in {f \in Surviving : origin[f[2]].by = s}}

\* No call of the tracker meets one of its ValueErrors: an attempt finds the slot
\* free, a completed compaction its summary and the edges it captured.
NeverRaises == ~raised

\* An edge that was delivered outside a rolled-back prompt is pending, or carried
\* by the open request, or was carried by a request that survived, through any
\* failures, retries, compactions and rollbacks.
NothingLost ==
    \A s \in Sessions : \A e \in due[s] :
        \/ e \in session[s].pending \cup call[s].inbound \cup Committed(s)
        \/ e[2] = "call" /\ ~session[s].claimed
        \/ <<e[1], "attempt">> \in Committed(s)

\* A request that survived continues one that survived, and the graph says so:
\* there is an edge from the session's continuation point when it was started.
ContinuesSurvivor ==
    \A e \in Surviving :
        LET o == origin[e[2]]
        IN (e[3] # "cancel" /\ o.from # 0) =>
              /\ o.from \notin gone
              /\ \E f \in edges : f[1] = o.from /\ f[2] = e[2]

\* A spawn, a return, a compaction or a refinement leads to one work request of
\* those that survived.
ConsumedOnce ==
    \A e, f \in Surviving :
        (/\ e[1] = f[1] /\ e[3] = f[3]
         /\ e[3] \in {"call", "return", "compaction", "refinement"}
         /\ origin[e[2]].kind = "work" /\ origin[f[2]].kind = "work"
         /\ origin[e[2]].by = origin[f[2]].by)
        => e = f

\* Every edge that is due is carried by one request of those that survive.
CarriedOnce == NothingLost /\ ConsumedOnce
=============================================================================
