--------------------------- MODULE Subscriptions ---------------------------
(***************************************************************************)
(* Subscriptions of one agent: to the steps of a child or the output of a  *)
(* job (a stream that grows and ends), to a child's progress thresholds,   *)
(* and to a path. Changes are batched behind a timer and published as      *)
(* events in the owner's inbox, which takes a limited number of them.      *)
(***************************************************************************)
EXTENDS Integers, FiniteSets, SequencesExt

CONSTANTS MaxSubs,   \* MAX_SUBSCRIPTIONS
          MaxActive, \* MAX_ACTIVE_SUBSCRIPTIONS
          MaxInbox,  \* MAX_INBOX_EVENTS
          Every,     \* the threshold a progress subscription asks for
          MaxLog     \* bound: messages of the stream

ASSUME SubscriptionConstants == Every \in Nat \ {0}

VARIABLES
    subs,      \* items, in the order they were registered
    inbox,     \* the owner's: events and their subscriptions
    streamed,  \* messages (or bytes) of the stream
    steps,     \* auxiliary: the ranges agent_step or _publish_job_output reported
    over,      \* the child was released, or the job finished
    owner      \* the owner's capability is known

subVars == <<subs, inbox, streamed, steps, over, owner>>

Kinds == {"stream", "progress", "path"}
NoRange == [start |-> 0, end |-> 0]
Changed == [start |-> 0, end |-> 1]  \* some paths, all of them or as many as fit
Has(s) == s.pending # NoRange

\* What a handler changes: the subscriptions and the inbox they publish to.
Now == [subs |-> subs, inbox |-> inbox]
Become(w) == subs' = w.subs /\ inbox' = w.inbox
Active(w, i) == w.subs[i].status = "active"

Event(i, type, s) == [sub |-> i, type |-> type, start |-> s.pending.start, end |-> s.pending.end]

InitSubscriptions ==
    /\ subs = <<>> /\ inbox = <<>> /\ streamed = 0 /\ steps = {} /\ over = FALSE /\ owner = TRUE

-----------------------------------------------------------------------------
Emptied(s) == [s EXCEPT !.pending = NoRange]

\* _publish_subscription: nothing reaches an owner that is gone.
Post(w, i, type, s) == IF owner THEN [w EXCEPT !.inbox = Append(@, Event(i, type, s))] ELSE w

Fail(w, i) ==
    LET s == [Emptied(w.subs[i]) EXCEPT !.status = "failed", !.timer = FALSE]
    IN Post([w EXCEPT !.subs[i] = s], i, "failed", s)

\* The limit stops a subscription with an event that is past the limit itself.
Publish(w, i, type, s) ==
    IF owner /\ Len(w.inbox) >= MaxInbox THEN Fail(w, i) ELSE Post(w, i, type, s)

Flush(w, i) ==
    LET s == w.subs[i]
        off == [w EXCEPT !.subs[i].timer = FALSE]
    IN IF ~Active(w, i) \/ ~Has(s) THEN off
       ELSE Publish([off EXCEPT !.subs[i] = Emptied(@)], i, "changes", s)

\* Mutant: a batch that is waiting is replaced.
ActivityAfresh(s, start, end) ==
    LET from == IF start > s.cursor THEN start ELSE s.cursor
    IN IF s.status # "active" \/ s.kind # "stream" \/ end <= from THEN s
       ELSE [s EXCEPT !.cursor = end, !.timer = TRUE, !.pending = [start |-> from, end |-> end]]

\* One subscription's share of activity().
Activity(s, start, end) ==
    LET from == IF start > s.cursor THEN start ELSE s.cursor
    IN IF s.status # "active" \/ s.kind # "stream" \/ end <= from THEN s
       ELSE [s EXCEPT !.cursor = end, !.timer = TRUE,
                      !.pending = [start |-> IF s.pending = NoRange THEN from ELSE @.start, end |-> end]]

\* activity(): the start found for one subscription carries over to the next.
Carried(w, start, i) ==
    LET before == {w.subs[j].cursor : j \in {k \in 1 .. i - 1 : Active(w, k) /\ w.subs[k].kind = "stream"}}
    IN CHOOSE m \in before \union {start} : \A n \in before \union {start} : n <= m

ReportOne(w, told, i, start, end) ==
    [told EXCEPT !.subs[i] = Activity(@, Carried(w, start, i), end)]

Batched(w, start, end) ==
    LET told[i \in 0 .. Len(w.subs)] == IF i = 0 THEN w ELSE ReportOne(w, told[i - 1], i, start, end)
    IN told
Report(w, start, end) == Batched(w, start, end)[Len(w.subs)]

\* progress(): the slice since the last event, when the next multiple was reached.
Reach(w, i, end) ==
    LET s == w.subs[i]
        told == [s EXCEPT !.cursor = end, !.next = (end \div Every + 1) * Every]
    IN IF ~Active(w, i) \/ s.kind # "progress" \/ end < s.next THEN w
       ELSE Publish([w EXCEPT !.subs[i] = told], i, "progress",
                    [s EXCEPT !.pending = [start |-> s.cursor, end |-> end]])

Reached(w, end) ==
    LET reached[i \in 0 .. Len(w.subs)] == IF i = 0 THEN w ELSE Reach(reached[i - 1], i, end)
    IN reached
Progress(w, end) == Reached(w, end)[Len(w.subs)]

\* finish(): what is batched goes first, and then the subscription is over.
FinishOne(w, i) ==
    LET flushed == Flush(w, i)
    IN IF ~Active(w, i) \/ w.subs[i].kind = "path" THEN w
       ELSE IF Active(flushed, i) THEN [flushed EXCEPT !.subs[i].status = "completed"] ELSE flushed

Finished(w) ==
    LET finished[i \in 0 .. Len(w.subs)] == IF i = 0 THEN w ELSE FinishOne(finished[i - 1], i)
    IN finished
FinishEach(w) == Finished(w)[Len(w.subs)]

-----------------------------------------------------------------------------
Register(kind) ==
    /\ owner /\ Len(subs) < MaxSubs
    /\ LET closed == over /\ kind # "path"
       IN /\ closed \/ Cardinality({i \in DOMAIN subs : subs[i].status = "active"}) < MaxActive
          /\ subs' = Append(subs, [kind |-> kind, status |-> IF closed THEN "completed" ELSE "active",
                                   first |-> streamed, cursor |-> streamed, next |-> Every,
                                   pending |-> NoRange, timer |-> FALSE, watch |-> kind = "path"])
    /\ UNCHANGED <<inbox, streamed, steps, over, owner>>

\* A message is logged; the step it belongs to is reported later, as a whole.
Log ==
    /\ ~over /\ streamed < MaxLog
    /\ streamed' = streamed + 1
    /\ UNCHANGED <<subs, inbox, steps, over, owner>>

Reported == IF steps = {} THEN 0 ELSE CHOOSE n \in {r.end : r \in steps} : \A r \in steps : r.end <= n

\* agent_step: a step starts where the last one ended, or later.
Step ==
    /\ ~over
    /\ \E start \in {Reported, Reported + 1} :
          /\ start < streamed
          /\ steps' = steps \union {[start |-> start, end |-> streamed]}
          /\ Become(Progress(Report(Now, start, streamed), streamed))
    /\ UNCHANGED <<streamed, over, owner>>

TimerFires(i) ==
    /\ subs[i].timer
    /\ Become(Flush(Now, i))
    /\ UNCHANGED <<streamed, steps, over, owner>>

Ending == [sub |-> 0, type |-> "ended", start |-> streamed, end |-> streamed]

\* _close_agent_subscriptions, _publish_job: the end of the stream is told last.
StreamEnds ==
    /\ ~over /\ over' = TRUE
    /\ LET w == FinishEach(Now)
       IN Become(IF owner THEN [w EXCEPT !.inbox = Append(@, Ending)] ELSE w)
    /\ UNCHANGED <<streamed, steps, owner>>

\* Another event takes room in the inbox.
OtherEvent ==
    /\ owner /\ Len(inbox) < MaxInbox
    /\ inbox' = Append(inbox, [sub |-> 0, type |-> "other", start |-> 0, end |-> 0])
    /\ UNCHANGED <<subs, streamed, steps, over, owner>>

\* _watch_path: a watch outlives its subscription until the next report.
PathChanges(i) ==
    /\ subs[i].watch
    /\ subs' = [subs EXCEPT ![i] =
          IF @.status # "active" THEN [@ EXCEPT !.watch = FALSE]
          ELSE [@ EXCEPT !.pending = Changed, !.timer = TRUE]]
    /\ UNCHANGED <<inbox, streamed, steps, over, owner>>

PathRemoved(i) ==
    /\ subs[i].watch
    /\ LET flushed == Flush([Now EXCEPT !.subs[i].watch = FALSE], i)
       IN Become(IF Active(flushed, i) THEN Fail(flushed, i) ELSE flushed)
    /\ UNCHANGED <<streamed, steps, over, owner>>

\* The watch itself breaks, whatever became of the subscription meanwhile.
WatchFails(i) ==
    /\ subs[i].watch
    /\ Become(Fail([Now EXCEPT !.subs[i].watch = FALSE], i))
    /\ UNCHANGED <<streamed, steps, over, owner>>

Cancelled(s) ==
    [Emptied(s) EXCEPT !.status = IF @ = "active" THEN "cancelled" ELSE @, !.timer = FALSE, !.watch = FALSE]

CancelSubscription(i) ==
    /\ owner
    /\ subs' = [subs EXCEPT ![i] = Cancelled(@)]
    /\ UNCHANGED <<inbox, streamed, steps, over, owner>>

\* The owner is released: first its capability goes, then one subscription after another.
OwnerGone == owner /\ owner' = FALSE /\ UNCHANGED <<subs, inbox, streamed, steps, over>>

CloseOne(i) ==
    /\ ~owner
    /\ \A j \in 1 .. i - 1 : subs[j] = Cancelled(subs[j])
    /\ subs' = [subs EXCEPT ![i] = Cancelled(@)]
    /\ UNCHANGED <<inbox, streamed, steps, over, owner>>

NextSubscriptions ==
    \/ Log \/ Step \/ StreamEnds \/ OtherEvent \/ OwnerGone
    \/ \E kind \in Kinds : Register(kind)
    \/ \E i \in DOMAIN subs :
          TimerFires(i) \/ PathChanges(i) \/ PathRemoved(i) \/ WatchFails(i) \/ CancelSubscription(i) \/ CloseOne(i)

-----------------------------------------------------------------------------
\* The events of a subscription, and where the last of them before an event ended.
Sent(w, i) == {k \in DOMAIN w.inbox : w.inbox[k].sub = i}
Earlier(w, i, k) == {j \in Sent(w, i) : j < k}
Reaches(w, i, k) ==
    IF Earlier(w, i, k) = {} THEN w.subs[i].first
    ELSE w.inbox[CHOOSE j \in Earlier(w, i, k) : \A l \in Earlier(w, i, k) : l <= j].end

Covers(r, n) == r.start < n /\ n <= r.end

(***************************************************************************)
(* Every message of every step reported while a subscription was on is in  *)
(* exactly one of its batches, sent or waiting, and in no batch twice;     *)
(* a progress slice begins where the last one ended. What a subscription   *)
(* that completed did not send was not there (activity, _flush, finish).   *)
(***************************************************************************)
EachStepOnce ==
    owner => \A i \in DOMAIN subs : subs[i].status \in {"active", "completed"} =>
        /\ subs[i].kind = "stream" =>
              \A n \in subs[i].first + 1 .. streamed : (\E r \in steps : Covers(r, n)) =>
                  Cardinality({k \in Sent(Now, i) : Covers(inbox[k], n)})
                      + (IF Covers(subs[i].pending, n) THEN 1 ELSE 0) = IF n <= subs[i].cursor THEN 1 ELSE 0
        /\ subs[i].kind = "stream" /\ subs[i].status = "active" => subs[i].cursor >= Reported
        /\ subs[i].kind = "progress" =>
              \A k \in Sent(Now, i) : inbox[k].start = Reaches(Now, i, k)

(***************************************************************************)
(* A subscription that is over holds nothing back and says nothing more:   *)
(* no timer, nothing batched, nothing but failures after a failure, and    *)
(* the end of the stream comes after the last batch of it (finish before   *)
(* shell.completed in _publish_job).                                       *)
(***************************************************************************)
OverIsOver ==
    /\ \A i \in DOMAIN subs : subs[i].status # "active" => ~Has(subs[i]) /\ ~subs[i].timer
    /\ \A i \in DOMAIN subs : \A j, k \in Sent(Now, i) :
          j < k /\ inbox[j].type = "failed" => inbox[k].type = "failed"
    /\ \A j, k \in DOMAIN inbox : j < k /\ inbox[j].type = "ended" /\ inbox[k].sub # 0 =>
          subs[inbox[k].sub].kind = "path"

\* A message of the stream is in one batch of a subscription, or waits for it, and a
\* subscription that is over holds nothing back and says no more.
BatchesAreWhole == EachStepOnce /\ OverIsOver
=============================================================================
