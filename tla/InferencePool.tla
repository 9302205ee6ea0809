--------------------------- MODULE InferencePool ---------------------------
(***************************************************************************)
(* `_InferencePool` (supervisor.py): the permits that bound the model      *)
(* calls of a session tree, `inference_slot`, which takes one around each  *)
(* attempt, and the tasks that wait.  A waiter is a future in a heap;      *)
(* cancelling a task cancels its future but leaves the entry in the heap,  *)
(* and a granted task runs only when the event loop resumes it, so a       *)
(* cancellation can land after the grant.                                  *)
(*                                                                         *)
(* A call is named by its heap ticket.  `depth` gives the depth of the     *)
(* agent making the t-th call: any sequence of arrivals is some function.  *)
(***************************************************************************)
EXTENDS Integers, FiniteSets

CONSTANTS Capacity,   \* policy.max_concurrent_subagents
          Depths,     \* depths of the agents that make calls
          MaxTickets  \* bound on the number of calls

ASSUME PoolConstants ==
    /\ Capacity \in Nat \ {0}
    /\ MaxTickets \in Nat
    /\ Depths \subseteq Nat

VARIABLES depth,      \* depth of the agent making the t-th call
          tickets,    \* self._tickets: the next ticket
          available,  \* self.available
          waiters,    \* self._waiters, the heap, as the set of its tickets
          future,     \* future[t]: the t-th call's waiter future
          cancelled,  \* cancelled[t]: task.cancel() reached the waiting task
          task        \* task[t]: where the t-th call's task is

poolVars == <<depth, tickets, available, waiters, future, cancelled, task>>

Tickets == 0 .. MaxTickets - 1

\* The heap's order on (depth, ticket).
Before(t, u) == depth[t] < depth[u] \/ (depth[t] = depth[u] /\ t < u)
----------------------------------------------------------------------------
\* The outcome of _drain's loop on heap w, futures f and a free permits: the
\* first `a` entries that are not cancelled are granted, and every entry ahead
\* of the first one left without a permit is popped.
LiveIn(w, f) == {t \in w : f[t] # "cancelled"}

AdmittedFifo(w, f, a) ==  \* a bug: the depth is ignored
    {t \in LiveIn(w, f) : Cardinality({u \in LiveIn(w, f) : u < t}) < a}

Admitted(w, f, a) ==
    {t \in LiveIn(w, f) : Cardinality({u \in LiveIn(w, f) : Before(u, t)}) < a}

Kept(w, f, a) ==
    LET left == LiveIn(w, f) \ Admitted(w, f, a)
    IN  {t \in w : \E u \in left : u = t \/ Before(u, t)}

Drain(w, f, a) ==
    /\ waiters' = Kept(w, f, a)
    /\ future' = [t \in Tickets |->
                    IF t \in Admitted(w, f, a) THEN "granted" ELSE f[t]]
    /\ available' = a - Cardinality(Admitted(w, f, a))

\* A release that forgets to drain.
ReleaseNoDrain ==
    /\ available' = available + 1
    /\ UNCHANGED <<waiters, future>>

Release == Drain(waiters, future, available + 1)
----------------------------------------------------------------------------
PoolInit ==
    /\ depth \in [Tickets -> Depths]
    /\ tickets = 0
    /\ available = Capacity
    /\ waiters = {}
    /\ future = [t \in Tickets |-> "none"]
    /\ cancelled = [t \in Tickets |-> FALSE]
    /\ task = [t \in Tickets |-> "new"]

\* acquire() up to its await.
Acquire(t) ==
    /\ t = tickets
    /\ tickets' = tickets + 1
    /\ Drain(waiters \union {t}, [future EXCEPT ![t] = "pending"], available)
    /\ task' = [task EXCEPT ![t] = "waiting"]
    /\ UNCHANGED <<depth, cancelled>>

\* task.cancel() of a task in acquire(): cancels a pending future; a granted
\* one is left, and the task is resumed with CancelledError instead.
CancelCall(t) ==
    /\ task[t] = "waiting"
    /\ ~cancelled[t]
    /\ cancelled' = [cancelled EXCEPT ![t] = TRUE]
    /\ future' = [future EXCEPT ![t] = IF @ = "pending" THEN "cancelled" ELSE @]
    /\ UNCHANGED <<depth, tickets, available, waiters, task>>

\* The event loop resumes acquire() after its future is done: holding a permit.
Resume(t) ==
    /\ task[t] = "waiting"
    /\ future[t] = "granted"
    /\ ~cancelled[t]
    /\ task' = [task EXCEPT ![t] = "holding"]
    /\ UNCHANGED <<depth, tickets, available, waiters, future, cancelled>>

\* Bug: the CancelledError handler always takes the branch of a cancelled future.
ResumeCancelledLeaks(t) ==
    /\ task[t] = "waiting"
    /\ cancelled[t]
    /\ Drain(waiters, future, available)
    /\ task' = [task EXCEPT ![t] = "done"]
    /\ UNCHANGED <<depth, tickets, cancelled>>

\* ... or with CancelledError: a permit granted in the meantime is given back.
ResumeCancelled(t) ==
    /\ task[t] = "waiting"
    /\ cancelled[t]
    /\ IF future[t] = "cancelled" THEN Drain(waiters, future, available)
                                  ELSE Release
    /\ task' = [task EXCEPT ![t] = "done"]
    /\ UNCHANGED <<depth, tickets, cancelled>>

\* The attempt ends, by a response, an error or a cancellation: inference_slot's
\* finally.  A retry's backoff holds no permit and acquires with a new ticket.
Finish(t) ==
    /\ task[t] = "holding"
    /\ Release
    /\ task' = [task EXCEPT ![t] = "done"]
    /\ UNCHANGED <<depth, tickets, cancelled>>

PoolNext == \E t \in Tickets :
    Acquire(t) \/ CancelCall(t) \/ Resume(t) \/ ResumeCancelled(t) \/ Finish(t)

PoolSpec == PoolInit /\ [][PoolNext]_poolVars

\* The event loop runs every ready task, and the SDK's request timeout ends
\* every attempt.  Nothing obliges anyone to call or to cancel.
PoolFairness == \A t \in Tickets :
    WF_poolVars(Resume(t)) /\ WF_poolVars(ResumeCancelled(t)) /\ WF_poolVars(Finish(t))

FairPoolSpec == PoolSpec /\ PoolFairness
----------------------------------------------------------------------------
\* Every variable stays in its range; a cancelled future belongs to a task
\* that was cancelled, and only calls already made have futures.
PoolTypes ==
    /\ depth \in [Tickets -> Depths]
    /\ tickets \in 0 .. MaxTickets
    /\ available \in 0 .. Capacity
    /\ waiters \subseteq Tickets
    /\ future \in [Tickets -> {"none", "pending", "granted", "cancelled"}]
    /\ cancelled \in [Tickets -> BOOLEAN]
    /\ task \in [Tickets -> {"new", "waiting", "holding", "done"}]

\* The calls that own a permit: granted, whether or not the task knows yet.
Owners == {t \in Tickets : future[t] = "granted" /\ task[t] # "done"}

\* The calls still waiting for one.
Pending == {t \in Tickets : future[t] = "pending"}

\* No permit is lost or duplicated, whatever the order of grants, cancellations
\* and releases: the counter and the owners always add up to the capacity
\* (acquire's CancelledError branches, release, inference_slot's finally).
PermitAccounting == available + Cardinality(Owners) = Capacity

\* A call waits only while every permit is owned: no interleaving of a release
\* with cancelled heap entries leaves a free permit and a pending future.
NoIdlePermit == Pending # {} => available = 0

\* Cancelled entries are removed lazily, but never outlive the live waiters
\* behind which they hide: with no pending call and no cancellation being
\* delivered the heap is empty, so it does not grow with cancelled calls.
NoHeapGarbage ==
    /\ Pending \subseteq waiters
    /\ (Pending = {} /\ \A t \in Tickets : task[t] # "waiting") => waiters = {}

\* The pool keeps what it owes: permits, waiting calls and heap agree at every step.
PoolIsSound == PermitAccounting /\ NoIdlePermit /\ NoHeapGarbage

\* The counter, heap and futures implement priority admission to Capacity
\* places (docs/runtime-contract.md: "Queued calls closer to the root go
\* first, FIFO within a depth, and calls in flight are not preempted").
Ideal == INSTANCE Admission
           WITH arrived <- tickets, queue <- Pending, inside <- Owners

RefinesAdmission == Ideal!Spec

\* A call of an agent at the least depth is never overtaken for good: it gets
\* its permit or is cancelled, however many deeper calls compete.  (A deeper
\* call has no such promise: shallow work can delay it.)
LeastDepthServed ==
    \A t \in Tickets :
        (future[t] = "pending" /\ \A d \in Depths : depth[t] <= d)
            ~> future[t] # "pending"
============================================================================
