----------------------------- MODULE Admission -----------------------------
(***************************************************************************)
(* What `_InferencePool` promises the agents of a session tree: at most    *)
(* Capacity model calls are in flight, a call waits only while every       *)
(* permit is out, and a freed permit goes at once to the waiting call      *)
(* closest to the root, first come first served within a depth.  Nothing   *)
(* here says how: the permit counter, the heap, its lazily removed entries *)
(* and the gap between granting a future and resuming its owner belong to  *)
(* InferencePool, which implements this specification.                     *)
(***************************************************************************)
EXTENDS Integers, FiniteSets

CONSTANTS Capacity,   \* policy.max_concurrent_subagents
          Depths,     \* depths of the agents that make calls
          MaxTickets  \* bound on the number of calls

VARIABLES depth,      \* depth of the agent making the t-th call
          arrived,    \* number of calls made so far
          queue,      \* calls waiting for a permit
          inside      \* calls that own a permit

absVars == <<depth, arrived, queue, inside>>

Tickets == 0 .. MaxTickets - 1

Before(t, u) == depth[t] < depth[u] \/ (depth[t] = depth[u] /\ t < u)

First(Q) == {t \in Q : \A u \in Q \ {t} : Before(t, u)}

Init ==
    /\ depth \in [Tickets -> Depths]
    /\ arrived = 0
    /\ queue = {}
    /\ inside = {}

Arrive ==
    /\ arrived < MaxTickets
    /\ arrived' = arrived + 1
    /\ IF Cardinality(inside) < Capacity
         THEN inside' = inside \union {arrived} /\ queue' = queue
         ELSE inside' = inside /\ queue' = queue \union {arrived}
    /\ UNCHANGED depth

Leave(t) ==
    /\ t \in inside
    /\ inside' = (inside \ {t}) \union First(queue)
    /\ queue' = queue \ First(queue)
    /\ UNCHANGED <<depth, arrived>>

GiveUp(t) ==
    /\ t \in queue
    /\ queue' = queue \ {t}
    /\ UNCHANGED <<depth, arrived, inside>>

Next == Arrive \/ \E t \in Tickets : Leave(t) \/ GiveUp(t)

Spec == Init /\ [][Next]_absVars
============================================================================
