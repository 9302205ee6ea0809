------------------------------ MODULE Watches ------------------------------
(***************************************************************************)
(* Path watches under split execution: the watch runs in the workspace,    *)
(* beside the agent's processes (WorkspaceHost._watch, _forward), and its  *)
(* reports come back with the replies to the supervisor's event poll       *)
(* (RemoteHost._pump), which hands them to the queue of the subscription.  *)
(* The first report says that the watch is ready.                          *)
(*                                                                         *)
(* The call that opens a watch and the poll that carries its reports are   *)
(* separate requests: a report may overtake the reply that announces the   *)
(* watch.  The poll ends for good when the worker is gone or refuses it,   *)
(* and when handling an event of a job, in the same reply, raises.         *)
(*                                                                         *)
(* A report is its number.  The lists are kept by watch: how the reports   *)
(* of two watches are mixed in a reply reaches neither queue.              *)
(***************************************************************************)
EXTENDS Naturals, Sequences

CONSTANTS
  WatchIds,     \* the calls of RemoteHost.watch
  MaxReports    \* bound: reports of one watch

VARIABLES
  worker,    \* the worker is there
  running,   \* the watches that run on the worker
  sent,      \* how many reports each watch has made
  unsent,    \* _paths of the worker: reports no poll has taken
  reply,     \* the reports in the poll's reply
  polling,   \* the supervisor's poll goes on
  opening,   \* the watch.path request: "none", "asked", "replied", "refused"
  listener,  \* "none", "calling", "reading", "left"
  late,      \* the watches asked for after the poll had ended
  registered,\* the watches whose queue the supervisor knows
  queue      \* their queues

watchVars == <<worker, running, sent, unsent, reply, polling, opening, listener,
               late, registered, queue>>

-----------------------------------------------------------------------------

Report(w) == sent[w] + 1
Broken == 0
Nothing == [w \in WatchIds |-> <<>>]

InitWatches ==
  /\ worker = TRUE
  /\ running = {}
  /\ sent = [w \in WatchIds |-> 0]
  /\ unsent = Nothing
  /\ reply = Nothing
  /\ polling = TRUE
  /\ opening = [w \in WatchIds |-> "none"]
  /\ listener = [w \in WatchIds |-> "none"]
  /\ late = {}
  /\ registered = {}
  /\ queue = Nothing

-----------------------------------------------------------------------------
(* RemoteHost.watch.                                                       *)

\* MUTANT of Watch: the queue is there only once the worker has replied.
WatchUnregistered(w) ==
  /\ listener[w] = "none"
  /\ listener' = [listener EXCEPT ![w] = "calling"]
  /\ opening' = [opening EXCEPT ![w] = "asked"]
  /\ late' = IF polling THEN late ELSE late \cup {w}
  /\ UNCHANGED <<worker, running, sent, unsent, reply, polling, registered, queue>>

\* The queue is there before the worker is asked.
Watch(w) ==
  /\ listener[w] = "none"
  /\ listener' = [listener EXCEPT ![w] = "calling"]
  /\ opening' = [opening EXCEPT ![w] = "asked"]
  /\ late' = IF polling THEN late ELSE late \cup {w}
  /\ registered' = registered \cup {w}
  /\ UNCHANGED <<worker, running, sent, unsent, reply, polling, queue>>

Resolved(w) ==
  /\ listener[w] = "calling"
  /\ opening[w] = "replied"
  /\ listener' = [listener EXCEPT ![w] = "reading"]
  /\ registered' = registered \cup {w}
  /\ UNCHANGED <<worker, running, sent, unsent, reply, polling, opening, late, queue>>

\* The call fails, or its caller is cancelled: what the worker does with the
\* request is not undone.
WatchFails(w) ==
  /\ listener[w] = "calling"
  /\ listener' = [listener EXCEPT ![w] = "left"]
  /\ registered' = registered \ {w}
  /\ queue' = [queue EXCEPT ![w] = <<>>]
  /\ UNCHANGED <<worker, running, sent, unsent, reply, polling, opening, late>>

\* A subscription past the limit closes the generator before its first step, which
\* runs none of its code: the queue and the worker's watch stay.
NotSubscribed(w) ==
  /\ listener[w] = "calling"
  /\ opening[w] = "replied"
  /\ listener' = [listener EXCEPT ![w] = "left"]
  /\ UNCHANGED <<worker, running, sent, unsent, reply, polling, opening, late,
                 registered, queue>>

\* The subscription ends: the queue goes, and the worker is told.
Leave(w) ==
  /\ listener' = [listener EXCEPT ![w] = "left"]
  /\ registered' = registered \ {w}
  /\ running' = IF worker THEN running \ {w} ELSE running

Unsubscribe(w) ==
  /\ listener[w] = "reading"
  /\ Leave(w)
  /\ queue' = [queue EXCEPT ![w] = <<>>]
  /\ UNCHANGED <<worker, sent, unsent, reply, polling, opening, late>>

\* _changes
Read(w) ==
  /\ listener[w] = "reading"
  /\ queue[w] # <<>>
  /\ queue' = [queue EXCEPT ![w] = Tail(@)]
  /\ IF Head(queue[w]) = Broken THEN Leave(w)
     ELSE UNCHANGED <<listener, registered, running>>
  /\ UNCHANGED <<worker, sent, unsent, reply, polling, opening, late>>

-----------------------------------------------------------------------------
(* The worker.                                                             *)

\* _watch: the path exists, or it does not.
WorkerWatches(w) ==
  /\ worker
  /\ opening[w] = "asked"
  /\ \/ /\ running' = running \cup {w}
        /\ opening' = [opening EXCEPT ![w] = "replied"]
     \/ /\ opening' = [opening EXCEPT ![w] = "refused"]
        /\ UNCHANGED running
  /\ UNCHANGED <<worker, sent, unsent, reply, polling, listener, late, registered, queue>>

\* _forward, _push_path
Forward(w) ==
  /\ worker
  /\ w \in running
  /\ sent[w] < MaxReports
  /\ unsent' = [unsent EXCEPT ![w] = Append(@, Report(w))]
  /\ sent' = [sent EXCEPT ![w] = @ + 1]
  /\ UNCHANGED <<worker, running, reply, polling, opening, listener, late,
                 registered, queue>>

\* host.events
Events ==
  /\ worker /\ polling
  /\ reply = Nothing /\ unsent # Nothing
  /\ reply' = unsent
  /\ unsent' = Nothing
  /\ UNCHANGED <<worker, running, sent, polling, opening, listener, late,
                 registered, queue>>

WorkerLost ==
  /\ worker
  /\ worker' = FALSE
  /\ running' = {}
  /\ UNCHANGED <<sent, unsent, reply, polling, opening, listener, late, registered, queue>>

-----------------------------------------------------------------------------
(* _pump.                                                                  *)

\* The reports go to the queues that are known, the others nowhere.
Queued(w, events) == IF w \in registered THEN queue[w] \o events ELSE queue[w]

Pump ==
  /\ polling
  /\ reply # Nothing
  /\ queue' = [w \in WatchIds |-> Queued(w, reply[w])]
  /\ reply' = Nothing
  /\ UNCHANGED <<worker, running, sent, unsent, polling, opening, listener, late, registered>>

\* The poll fails, or a job's event raises when some of the reports have been handed
\* on: every queue hears of it.
PumpEnds ==
  /\ polling
  /\ \E k \in [WatchIds -> 0..MaxReports] :
        /\ \A w \in WatchIds : k[w] <= Len(reply[w])
        /\ queue' = [w \in WatchIds |-> Queued(w, Append(SubSeq(reply[w], 1, k[w]), Broken))]
  /\ polling' = FALSE
  /\ reply' = Nothing
  /\ UNCHANGED <<worker, running, sent, unsent, opening, listener, late, registered>>

NextWatches ==
  \/ \E w \in WatchIds :
        \/ Watch(w) \/ Resolved(w) \/ WatchFails(w) \/ NotSubscribed(w)
        \/ Unsubscribe(w) \/ Read(w) \/ WorkerWatches(w) \/ Forward(w)
  \/ Events \/ WorkerLost \/ Pump \/ PumpEnds

WatchesSpec == InitWatches /\ [][NextWatches]_watchVars

-----------------------------------------------------------------------------

\* Every report of a watch that is still read is on its way, in order and without
\* a gap before it, from the worker's list through the poll's reply to the queue:
\* also one that overtakes the reply to watch.path (workspace_host.py:356-368).
NoReportMissed ==
  \A w \in WatchIds :
    LET way == queue[w] \o reply[w] \o unsent[w]
    IN polling /\ worker /\ listener[w] \in {"calling", "reading"} =>
         /\ \A i \in 1..Len(way) : way[i] = sent[w] - Len(way) + i
         /\ listener[w] = "calling" => Len(way) = sent[w]

\* A subscription that was there when the poll ended will read that it did: none
\* waits for reports that can no longer come (workspace_host.py:394-397).
EndOfPollIsTold ==
  \A w \in WatchIds \ late :
    ~polling /\ listener[w] = "reading" =>
      \E i \in 1..Len(queue[w]) : queue[w][i] = Broken
=============================================================================
