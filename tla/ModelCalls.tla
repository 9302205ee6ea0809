----------------------------- MODULE ModelCalls -----------------------------
(***************************************************************************)
(* The model calls of the engines of one session tree: the caps of the     *)
(* whole tree that each engine checks before a turn, the attempts of one   *)
(* call with the pauses between them, and the pool of inference permits    *)
(* that every attempt goes through.  The pool is taken by its promise,     *)
(* Admission, which InferencePool is shown to implement.                   *)
(*                                                                         *)
(* An engine checks the tree's counter, delivers notices and instructions  *)
(* (awaiting more than once), calls, and counts the turn when the response *)
(* is there: several engines may pass the check on the same count.  The    *)
(* cap on new tokens is checked at the same place; side calls, which count *)
(* tokens and no turn, do not move the counter here.                       *)
(***************************************************************************)
EXTENDS Admission

CONSTANTS
  Engines,       \* the engines of the tree
  DepthOf(_),    \* runtime_config.invocation.depth
  MaxTurns,      \* max_total_turns
  MaxRetries     \* Len(_RETRY_DELAYS)

VARIABLES
  engine,       \* per engine: where it is, its attempt, its ticket, the kind of call
  totalTurns    \* supervisor._total_turns

callVars == <<engine, totalTurns>>

-----------------------------------------------------------------------------

Resting == [at |-> "stopped", attempt |-> 0, ticket |-> 0, work |-> TRUE]

InitCalls ==
  /\ Init
  /\ engine = [e \in Engines |-> Resting]
  /\ totalTurns = 0

At(e, where) == engine[e].at = where
Goes(e, where) == engine' = [engine EXCEPT ![e].at = where]
Stops(e) == engine' = [engine EXCEPT ![e] = Resting]

-----------------------------------------------------------------------------
(* _run_loop, _complete.                                                   *)

Prompted(e) ==
  /\ At(e, "stopped")
  /\ Goes(e, "top")
  /\ UNCHANGED <<absVars, totalTurns>>

\* MUTANT of BeginTurn: the cap is checked when the prompt begins.
BeginTurnUnchecked(e) ==
  /\ At(e, "top")
  /\ engine' = [engine EXCEPT ![e] = [Resting EXCEPT !.at = "calling"]]
  /\ UNCHANGED <<absVars, totalTurns>>

\* _spent_tree_cap: the tree's count, not the engine's own.
BeginTurn(e) ==
  /\ At(e, "top")
  /\ totalTurns < MaxTurns
  /\ engine' = [engine EXCEPT ![e] = [Resting EXCEPT !.at = "calling"]]
  /\ UNCHANGED <<absVars, totalTurns>>

CapReached(e) ==
  /\ At(e, "top")
  /\ totalTurns >= MaxTurns
  /\ Stops(e)
  /\ UNCHANGED <<absVars, totalTurns>>

\* A compaction, roll-up or refinement call between two turns is no turn.
BeginSideCall(e) ==
  /\ At(e, "top")
  /\ totalTurns < MaxTurns
  /\ engine' = [engine EXCEPT ![e] = [Resting EXCEPT !.at = "calling", !.work = FALSE]]
  /\ UNCHANGED <<absVars, totalTurns>>

-----------------------------------------------------------------------------
(* call_with_retries, _model_attempt.                                      *)

\* inference_slot is entered anew for every attempt.
ModelAttempt(e) ==
  /\ At(e, "calling")
  /\ arrived < MaxTickets
  /\ depth[arrived] = DepthOf(e)
  /\ Arrive
  /\ engine' = [engine EXCEPT ![e].at = "attempt", ![e].ticket = arrived]
  /\ UNCHANGED totalTurns

Responds(e) ==
  /\ At(e, "attempt")
  /\ Leave(engine[e].ticket)
  /\ totalTurns' = IF engine[e].work THEN totalTurns + 1 ELSE totalTurns
  /\ engine' = [engine EXCEPT ![e] = [Resting EXCEPT !.at = "top"]]

\* An error worth a retry: the permit goes back before the pause.
TransientError(e) ==
  /\ At(e, "attempt")
  /\ engine[e].attempt < MaxRetries
  /\ Leave(engine[e].ticket)
  /\ engine' = [engine EXCEPT ![e].at = "pause", ![e].attempt = @ + 1]
  /\ UNCHANGED totalTurns

PauseOver(e) ==
  /\ At(e, "pause")
  /\ Goes(e, "calling")
  /\ UNCHANGED <<absVars, totalTurns>>

\* Any other error, or the last attempt's: the prompt ends with it.
CallFails(e) ==
  /\ At(e, "attempt")
  /\ Leave(engine[e].ticket)
  /\ Stops(e)
  /\ UNCHANGED totalTurns

-----------------------------------------------------------------------------
(* The task that runs the prompt is cancelled.                             *)

Interrupted(e) ==
  \/ /\ engine[e].at \in {"top", "calling", "pause"}
     /\ Stops(e)
     /\ UNCHANGED <<absVars, totalTurns>>
  \/ /\ At(e, "attempt")
     /\ Leave(engine[e].ticket)
     /\ Stops(e)
     /\ UNCHANGED totalTurns
  \/ /\ At(e, "attempt")
     /\ GiveUp(engine[e].ticket)
     /\ Stops(e)
     /\ UNCHANGED totalTurns

NextCalls ==
  \E e \in Engines :
     \/ Prompted(e) \/ BeginTurn(e) \/ CapReached(e) \/ BeginSideCall(e)
     \/ ModelAttempt(e) \/ Responds(e) \/ TransientError(e) \/ PauseOver(e)
     \/ CallFails(e) \/ Interrupted(e)

CallsSpec == InitCalls /\ [][NextCalls]_<<absVars, callVars>>

-----------------------------------------------------------------------------

\* The tree's cap is exceeded at most by the calls that were past their check when
\* it was reached, one for each other engine (engine.py:1449-1464, 903-922).
CapHolds == totalTurns <= MaxTurns + Cardinality(Engines) - 1

\* Every permit in use is that of an engine's attempt in flight: an engine that
\* pauses before a retry, has ended or was interrupted keeps none, and none has
\* two (client.py:84-110, engine.py:1480-1484).
PermitsAreInUse ==
  \A t \in inside : \E e \in Engines : engine[e].at = "attempt" /\ engine[e].ticket = t

\* The cap on turns holds up to the calls past their check, and no permit is kept by a
\* call that pauses, has ended or was interrupted.
CapAndPermits == CapHolds /\ PermitsAreInUse
=============================================================================
