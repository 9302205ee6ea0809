-------------------------- MODULE SupervisorProofs --------------------------
(***************************************************************************)
(* What is proved of the supervisor of a session tree: of the agents' lives*)
(* (AgentTree) and of the pool of permits for their model calls            *)
(* (InferencePool).                                                        *)
(***************************************************************************)
EXTENDS AgentTree, InferencePool, FiniteSetTheorems, WellFoundedInduction, TLAPS

-----------------------------------------------------------------------------
(***************************************************************************)
(* That no wakeup is missed and that ends are orderly, for every tree of   *)
(* agents, every number of instructions and of cleanup steps that fail.    *)
(*                                                                         *)
(* The invariant has a part for each agent: how far its runner and its     *)
(* stop task have come, which goes with its status and its flags (Local),  *)
(* and what it owes to its parent's end (ChildInv): a parent whose release *)
(* waits for it has made it due, a parent whose release has waited finds   *)
(* it at rest.  Nothing assumes that Parent is a tree: BirthOrder, that a  *)
(* set of spawned agents always has one whose parent is outside it, follows*)
(* from how agents are spawned, and is what carries the end of the root's  *)
(* children down to every agent below (AllRest).                           *)
(*                                                                         *)
(* There is a lemma for each action.  A step is about one agent; all others*)
(* stay as they are or are woken (SameOrWoken), which the Bystander lemmas *)
(* settle once.                                                            *)
(***************************************************************************)

Statuses == {"unborn", "starting", "running", "idle"} \union Terminal
Runners == {"none", "scheduled", "prompt", "gather", "closing", "done"}
Stops == {"none", "scheduled", "joining", "gather", "closing", "done", "failed"}
Letters == [at : {"unsent", "queued", "delivered", "failed"}, to : Agents \union {Root},
            kind : {"queue", "steer"}, reported : BOOLEAN]

TypeOK ==
    /\ status \in [Agents -> Statuses]
    /\ persistent \in [Agents -> BOOLEAN]
    /\ cap \in [Agents -> BOOLEAN]
    /\ runner \in [Agents -> Runners]
    /\ cancelReq \in [Agents -> BOOLEAN]
    /\ stop \in [Agents -> Stops]
    /\ term \in [Agents -> {"none", "due", "joined"}]
    /\ err \in [Agents -> BOOLEAN]
    /\ engine \in [Agents -> BOOLEAN]
    /\ done \in [Agents -> BOOLEAN]
    /\ released \in [Agents -> BOOLEAN]
    /\ fresh \in [Agents -> BOOLEAN]
    /\ letter \in [Messages -> Letters]
    /\ spent \in BOOLEAN
    /\ calls \in Nat
    /\ faults \in Nat
    /\ phase \in {"open", "closing", "closed"}

\* The runner: which of its stages go with which status.
RunnerInv(c) ==
    /\ status[c] = "unborn" <=> runner[c] = "none"
    /\ status[c] = "running" <=> runner[c] = "prompt"
    /\ status[c] = "idle" => runner[c] = "done"
    /\ runner[c] = "scheduled" => status[c] = "starting"
    /\ status[c] = "starting" => runner[c] = "scheduled" \/ (runner[c] = "done" /\ stop[c] = "joining")
    /\ status[c] \in Terminal => runner[c] \in {"gather", "closing", "done"}
    /\ runner[c] \in {"gather", "closing"} => status[c] \in Terminal

\* The stop task: while it joins the runner, that one is cancelled and will not go
\* idle; once it releases the agent, or has, the runner is done.
StopInv(c) ==
    /\ stop[c] = "joining" =>
         status[c] # "idle" /\ (runner[c] \in {"scheduled", "prompt"} => cancelReq[c])
    /\ cancelReq[c] /\ runner[c] \in {"scheduled", "prompt"} => stop[c] = "joining"
    /\ stop[c] \in {"gather", "closing", "done", "failed"} =>
         status[c] \in Terminal /\ runner[c] = "done"

\* The capability is there from the spawn to the end, done says that the agent
\* rests, and released that its release is over and its engine closed.
FlagInv(c) ==
    /\ ~Spawned(c) => ~done[c] /\ ~cap[c] /\ ~cancelReq[c] /\ stop[c] = "none" /\ term[c] = "none"
    /\ cap[c] => Spawned(c) /\ status[c] \notin Terminal
    /\ Spawned(c) /\ status[c] \notin Terminal => cap[c]
    /\ done[c] => status[c] = "idle" \/ status[c] \in Terminal
    /\ released[c] => /\ status[c] \in Terminal /\ runner[c] = "done" /\ ~engine[c]
                      /\ stop[c] \notin {"gather", "closing"}

\* A release that is over was clean, unless a cleanup step failed.
FaultInv(c) ==
    /\ err[c] => faults > 0
    /\ status[c] \in Terminal /\ runner[c] = "done" /\ stop[c] \notin {"gather", "closing"}
         => released[c] \/ faults > 0

\* p's release, or aclose, waits for the terminations of its children.
Ending(p) == IF p = Root THEN phase # "open" ELSE "gather" \in {runner[p], stop[p]}
\* ... and has waited for them.
Past(p) == IF p = Root THEN phase = "closed" ELSE status[p] \in Terminal /\ ~Ending(p)

\* No run of c is going on or will be, and nobody has to wait for its release.
Rests(c) == status[c] \in Terminal /\ runner[c] = "done" /\ (released[c] \/ ~Joinable(c))

\* c and its parent's end: c is due or joined just while that end waits, and rests
\* from then on; it is released if that end collected no error.
ChildInv(c) ==
    /\ Spawned(c) => /\ Parent[c] = Root \/ Spawned(Parent[c])
                     /\ term[c] # "none" <=> Ending(Parent[c])
                     /\ Past(Parent[c]) => Rests(c)
    /\ term[c] = "joined" => stop[c] # "none"
    /\ Parent[c] # Root /\ Spawned(c) =>
           /\ released[Parent[c]] => released[c]
           /\ "closing" \in {runner[Parent[c]], stop[Parent[c]]} /\ ~err[Parent[c]] => released[c]

\* An agent is spawned by one that was spawned before it.
BirthOrder ==
    \A S \in SUBSET Agents :
        S # {} /\ (\A c \in S : Spawned(c)) => \E c \in S : Parent[c] \notin S

\* After aclose nothing is left that could take a step.
ClosedInv ==
    phase = "closed" => \A c \in Agents :
        /\ Spawned(c) => Rests(c) /\ ~Joinable(c)
        /\ term[c] = "due" => released[c]

\* NoInstructionLost, and that only agents that were spawned are written to.
LetterInv ==
    \A m \in Messages :
        /\ letter[m].at # "unsent" => letter[m].to \in Agents /\ Spawned(letter[m].to)
        /\ letter[m].at = "queued" => cap[letter[m].to]
        /\ letter[m].at = "failed" /\ Live(Parent[letter[m].to]) => letter[m].reported

Local(c) == RunnerInv(c) /\ StopInv(c) /\ FlagInv(c) /\ FaultInv(c)

Parts ==
    /\ \A c \in Agents : Local(c) /\ ChildInv(c)
    /\ BirthOrder /\ LetterInv /\ IdleHasNothingToDo

IInv == TypeOK /\ Parts /\ ClosedInv

-----------------------------------------------------------------------------
(* What _wake_agent does.                                                  *)

Woken(a) == /\ status'[a] = "starting" /\ runner'[a] = "scheduled"
            /\ ~cancelReq'[a] /\ ~done'[a]

LEMMA WakeEffect ==
    ASSUME NEW W, NEW st \in [Agents -> Statuses], NEW rn \in [Agents -> Runners],
           NEW cr \in [Agents -> BOOLEAN], NEW dn \in [Agents -> BOOLEAN], Wake(W, st, rn, cr, dn)
    PROVE  /\ status' \in [Agents -> Statuses] /\ runner' \in [Agents -> Runners]
           /\ cancelReq' \in [Agents -> BOOLEAN] /\ done' \in [Agents -> BOOLEAN]
           /\ \A a \in Agents :
                \/ /\ status'[a] = st[a] /\ runner'[a] = rn[a]
                   /\ cancelReq'[a] = cr[a] /\ done'[a] = dn[a]
                \/ a \in W /\ st[a] = "idle" /\ ~spent /\ Woken(a)
           /\ \A a \in W \intersect Agents : spent \/ status'[a] # "idle"
<1> DEFINE up == {a \in W \intersect Agents : Wakeable(st, a)}
<1>1. /\ status' = [a \in Agents |-> IF a \in up THEN "starting" ELSE st[a]]
      /\ runner' = [a \in Agents |-> IF a \in up THEN "scheduled" ELSE rn[a]]
      /\ cancelReq' = [a \in Agents |-> IF a \in up THEN FALSE ELSE cr[a]]
      /\ done' = [a \in Agents |-> IF a \in up THEN FALSE ELSE dn[a]]
  BY DEF Wake
<1>2. \A a \in up : a \in W /\ a \in Agents /\ st[a] = "idle" /\ ~spent
  BY DEF Wakeable
<1>3. \A a \in W \intersect Agents : a \notin up => st[a] # "idle" \/ spent
  BY DEF Wakeable
<1> HIDE DEF up
<1>4. status' \in [Agents -> Statuses] /\ runner' \in [Agents -> Runners]
  BY <1>1 DEF Statuses, Runners
<1>5. cancelReq' \in [Agents -> BOOLEAN] /\ done' \in [Agents -> BOOLEAN]
  BY <1>1
<1>6. \A a \in Agents :
                \/ /\ status'[a] = st[a] /\ runner'[a] = rn[a]
                   /\ cancelReq'[a] = cr[a] /\ done'[a] = dn[a]
                \/ a \in W /\ st[a] = "idle" /\ ~spent /\ Woken(a)
  BY <1>1, <1>2 DEF Woken
<1>7. \A a \in W \intersect Agents : spent \/ status'[a] # "idle"
  BY <1>1, <1>3
<1> QED
  BY <1>4, <1>5, <1>6, <1>7

-----------------------------------------------------------------------------
(* Agents that a step is not about: they stay as they are or are woken.    *)

Same(a) == /\ status'[a] = status[a] /\ runner'[a] = runner[a]
           /\ cancelReq'[a] = cancelReq[a] /\ done'[a] = done[a]
SameOrWoken(a) == Same(a) \/ (status[a] = "idle" /\ Woken(a))
SameEnd(a) == /\ stop'[a] = stop[a] /\ err'[a] = err[a]
              /\ released'[a] = released[a] /\ term'[a] = term[a]

LEMMA BystanderLocal ==
    ASSUME TypeOK, NEW a \in Agents, Local(a), SameOrWoken(a), stop'[a] = stop[a],
           err'[a] = err[a], released'[a] = released[a], cap'[a] = cap[a],
           engine'[a] = engine[a], ~Spawned(a) => term'[a] = term[a],
           faults > 0 => faults' > 0
    PROVE  Local(a)'
<1>2. RunnerInv(a)'
  BY DEF Local, RunnerInv, FlagInv, StopInv, SameOrWoken, Same, Woken, Terminal
<1>3. StopInv(a)'
  BY DEF Local, RunnerInv, FlagInv, StopInv, SameOrWoken, Same, Woken, Terminal
<1>4. FlagInv(a)'
  BY DEF Local, RunnerInv, FlagInv, StopInv, SameOrWoken, Same, Woken, Terminal, Spawned
<1>5. FaultInv(a)'
  BY DEF Local, FaultInv, RunnerInv, SameOrWoken, Same, Woken, Terminal
<1> QED
  BY <1>2, <1>3, <1>4, <1>5 DEF Local

\* What a step may do to an agent, and to its parent, for ChildInv to go on.
ChildSide(a) ==
    /\ Spawned(a)' <=> Spawned(a)
    /\ Past(Parent[a]) /\ Rests(a) => Rests(a)'
    /\ term'[a] = term[a]
    /\ stop[a] # "none" => stop'[a] # "none"
    /\ released[a] => released'[a]

ParentSide(p) ==
    /\ p = Root => phase' = phase
    /\ p # Root =>
          /\ Spawned(p)' <=> Spawned(p)
          /\ Ending(p)' <=> Ending(p)
          /\ Past(p)' => Past(p)
          /\ released'[p] => released[p]
          /\ ("closing" \in {runner[p], stop[p]} /\ ~err[p])'
               => "closing" \in {runner[p], stop[p]} /\ ~err[p]

LEMMA ChildKept ==
    ASSUME NEW a \in Agents, ChildInv(a), ChildSide(a), ParentSide(Parent[a])
    PROVE  ChildInv(a)'
<1> DEFINE p == Parent[a]
<1>1. Past(p)' => Past(p)
  BY DEF ParentSide, Past
<1>2. Ending(p)' <=> Ending(p)
  BY DEF ParentSide, Ending
<1>3. (Spawned(a) => /\ p = Root \/ Spawned(p)
                     /\ term[a] # "none" <=> Ending(p)
                     /\ Past(p) => Rests(a))'
  BY <1>1, <1>2 DEF ChildInv, ChildSide, ParentSide
<1>4. (term[a] = "joined" => stop[a] # "none")'
  BY DEF ChildInv, ChildSide
<1>5. (p # Root /\ Spawned(a) =>
           /\ released[p] => released[a]
           /\ "closing" \in {runner[p], stop[p]} /\ ~err[p] => released[a])'
  BY DEF ChildInv, ChildSide, ParentSide
<1> QED
  BY <1>3, <1>4, <1>5 DEF ChildInv

LEMMA BystanderSides ==
    ASSUME TypeOK, NEW a \in Agents, Local(a), SameOrWoken(a), SameEnd(a)
    PROVE  ChildSide(a) /\ (a # Root => ParentSide(a))
<1>1. Spawned(a)' <=> Spawned(a)
  BY DEF SameOrWoken, Same, Woken, Spawned
<1>2. a # Root => (Ending(a)' <=> Ending(a))
  BY DEF Ending, SameOrWoken, Same, Woken, SameEnd, Local, RunnerInv
<1>3. a # Root => (Past(a)' => Past(a))
  BY <1>2 DEF Past, SameOrWoken, Same, Woken, Terminal
<1>4. Rests(a) => Rests(a)'
  BY DEF Rests, Joinable, SameOrWoken, Same, SameEnd, Terminal
<1>5. "closing" \in {runner[a], stop[a]}' => "closing" \in {runner[a], stop[a]}
  BY DEF SameOrWoken, Same, Woken, SameEnd, Local, RunnerInv
<1> QED
  BY <1>1, <1>2, <1>3, <1>4, <1>5 DEF ChildSide, ParentSide, SameEnd

\* Nobody is its own parent.
LEMMA NotOwnParent ==
    ASSUME BirthOrder, NEW c \in Agents, Spawned(c)
    PROVE  Parent[c] # c
<1>1. {c} \in SUBSET Agents /\ {c} # {} /\ \A d \in {c} : Spawned(d)
  OBVIOUS
<1> QED
  BY <1>1 DEF BirthOrder

LEMMA BirthsKept ==
    ASSUME BirthOrder, \A a \in Agents : Spawned(a)' => Spawned(a)
    PROVE  BirthOrder'
  BY DEF BirthOrder

LEMMA LettersKept ==
    ASSUME TypeOK, Parts, phase' = phase, cap' = cap,
           \A a \in Agents : Spawned(a) => Spawned(a)',
           \A m \in Messages :
              \/ letter'[m] = letter[m]
              \/ letter'[m].at = "delivered" /\ letter'[m].to = letter[m].to /\ letter[m].at # "unsent"
    PROVE  LetterInv'
  BY DEF Parts, LetterInv, Live

LEMMA IdleKept ==
    ASSUME IdleHasNothingToDo, spent => spent',
           \A a \in Agents : status'[a] = "idle" =>
              /\ status[a] = "idle"
              /\ fresh'[a] => fresh[a] \/ spent
              /\ \A m \in Queued(a)' : m \in Queued(a)
    PROVE  IdleHasNothingToDo'
  BY DEF IdleHasNothingToDo

-----------------------------------------------------------------------------
(* What happens to instructions.                                           *)

LEMMA FailedEffect ==
    ASSUME TypeOK, NEW c \in Agents
    PROVE  /\ Failed(c) \in [Messages -> Letters]
           /\ \A m \in Messages :
                IF m \in Queued(c)
                  THEN /\ Failed(c)[m].at = "failed" /\ Failed(c)[m].to = c
                       /\ Failed(c)[m].reported = Live(Parent[c])
                  ELSE Failed(c)[m] = letter[m]
<1>1. Live(Parent[c]) \in BOOLEAN
  BY TreeConstants DEF Live, TypeOK
<1>2. ASSUME NEW m \in Messages, NEW r \in BOOLEAN
      PROVE  /\ [letter[m] EXCEPT !.at = "failed", !.reported = r] \in Letters
             /\ [letter[m] EXCEPT !.at = "failed", !.reported = r].at = "failed"
             /\ [letter[m] EXCEPT !.at = "failed", !.reported = r].to = letter[m].to
             /\ [letter[m] EXCEPT !.at = "failed", !.reported = r].reported = r
  BY DEF TypeOK, Letters
<1>3. ASSUME NEW m \in Messages, m \in Queued(c)
      PROVE  /\ Failed(c)[m] \in Letters /\ Failed(c)[m].at = "failed" /\ Failed(c)[m].to = c
             /\ Failed(c)[m].reported = Live(Parent[c])
  <2>1. Failed(c)[m] = [letter[m] EXCEPT !.at = "failed", !.reported = Live(Parent[c])]
    BY <1>3 DEF Failed
  <2>2. letter[m].to = c
    BY <1>3 DEF Queued
  <2> DEFINE f == [letter[m] EXCEPT !.at = "failed", !.reported = Live(Parent[c])]
  <2>3. f \in Letters /\ f.at = "failed" /\ f.to = letter[m].to /\ f.reported = Live(Parent[c])
    BY <1>1, <1>2, Zenon
  <2>4. Failed(c)[m] = f
    BY <2>1
  <2> HIDE DEF f
  <2> QED
    BY <2>2, <2>3, <2>4, Zenon
<1>4. ASSUME NEW m \in Messages, m \notin Queued(c)
      PROVE  Failed(c)[m] = letter[m] /\ Failed(c)[m] \in Letters
  BY <1>4 DEF Failed, TypeOK
<1>5. Failed(c) \in [Messages -> Letters]
  BY <1>3, <1>4 DEF Failed
<1> QED
  BY <1>3, <1>4, <1>5

LEMMA TakenEffect ==
    ASSUME TypeOK, NEW S
    PROVE  /\ Taken(S) \in [Messages -> Letters]
           /\ \A m \in Messages :
                \/ Taken(S)[m] = letter[m]
                \/ m \in S /\ Taken(S)[m].at = "delivered" /\ Taken(S)[m].to = letter[m].to
<1>1. ASSUME NEW m \in Messages
      PROVE  /\ [letter[m] EXCEPT !.at = "delivered"] \in Letters
             /\ [letter[m] EXCEPT !.at = "delivered"].at = "delivered"
             /\ [letter[m] EXCEPT !.at = "delivered"].to = letter[m].to
  BY DEF TypeOK, Letters
<1>2. \A m \in Messages : Taken(S)[m] = IF m \in S /\ ~spent
          THEN [letter[m] EXCEPT !.at = "delivered"] ELSE letter[m]
  BY DEF Taken
<1>3. \A m \in Messages : Taken(S)[m] \in Letters
  BY <1>1, <1>2 DEF TypeOK
<1>4. Taken(S) \in [Messages -> Letters]
  BY <1>3 DEF Taken
<1> QED
  BY <1>1, <1>2, <1>4

LEMMA ReleaseEffect ==
    ASSUME TypeOK, NEW c \in Agents, StartRelease(c)
    PROVE  /\ letter' \in [Messages -> Letters]
           /\ cap' \in [Agents -> BOOLEAN] /\ cap' = [cap EXCEPT ![c] = FALSE]
           /\ err' \in [Agents -> BOOLEAN] /\ err' = [err EXCEPT ![c] = FALSE]
           /\ term' \in [Agents -> {"none", "due", "joined"}]
           /\ \A d \in Agents :
                term'[d] = IF Parent[d] = c /\ Spawned(d) THEN "due" ELSE term[d]
  BY FailedEffect DEF StartRelease, TypeOK, Children

-----------------------------------------------------------------------------
(* Types.                                                                  *)

LEMMA InitTypes == Init => TypeOK
<1> SUFFICES ASSUME Init PROVE TypeOK
  OBVIOUS
<1>1. Unsent \in Letters
  BY DEF Unsent, Letters
<1>2. letter \in [Messages -> Letters]
  BY <1>1 DEF Init
<1>3. /\ status \in [Agents -> Statuses] /\ runner \in [Agents -> Runners]
      /\ stop \in [Agents -> Stops]
  BY DEF Init, Statuses, Runners, Stops
<1> QED
  BY <1>2, <1>3 DEF Init, TypeOK

LEMMA TypesOfWake ==
    ASSUME TypeOK, NEW W, Wake(W, status, runner, cancelReq, done)
    PROVE  /\ status' \in [Agents -> Statuses] /\ runner' \in [Agents -> Runners]
           /\ cancelReq' \in [Agents -> BOOLEAN] /\ done' \in [Agents -> BOOLEAN]
           /\ \A a \in Agents : /\ SameOrWoken(a)
                                /\ a \notin W \/ spent => Same(a)
                                /\ a \in W => spent \/ status'[a] # "idle"
<1>1. /\ status \in [Agents -> Statuses] /\ runner \in [Agents -> Runners]
      /\ cancelReq \in [Agents -> BOOLEAN] /\ done \in [Agents -> BOOLEAN]
  BY DEF TypeOK
<1>2. /\ status' \in [Agents -> Statuses] /\ runner' \in [Agents -> Runners]
      /\ cancelReq' \in [Agents -> BOOLEAN] /\ done' \in [Agents -> BOOLEAN]
      /\ \A a \in Agents :
           \/ /\ status'[a] = status[a] /\ runner'[a] = runner[a]
              /\ cancelReq'[a] = cancelReq[a] /\ done'[a] = done[a]
           \/ a \in W /\ status[a] = "idle" /\ ~spent /\ Woken(a)
      /\ \A a \in W \intersect Agents : spent \/ status'[a] # "idle"
  BY <1>1, WakeEffect
<1> QED
  BY <1>2 DEF SameOrWoken, Same

LEMMA TypesOfCalls ==
    ASSUME TypeOK, NEW c \in Agents,
           \/ \E keep \in BOOLEAN : Spawn(c, keep)
           \/ \E m \in Messages, kind \in {"queue", "steer"} : Send(m, c, kind)
           \/ Report(c) \/ PostEvent(c) \/ Cancel(c)
    PROVE  TypeOK'
<1>1. CASE \E keep \in BOOLEAN : Spawn(c, keep)
  BY <1>1 DEF Spawn, stopVars, TypeOK, Statuses, Runners
<1>2. CASE \E m \in Messages, kind \in {"queue", "steer"} : Send(m, c, kind)
  <2>1. PICK m \in Messages, kind \in {"queue", "steer"} : Send(m, c, kind)
    BY <1>2
  <2>2. letter' \in [Messages -> Letters]
    BY <2>1 DEF Send, TypeOK, Letters
  <2>3. Wake({c}, status, runner, cancelReq, done)
    BY <2>1 DEF Send
  <2> QED
    BY <2>1, <2>2, <2>3, TypesOfWake DEF Send, stopVars, TypeOK
<1>3. CASE Report(c)
  <2>1. Wake(Reached(c), status, runner, cancelReq, done)
    BY <1>3 DEF Report
  <2>2. fresh' \in [Agents -> BOOLEAN]
    BY <1>3 DEF Report, TypeOK
  <2> QED
    BY <1>3, <2>1, <2>2, TypesOfWake DEF Report, stopVars, TypeOK
<1>4. CASE PostEvent(c)
  <2>1. Wake({c}, status, runner, cancelReq, done)
    BY <1>4 DEF PostEvent
  <2> QED
    BY <1>4, <2>1, TypesOfWake DEF PostEvent, stopVars, TypeOK
<1>5. CASE Cancel(c)
  BY <1>5 DEF Cancel, runVars, TypeOK, Stops
<1> QED
  BY <1>1, <1>2, <1>3, <1>4, <1>5

\* The runner of c has got to a stage, and its status says so; others may be woken.
LEMMA TypesOfRunner ==
    ASSUME TypeOK, NEW c \in Agents,
           \/ StartRun(c) \/ DropRun(c) \/ TurnBoundary(c) \/ TakeQueue(c) \/ GoIdle(c)
           \/ \E why \in Terminal : EndRun(c, why)
    PROVE  TypeOK'
<1>1. CASE StartRun(c) \/ TurnBoundary(c) \/ TakeQueue(c)
  <2>1. letter' \in [Messages -> Letters]
    BY <1>1, TakenEffect DEF StartRun, TurnBoundary, TakeQueue, TypeOK
  <2>2. CASE StartRun(c)
    BY <2>1, <2>2 DEF StartRun, stopVars, TypeOK, Statuses, Runners
  <2>3. CASE TurnBoundary(c) \/ TakeQueue(c)
    BY <2>1, <2>3 DEF TurnBoundary, TakeQueue, runVars, stopVars, TypeOK
  <2> QED
    BY <1>1, <2>2, <2>3
<1>2. CASE DropRun(c)
  BY <1>2 DEF DropRun, stopVars, TypeOK, Runners
<1>3. CASE GoIdle(c)
  <2>1. letter' \in [Messages -> Letters] /\ fresh' \in [Agents -> BOOLEAN]
    BY <1>3, FailedEffect DEF GoIdle, TypeOK
  <2>2. /\ [status EXCEPT ![c] = "idle"] \in [Agents -> Statuses]
        /\ [runner EXCEPT ![c] = "done"] \in [Agents -> Runners]
        /\ [done EXCEPT ![c] = TRUE] \in [Agents -> BOOLEAN]
        /\ cancelReq \in [Agents -> BOOLEAN]
    BY DEF TypeOK, Statuses, Runners
  <2>3. Wake(Reached(c) \union (IF RunAgain(c) THEN {c} ELSE {}),
             [status EXCEPT ![c] = "idle"], [runner EXCEPT ![c] = "done"],
             cancelReq, [done EXCEPT ![c] = TRUE])
    BY <1>3 DEF GoIdle
  <2> QED
    BY <1>3, <2>1, <2>2, <2>3, WakeEffect DEF GoIdle, stopVars, TypeOK
<1>4. CASE \E why \in Terminal : EndRun(c, why)
  <2>1. PICK why \in Terminal : EndRun(c, why)
    BY <1>4
  <2>2. StartRelease(c) /\ fresh' \in [Agents -> BOOLEAN]
    BY <2>1 DEF EndRun, TypeOK
  <2>3. /\ [status EXCEPT ![c] = why] \in [Agents -> Statuses]
        /\ [runner EXCEPT ![c] = "gather"] \in [Agents -> Runners]
        /\ cancelReq \in [Agents -> BOOLEAN] /\ done \in [Agents -> BOOLEAN]
    BY DEF TypeOK, Statuses, Runners
  <2>4. Wake(ToldOfFailure(c), [status EXCEPT ![c] = why],
             [runner EXCEPT ![c] = "gather"], cancelReq, done)
    BY <2>1 DEF EndRun
  <2> QED
    BY <2>1, <2>2, <2>3, <2>4, WakeEffect, ReleaseEffect DEF EndRun, TypeOK
<1> QED
  BY <1>1, <1>2, <1>3, <1>4

LEMMA TypesOfStop ==
    ASSUME TypeOK, NEW c \in Agents,
           \/ JoinStop(c) \/ StopCancelsRunner(c) \/ StopFindsReleased(c) \/ StopReleases(c)
           \/ \E ok \in BOOLEAN : GatherDone(c, ok) \/ CloseEngine(c, ok)
    PROVE  TypeOK'
<1>1. CASE JoinStop(c) \/ StopFindsReleased(c)
  BY <1>1 DEF JoinStop, StopFindsReleased, runVars, TypeOK, Stops
<1>2. CASE StopCancelsRunner(c)
  BY <1>2 DEF StopCancelsRunner, TypeOK, Stops
<1>3. CASE StopReleases(c)
  <2> DEFINE st == [status EXCEPT ![c] = IF @ \in Terminal THEN @ ELSE "cancelled"]
  <2>1. StartRelease(c) /\ fresh' \in [Agents -> BOOLEAN]
    BY <1>3 DEF StopReleases, TypeOK
  <2>2. /\ st \in [Agents -> Statuses] /\ runner \in [Agents -> Runners]
        /\ cancelReq \in [Agents -> BOOLEAN] /\ done \in [Agents -> BOOLEAN]
    BY DEF TypeOK, Statuses, Terminal
  <2>3. Wake(ToldOfFailure(c), st, runner, cancelReq, done)
    BY <1>3 DEF StopReleases
  <2>4. stop' \in [Agents -> Stops]
    BY <1>3 DEF StopReleases, TypeOK, Stops
  <2> QED
    BY <1>3, <2>1, <2>2, <2>3, <2>4, WakeEffect, ReleaseEffect DEF StopReleases, TypeOK
<1>4. CASE \E ok \in BOOLEAN : GatherDone(c, ok)
  <2>1. PICK ok \in BOOLEAN : GatherDone(c, ok)
    BY <1>4
  <2>2. err' \in [Agents -> BOOLEAN] /\ term' \in [Agents -> {"none", "due", "joined"}]
    BY <2>1 DEF GatherDone, TypeOK
  <2>3. runner' \in [Agents -> Runners] /\ stop' \in [Agents -> Stops]
    BY <2>1 DEF GatherDone, TypeOK, Runners, Stops
  <2>4. faults' \in Nat
    BY <2>1 DEF GatherDone, TypeOK
  <2> QED
    BY <2>1, <2>2, <2>3, <2>4 DEF GatherDone, TypeOK
<1>5. CASE \E ok \in BOOLEAN : CloseEngine(c, ok)
  <2>1. PICK ok \in BOOLEAN : CloseEngine(c, ok)
    BY <1>5
  <2>2. PICK told :
           /\ fresh' = [a \in Agents |-> fresh[a] \/ a \in told]
           /\ Wake(told, status, [runner EXCEPT ![c] = "done"], cancelReq, [done EXCEPT ![c] = TRUE])
    BY <2>1 DEF CloseEngine
  <2>3. /\ [runner EXCEPT ![c] = "done"] \in [Agents -> Runners]
        /\ [done EXCEPT ![c] = TRUE] \in [Agents -> BOOLEAN]
        /\ cancelReq \in [Agents -> BOOLEAN] /\ status \in [Agents -> Statuses]
    BY DEF TypeOK, Runners
  <2>4. /\ status' \in [Agents -> Statuses] /\ runner' \in [Agents -> Runners]
        /\ cancelReq' \in [Agents -> BOOLEAN] /\ done' \in [Agents -> BOOLEAN]
    BY <2>2, <2>3, WakeEffect
  <2>5. engine' \in [Agents -> BOOLEAN] /\ released' \in [Agents -> BOOLEAN]
    BY <2>1 DEF CloseEngine, Clean, TypeOK
  <2>6. stop' \in [Agents -> Stops]
    BY <2>1 DEF CloseEngine, TypeOK, Stops
  <2>7. faults' \in Nat /\ fresh' \in [Agents -> BOOLEAN]
    BY <2>1, <2>2 DEF CloseEngine, TypeOK
  <2> QED
    BY <2>1, <2>4, <2>5, <2>6, <2>7 DEF CloseEngine, TypeOK
<1> QED
  BY <1>1, <1>2, <1>3, <1>4, <1>5

LEMMA TypesOfTree ==
    ASSUME TypeOK, Spend \/ Close \/ CloseDone
    PROVE  TypeOK'
  BY DEF Spend, Close, CloseDone, runVars, stopVars, TypeOK, Stops


-----------------------------------------------------------------------------
(* The operations on an agent.                                             *)

LEMMA InitParts == Init => Parts /\ ClosedInv
<1> SUFFICES ASSUME Init PROVE Parts /\ ClosedInv
  OBVIOUS
<1>1. ASSUME NEW c \in Agents PROVE Local(c) /\ ChildInv(c)
  BY DEF Init, Local, RunnerInv, StopInv, FlagInv, FaultInv, ChildInv, Spawned, Terminal
<1>2. BirthOrder
  BY DEF Init, BirthOrder, Spawned
<1>3. LetterInv /\ IdleHasNothingToDo /\ ClosedInv
  BY DEF Init, LetterInv, IdleHasNothingToDo, ClosedInv, Unsent
<1> QED
  BY <1>1, <1>2, <1>3 DEF Parts

\* As far as the shape of the tree goes, nothing happened.
LEMMA ChildrenKept ==
    ASSUME Parts, phase' = phase, \A a \in Agents : ChildSide(a) /\ ParentSide(a)
    PROVE  (\A a \in Agents : ChildInv(a)') /\ BirthOrder'
<1>1. ASSUME NEW a \in Agents PROVE ChildInv(a)'
  <2>1. ParentSide(Parent[a])
    BY TreeConstants DEF ParentSide
  <2> QED
    BY <2>1, ChildKept DEF Parts
<1>2. \A a \in Agents : Spawned(a)' => Spawned(a)
  BY DEF ChildSide
<1> QED
  BY <1>1, <1>2, BirthsKept DEF Parts

\* An operation that does no more to any agent than waking it.
LEMMA OnlyWoken ==
    ASSUME TypeOK, Parts, \A a \in Agents : SameOrWoken(a) /\ SameEnd(a),
           cap' = cap, engine' = engine, faults' = faults, phase' = phase
    PROVE  (\A a \in Agents : Local(a)' /\ ChildInv(a)') /\ BirthOrder'
<1>1. ASSUME NEW a \in Agents PROVE Local(a)' /\ ChildSide(a) /\ ParentSide(a)
  <2>1. a # Root
    BY TreeConstants
  <2>2. Local(a)
    BY DEF Parts
  <2>3. ChildSide(a) /\ ParentSide(a)
    BY <2>1, <2>2, BystanderSides
  <2>4. Local(a)'
    BY <2>2, BystanderLocal DEF SameEnd
  <2> QED
    BY <2>3, <2>4
<1> QED
  BY <1>1, ChildrenKept

LEMMA SendKeeps ==
    ASSUME TypeOK, Parts, NEW c \in Agents, NEW m \in Messages, NEW kind, Send(m, c, kind)
    PROVE  Parts'
<1>1. \A a \in Agents : SameOrWoken(a) /\ (a = c => status'[a] # "idle") /\ (a # c => Same(a))
  BY TypesOfWake DEF Send
<1>2. \A a \in Agents : Local(a)' /\ ChildInv(a)'
  BY <1>1, OnlyWoken DEF Send, stopVars, SameEnd
<1>3. BirthOrder'
  BY <1>1, OnlyWoken DEF Send, stopVars, SameEnd
<1>4. letter'[m].at = "queued" /\ letter'[m].to = c
  BY DEF Send, TypeOK
<1>5. \A k \in Messages : k # m => letter'[k] = letter[k]
  BY DEF Send, TypeOK
<1>6. cap[c] /\ cap' = cap /\ phase' = phase /\ Spawned(c)
  BY DEF Send, Parts, Local, FlagInv
<1>7. \A a \in Agents : Spawned(a) => Spawned(a)'
  BY <1>1 DEF SameOrWoken, Same, Woken, Spawned
<1>8. LetterInv'
  BY <1>4, <1>5, <1>6, <1>7 DEF Parts, LetterInv, Live
<1>9. IdleHasNothingToDo'
  <2>1. spent => spent'
    BY DEF Send
  <2>2. ASSUME NEW a \in Agents, status'[a] = "idle"
        PROVE  /\ status[a] = "idle" /\ (fresh'[a] => fresh[a])
               /\ \A k \in Queued(a)' : k \in Queued(a)
    <3>1. a # c /\ status[a] = "idle"
      BY <1>1, <2>2 DEF Same
    <3>2. \A k \in Queued(a)' : k \in Queued(a)
      BY <1>4, <1>5, <3>1 DEF Queued
    <3> QED
      BY <3>1, <3>2 DEF Send
  <2> QED
    BY <2>1, <2>2, IdleKept DEF Parts
<1> QED
  BY <1>2, <1>3, <1>8, <1>9 DEF Parts

\* A report or an event: W is told of it, and woken.
LEMMA TellKeeps ==
    ASSUME TypeOK, Parts, NEW W, Wake(W, status, runner, cancelReq, done),
           fresh' = [a \in Agents |-> fresh[a] \/ a \in W],
           UNCHANGED <<persistent, cap, stopVars, engine, released, letter, calls,
                       spent, faults, phase>>
    PROVE  Parts'
<1>1. \A a \in Agents : SameOrWoken(a) /\ (a \in W => spent \/ status'[a] # "idle")
  BY TypesOfWake
<1>2. (\A a \in Agents : Local(a)' /\ ChildInv(a)') /\ BirthOrder'
  BY <1>1, OnlyWoken DEF stopVars, SameEnd
<1>3. \A a \in Agents : Spawned(a) => Spawned(a)'
  BY <1>1 DEF SameOrWoken, Same, Woken, Spawned
<1>4. LetterInv'
  BY <1>3, LettersKept
<1>5. ASSUME NEW a \in Agents, status'[a] = "idle"
      PROVE  /\ status[a] = "idle" /\ (fresh'[a] => fresh[a] \/ spent)
             /\ \A k \in Queued(a)' : k \in Queued(a)
  <2>1. status[a] = "idle"
    BY <1>1, <1>5 DEF SameOrWoken, Same, Woken
  <2> QED
    BY <1>1, <1>5, <2>1 DEF Queued
<1>6. IdleHasNothingToDo'
  BY <1>5, IdleKept DEF Parts
<1> QED
  BY <1>2, <1>4, <1>6 DEF Parts

LEMMA ReportKeeps ==
    ASSUME TypeOK, Parts, NEW c \in Agents, Report(c) \/ PostEvent(c)
    PROVE  Parts'
<1>1. CASE Report(c)
  BY <1>1, TellKeeps DEF Report
<1>2. CASE PostEvent(c)
  <2>1. fresh' = [a \in Agents |-> fresh[a] \/ a \in {c}]
    BY <1>2 DEF PostEvent, TypeOK
  <2> QED
    BY <1>2, <2>1, TellKeeps DEF PostEvent
<1> QED
  BY <1>1, <1>2

LEMMA SpawnKeeps ==
    ASSUME TypeOK, Parts, NEW c \in Agents, NEW keep, Spawn(c, keep)
    PROVE  Parts'
<1> DEFINE p == Parent[c]
<1>1. /\ ~Spawned(c) /\ status'[c] = "starting" /\ runner'[c] = "scheduled" /\ cap'[c]
      /\ ~cancelReq[c] /\ ~done[c] /\ ~cap[c] /\ stop[c] = "none" /\ term[c] = "none"
      /\ ~released[c]
  BY DEF Spawn, TypeOK, Parts, Local, FlagInv, Spawned, Terminal
<1>2. \A a \in Agents : a # c => status'[a] = status[a] /\ runner'[a] = runner[a] /\ cap'[a] = cap[a]
  BY DEF Spawn, TypeOK
<1>3. UNCHANGED <<cancelReq, stop, term, err, engine, done, released, fresh, letter, spent, faults, phase>>
  BY DEF Spawn, stopVars
<1>4. ASSUME NEW d \in Agents, Spawned(d) PROVE Parent[d] # c
  BY <1>1, <1>4, TreeConstants DEF Parts, ChildInv
<1>5. p # c /\ (p = Root => phase = "open")
  BY <1>1, TreeConstants DEF Spawn, MayCall
<1>6. p # Root => /\ p \in Agents /\ cap[p] /\ runner[p] = "prompt" /\ Spawned(p)
                  /\ status[p] \notin Terminal /\ ~released[p] /\ stop[p] \notin {"gather", "closing"}
  BY TreeConstants DEF Spawn, MayCall, Parts, Local, FlagInv, StopInv
<1>7. ASSUME NEW a \in Agents, a # c PROVE SameOrWoken(a) /\ SameEnd(a) /\ Local(a)
  BY <1>2, <1>3, <1>7 DEF SameOrWoken, Same, SameEnd, Parts
<1>8. ASSUME NEW a \in Agents PROVE Local(a)'
  <2>1. CASE a # c
    <3>1. cap'[a] = cap[a] /\ engine'[a] = engine[a] /\ faults' = faults
      BY <1>2, <1>3, <2>1
    <3> QED
      BY <1>7, <2>1, <3>1, BystanderLocal DEF SameEnd
  <2>2. RunnerInv(c)' /\ StopInv(c)'
    BY <1>1, <1>3 DEF RunnerInv, StopInv, Terminal
  <2>3. FlagInv(c)'
    BY <1>1, <1>3 DEF FlagInv, Spawned, Terminal
  <2>4. FaultInv(c)'
    BY <1>1, <1>3 DEF FaultInv, Terminal, Parts, Local
  <2> QED
    BY <2>1, <2>2, <2>3, <2>4 DEF Local
<1>9. ASSUME NEW a \in Agents PROVE ChildInv(a)'
  <2>1. CASE a = c
    <3>1. p # Root => Spawned(p)' /\ ~Ending(p)' /\ ~Past(p)' /\ ~released'[p]
                      /\ "closing" \notin {runner'[p], stop'[p]}
      BY <1>2, <1>3, <1>5, <1>6 DEF Spawned, Ending, Past, Terminal
    <3>2. p = Root => ~Ending(p)' /\ ~Past(p)'
      BY <1>3, <1>5 DEF Ending, Past
    <3>3. term'[c] = "none"
      BY <1>1, <1>3
    <3> QED
      BY <2>1, <3>1, <3>2, <3>3 DEF ChildInv
  <2>2. CASE Parent[a] = c /\ a # c
    <3>1. ~Spawned(a)' /\ term'[a] = "none"
      BY <1>2, <1>3, <1>4, <2>2 DEF Spawned, Parts, Local, FlagInv
    <3> QED
      BY <3>1 DEF ChildInv
  <2>3. CASE a # c /\ Parent[a] # c
    <3>1. ChildSide(a)
      BY <1>7, <2>3, BystanderSides
    <3>2. ParentSide(Parent[a])
      <4>1. CASE Parent[a] = Root
        BY <1>3, <4>1 DEF ParentSide
      <4>2. CASE Parent[a] # Root
        <5>1. Parent[a] \in Agents
          BY <4>2, TreeConstants
        <5> QED
          BY <1>7, <2>3, <4>2, <5>1, BystanderSides
      <4> QED
        BY <4>1, <4>2
    <3> QED
      BY <3>1, <3>2, ChildKept DEF Parts
  <2> QED
    BY <2>1, <2>2, <2>3
<1>10. BirthOrder'
  <2> SUFFICES ASSUME NEW S \in SUBSET Agents, S # {}, \A a \in S : Spawned(a)'
               PROVE  \E a \in S : Parent[a] \notin S
    BY DEF BirthOrder
  <2>1. \A a \in S \ {c} : Spawned(a)
    BY <1>2 DEF Spawned
  <2>2. CASE S \ {c} = {}
    BY <1>5, <2>2
  <2>3. CASE S \ {c} # {}
    <3>1. S \ {c} \in SUBSET Agents
      OBVIOUS
    <3>2. PICK a \in S \ {c} : Parent[a] \notin S \ {c}
      BY <2>1, <2>3, <3>1 DEF Parts, BirthOrder
    <3>3. Parent[a] # c
      BY <1>4, <2>1
    <3> QED
      BY <3>2, <3>3
  <2> QED
    BY <2>2, <2>3
<1>11. LetterInv'
  <2> SUFFICES ASSUME NEW m \in Messages
               PROVE  /\ letter[m].at # "unsent" => letter[m].to \in Agents /\ Spawned(letter[m].to)'
                      /\ letter[m].at = "queued" => cap'[letter[m].to]
                      /\ letter[m].at = "failed" /\ Live(Parent[letter[m].to])' => letter[m].reported
    BY <1>3 DEF LetterInv
  <2>1. letter[m].at # "unsent" => letter[m].to \in Agents /\ Spawned(letter[m].to) /\ letter[m].to # c
    BY <1>1 DEF Parts, LetterInv
  <2>2. letter[m].at # "unsent" => Spawned(letter[m].to)' /\ cap'[letter[m].to] = cap[letter[m].to]
    BY <1>2, <1>3, <2>1 DEF Spawned
  <2>3. letter[m].at # "unsent" /\ Live(Parent[letter[m].to])' => Live(Parent[letter[m].to])
    BY <1>2, <1>3, <1>4, <2>1, TreeConstants DEF Live
  <2> QED
    BY <2>1, <2>2, <2>3 DEF Parts, LetterInv
<1>12. IdleHasNothingToDo'
  BY <1>1, <1>2, <1>3 DEF Parts, IdleHasNothingToDo, Queued
<1> QED
  BY <1>8, <1>9, <1>10, <1>11, <1>12 DEF Parts

LEMMA CancelKeeps ==
    ASSUME TypeOK, Parts, NEW c \in Agents, Cancel(c)
    PROVE  Parts'
<1>1. /\ Spawned(c) /\ stop[c] \notin {"scheduled", "joining", "gather", "closing"}
      /\ stop'[c] = "scheduled" /\ \A a \in Agents : a # c => stop'[a] = stop[a]
  BY DEF Cancel, Joinable, TypeOK
<1>2. UNCHANGED <<status, persistent, cap, runVars, term, err, done, released, fresh,
                  letter, calls, spent, faults, phase>>
  BY DEF Cancel
<1>3. ~Past(Parent[c])
  BY TreeConstants DEF Cancel, MayCall, Past, Parts, Local, FlagInv
<1>4. ASSUME NEW a \in Agents PROVE Local(a)' /\ ChildSide(a) /\ ParentSide(a)
  <2>1. CASE a # c
    <3>1. SameOrWoken(a) /\ SameEnd(a) /\ Local(a) /\ a # Root
      BY <1>1, <1>2, <2>1, TreeConstants DEF SameOrWoken, Same, SameEnd, Parts, runVars
    <3> QED
      BY <1>2, <3>1, BystanderLocal, BystanderSides DEF SameEnd, runVars
  <2>2. RunnerInv(c)' /\ StopInv(c)' /\ FlagInv(c)'
    BY <1>1, <1>2 DEF RunnerInv, StopInv, FlagInv, Parts, Local, runVars, Spawned
  <2>3. FaultInv(c)'
    BY <1>1, <1>2 DEF FaultInv, Parts, Local, runVars
  <2>4. ChildSide(c)
    BY <1>1, <1>2, <1>3 DEF ChildSide, runVars, Spawned
  <2>5. ParentSide(c)
    BY <1>1, <1>2, TreeConstants DEF ParentSide, runVars, Spawned, Ending, Past
  <2> QED
    BY <2>1, <2>2, <2>3, <2>4, <2>5 DEF Local
<1>5. LetterInv'
  BY <1>2, LettersKept DEF Spawned
<1>6. IdleHasNothingToDo'
  BY <1>2, IdleKept DEF Parts, Queued
<1> QED
  BY <1>2, <1>4, <1>5, <1>6, ChildrenKept DEF Parts

-----------------------------------------------------------------------------
\* _wake_agent on top of a step of c.
LEMMA WakeAround ==
    ASSUME TypeOK, NEW c \in Agents, NEW W, NEW st \in [Agents -> Statuses],
           NEW rn \in [Agents -> Runners], NEW dn \in [Agents -> BOOLEAN],
           \A a \in Agents : a # c => st[a] = status[a] /\ rn[a] = runner[a] /\ dn[a] = done[a],
           Wake(W, st, rn, cancelReq, dn)
    PROVE  /\ \A a \in Agents : a # c => SameOrWoken(a)
           /\ \/ /\ status'[c] = st[c] /\ runner'[c] = rn[c]
                 /\ cancelReq'[c] = cancelReq[c] /\ done'[c] = dn[c]
              \/ st[c] = "idle" /\ ~spent /\ Woken(c)
           /\ \A a \in W \intersect Agents : spent \/ status'[a] # "idle"
<1>1. cancelReq \in [Agents -> BOOLEAN]
  BY DEF TypeOK
<1>2. /\ status' \in [Agents -> Statuses] /\ runner' \in [Agents -> Runners]
      /\ cancelReq' \in [Agents -> BOOLEAN] /\ done' \in [Agents -> BOOLEAN]
      /\ \A a \in Agents :
           \/ /\ status'[a] = st[a] /\ runner'[a] = rn[a]
              /\ cancelReq'[a] = cancelReq[a] /\ done'[a] = dn[a]
           \/ a \in W /\ st[a] = "idle" /\ ~spent /\ Woken(a)
      /\ \A a \in W \intersect Agents : spent \/ status'[a] # "idle"
  BY <1>1, WakeEffect
<1>3. \A a \in Agents : a # c => SameOrWoken(a)
  BY <1>2 DEF SameOrWoken, Same
<1> QED
  BY <1>2, <1>3

-----------------------------------------------------------------------------
(* The runner.                                                             *)

\* A run starts, goes on or is dropped: its agent takes some of its instructions,
\* and nobody else changes.
LEMMA RunKeeps ==
    ASSUME TypeOK, Parts, NEW c \in Agents,
           StartRun(c) \/ DropRun(c) \/ TurnBoundary(c) \/ TakeQueue(c)
    PROVE  Parts'
<1>1. UNCHANGED <<persistent, cap, cancelReq, stop, term, err, done, released, calls, spent, faults, phase>>
  BY DEF StartRun, DropRun, TurnBoundary, TakeQueue, stopVars, runVars
<1>2. \A a \in Agents : a # c => status'[a] = status[a] /\ runner'[a] = runner[a] /\ engine'[a] = engine[a]
  BY DEF StartRun, DropRun, TurnBoundary, TakeQueue, runVars, TypeOK
<1>3. /\ runner[c] \in {"scheduled", "prompt"} /\ status'[c] \in Active
      /\ runner[c] = "scheduled" => status[c] = "starting"
      /\ runner[c] = "prompt" => status[c] = "running"
      /\ \/ runner'[c] = "prompt" /\ status'[c] = "running"
         \/ runner'[c] = "done" /\ status'[c] = "starting" /\ cancelReq[c] /\ runner[c] = "scheduled"
      /\ runner[c] = "prompt" => runner'[c] = "prompt"
      /\ runner'[c] = "prompt" => ~cancelReq[c]
  BY DEF StartRun, DropRun, TurnBoundary, TakeQueue, runVars, TypeOK, Parts, Local, RunnerInv, Active
<1>4. Local(c) /\ ~released[c] /\ Spawned(c) /\ Spawned(c)'
  BY <1>3 DEF Parts, Local, FlagInv, Terminal, Spawned, Active
<1>5. ASSUME NEW a \in Agents PROVE Local(a)' /\ ChildSide(a) /\ ParentSide(a)
  <2>1. CASE a # c
    <3>1. SameOrWoken(a) /\ SameEnd(a) /\ Local(a) /\ a # Root
      BY <1>1, <1>2, <2>1, TreeConstants DEF SameOrWoken, Same, SameEnd, Parts
    <3> QED
      BY <1>1, <1>2, <2>1, <3>1, BystanderLocal, BystanderSides DEF SameEnd
  <2>2. RunnerInv(c)' /\ StopInv(c)'
    BY <1>1, <1>3, <1>4 DEF RunnerInv, StopInv, Terminal, Local, Active
  <2>3. FlagInv(c)'
    BY <1>1, <1>3, <1>4 DEF FlagInv, Local, Terminal, Active, Spawned
  <2>4. FaultInv(c)'
    BY <1>1, <1>3, <1>4 DEF FaultInv, Local, Terminal, Active
  <2>5. ~Rests(c)
    BY <1>3 DEF Rests
  <2>6. ChildSide(c)
    BY <1>1, <1>4, <2>5 DEF ChildSide
  <2>7. stop[c] \notin {"gather", "closing"}
    BY <1>3, <1>4 DEF Local, StopInv
  <2>8. ParentSide(c)
    BY <1>1, <1>3, <1>4, <2>7, TreeConstants DEF ParentSide, Ending, Past, Active, Terminal
  <2> QED
    BY <2>1, <2>2, <2>3, <2>4, <2>6, <2>8 DEF Local
<1>6. \A m \in Messages :
         \/ letter'[m] = letter[m]
         \/ letter'[m].at = "delivered" /\ letter'[m].to = letter[m].to /\ letter[m].at # "unsent"
  BY TakenEffect DEF StartRun, DropRun, TurnBoundary, TakeQueue, Queued, Steers
<1>7. LetterInv'
  BY <1>1, <1>5, <1>6, LettersKept DEF ChildSide
<1>8. ASSUME NEW a \in Agents, status'[a] = "idle"
      PROVE  /\ status[a] = "idle" /\ (fresh'[a] => fresh[a] \/ spent)
             /\ \A m \in Queued(a)' : m \in Queued(a)
  <2>1. a # c
    BY <1>3, <1>8 DEF Active
  <2>2. fresh'[a] = fresh[a]
    BY <2>1 DEF StartRun, DropRun, TurnBoundary, TakeQueue, TypeOK
  <2> QED
    BY <1>2, <1>6, <1>8, <2>1, <2>2 DEF Queued
<1>9. IdleHasNothingToDo'
  BY <1>1, <1>8, IdleKept DEF Parts
<1> QED
  BY <1>1, <1>5, <1>7, <1>9, ChildrenKept DEF Parts

\* The agent goes idle, or starts again at once; its parent may be woken.
LEMMA GoIdleKeeps ==
    ASSUME TypeOK, Parts, NEW c \in Agents, GoIdle(c)
    PROVE  Parts'
<1> DEFINE W == Reached(c) \union (IF RunAgain(c) THEN {c} ELSE {})
           st == [status EXCEPT ![c] = "idle"]
           rn == [runner EXCEPT ![c] = "done"]
           dn == [done EXCEPT ![c] = TRUE]
<1>1. UNCHANGED <<cap, stop, term, err, engine, released, spent, faults, phase>>
  BY DEF GoIdle, stopVars
<1>2. /\ status[c] = "running" /\ Spawned(c) /\ ~cancelReq[c] /\ Local(c) /\ ~released[c]
      /\ cap[c] /\ stop[c] \notin {"joining", "gather", "closing"} /\ runner[c] = "prompt"
  BY DEF GoIdle, Parts, Local, RunnerInv, StopInv, FlagInv, Spawned, Terminal
<1>3. Parent[c] # c
  BY <1>2, NotOwnParent DEF Parts
<1>4. /\ st \in [Agents -> Statuses] /\ rn \in [Agents -> Runners] /\ dn \in [Agents -> BOOLEAN]
      /\ cancelReq \in [Agents -> BOOLEAN]
  BY DEF TypeOK, Statuses, Runners
<1>5. Wake(W, st, rn, cancelReq, dn)
  BY DEF GoIdle
<1>6. \A a \in Agents : a # c => st[a] = status[a] /\ rn[a] = runner[a] /\ dn[a] = done[a]
  BY DEF TypeOK
<1>7. st[c] = "idle" /\ rn[c] = "done" /\ dn[c] = TRUE
  BY DEF TypeOK
<1> HIDE DEF W, st, rn, dn
<1>8. /\ \A a \in Agents : a # c => SameOrWoken(a)
      /\ \/ /\ status'[c] = st[c] /\ runner'[c] = rn[c]
            /\ cancelReq'[c] = cancelReq[c] /\ done'[c] = dn[c]
         \/ st[c] = "idle" /\ ~spent /\ Woken(c)
      /\ \A a \in W \intersect Agents : spent \/ status'[a] # "idle"
  BY <1>4, <1>5, <1>6, WakeAround, SMTT(30)
<1>10. /\ \/ status'[c] = "idle" /\ runner'[c] = "done"
          \/ status'[c] = "starting" /\ runner'[c] = "scheduled" /\ ~done'[c]
       /\ ~cancelReq'[c]
  BY <1>2, <1>7, <1>8 DEF Woken
<1>11. ASSUME NEW a \in Agents PROVE Local(a)' /\ ChildSide(a) /\ ParentSide(a)
  <2>1. CASE a # c
    <3>1. SameOrWoken(a) /\ SameEnd(a) /\ Local(a) /\ a # Root
      BY <1>1, <1>8, <2>1, TreeConstants DEF SameEnd, Parts
    <3> QED
      BY <1>1, <3>1, BystanderLocal, BystanderSides DEF SameEnd
  <2>2. RunnerInv(c)' /\ StopInv(c)'
    BY <1>1, <1>2, <1>10 DEF RunnerInv, StopInv, Terminal, Local
  <2>3. FlagInv(c)'
    BY <1>1, <1>2, <1>10 DEF FlagInv, Local, Terminal, Spawned
  <2>4. FaultInv(c)'
    BY <1>1, <1>2, <1>10 DEF FaultInv, Local, Terminal
  <2>5. ChildSide(c)
    BY <1>1, <1>2, <1>10 DEF ChildSide, Spawned, Rests
  <2>6. ParentSide(c)
    BY <1>1, <1>2, <1>10, TreeConstants DEF ParentSide, Ending, Past, Terminal, Spawned
  <2> QED
    BY <2>1, <2>2, <2>3, <2>4, <2>5, <2>6 DEF Local
<1>12. letter' = IF spent THEN Failed(c) ELSE letter
  BY DEF GoIdle
<1>13. \A m \in Messages :
          \/ letter'[m] = letter[m] /\ (m \in Queued(c) => ~spent)
          \/ /\ letter'[m].at = "failed" /\ letter'[m].to = c /\ letter[m].to = c
             /\ letter'[m].reported = Live(Parent[c])
  BY <1>12, FailedEffect DEF Queued
<1>14. LetterInv'
  <2>1. \A a \in Agents : Spawned(a) => Spawned(a)'
    BY <1>11 DEF ChildSide
  <2>2. \A p : Live(p)' => Live(p)
    BY <1>1 DEF Live
  <2>3. ASSUME NEW m \in Messages
        PROVE  (/\ letter[m].at # "unsent" => letter[m].to \in Agents /\ Spawned(letter[m].to)
                /\ letter[m].at = "queued" => cap[letter[m].to]
                /\ letter[m].at = "failed" /\ Live(Parent[letter[m].to]) => letter[m].reported)'
    <3>1. CASE letter'[m] = letter[m]
      BY <1>1, <2>1, <2>2, <3>1 DEF Parts, LetterInv
    <3>2. CASE /\ letter'[m].at = "failed" /\ letter'[m].to = c
               /\ letter'[m].reported = Live(Parent[c])
      BY <1>2, <2>1, <2>2, <3>2
    <3> QED
      BY <1>13, <3>1, <3>2
  <2> QED
    BY <2>3 DEF LetterInv
<1>15. fresh' = [a \in Agents |-> fresh[a] \/ a \in Reached(c)]
  BY DEF GoIdle
<1>16. Reached(c) \subseteq W /\ c \notin Reached(c) /\ (RunAgain(c) => c \in W)
  BY <1>3 DEF W, Reached
<1>17. ASSUME NEW a \in Agents, status'[a] = "idle"
       PROVE  Queued(a)' = {} /\ (fresh'[a] => spent')
  <2>1. CASE a # c
    <3>1. status[a] = "idle"
      BY <1>8, <1>17, <2>1 DEF SameOrWoken, Same, Woken
    <3>2. Queued(a) = {} /\ (fresh[a] => spent)
      BY <3>1 DEF Parts, IdleHasNothingToDo
    <3>3. Queued(a)' = {}
      BY <1>13, <3>2 DEF Queued
    <3>4. a \in Reached(c) => spent
      BY <1>8, <1>16, <1>17
    <3> QED
      BY <1>1, <1>15, <3>2, <3>3, <3>4
  <2>2. CASE a = c
    <3>1. RunAgain(c) => spent
      BY <1>8, <1>16, <1>17, <2>2
    <3>2. ~spent => Queued(c) = {}
      BY <3>1 DEF RunAgain
    <3>3. Queued(c)' = {}
      BY <1>13, <3>2 DEF Queued
    <3>4. fresh'[c] => spent
      BY <1>15, <1>16, <3>1 DEF RunAgain
    <3> QED
      BY <1>1, <2>2, <3>3, <3>4
  <2> QED
    BY <2>1, <2>2
<1> QED
  BY <1>1, <1>11, <1>14, <1>17, ChildrenKept DEF Parts, IdleHasNothingToDo

-----------------------------------------------------------------------------
(* The start of a release.                                                 *)

\* The runner or the stop task of c starts releasing it: what was sent to c and not
\* taken fails, its children are to be terminated, and its parent may be woken.
LEMMA ReleaseKeeps ==
    ASSUME TypeOK, Parts, NEW c \in Agents, StartRelease(c),
           Spawned(c), ~Rests(c), ~released[c], status'[c] \in Terminal,
           RunnerInv(c)', StopInv(c)', Ending(c)', "closing" \notin {runner'[c], stop'[c]},
           stop'[c] # "none" \/ stop[c] = "none",
           \A a \in Agents : a # c => SameOrWoken(a) /\ stop'[a] = stop[a],
           \A a \in ToldOfFailure(c) \intersect Agents : spent \/ status'[a] # "idle",
           fresh' = [a \in Agents |-> fresh[a] \/ a \in ToldOfFailure(c)],
           engine' = engine, released' = released, spent' = spent, faults' = faults,
           phase' = phase
    PROVE  Parts'
<1>1. Parent[c] # c
  BY NotOwnParent DEF Parts
<1>2. /\ ~cap'[c] /\ ~err'[c]
      /\ \A a \in Agents : a # c => cap'[a] = cap[a] /\ err'[a] = err[a]
      /\ \A a \in Agents : Parent[a] # c => term'[a] = term[a]
      /\ \A a \in Agents : Parent[a] = c /\ Spawned(a) => term'[a] = "due"
      /\ \A a \in Agents : Parent[a] = c /\ ~Spawned(a) => term'[a] = term[a]
  BY ReleaseEffect DEF TypeOK
<1>3. \A a \in Agents : Spawned(a)' <=> Spawned(a)
  <2>1. Spawned(c)'
    BY DEF Spawned, Terminal
  <2> QED
    BY <2>1 DEF SameOrWoken, Same, Woken, Spawned
<1>4. ASSUME NEW a \in Agents PROVE Local(a)'
  <2>1. CASE a # c
    <3>1. Local(a) /\ SameOrWoken(a) /\ (~Spawned(a) => term'[a] = term[a])
      BY <1>2, <2>1 DEF Parts
    <3>2. stop'[a] = stop[a] /\ err'[a] = err[a] /\ cap'[a] = cap[a] /\ engine'[a] = engine[a]
      BY <1>2, <2>1
    <3> QED
      BY <3>1, <3>2, BystanderLocal
  <2>2. FlagInv(c)'
    BY <1>2, <1>3 DEF FlagInv
  <2>3. FaultInv(c)'
    BY <1>2, TreeConstants DEF FaultInv, Ending, RunnerInv
  <2> QED
    BY <2>1, <2>2, <2>3 DEF Local
<1>5. ASSUME NEW a \in Agents PROVE ChildInv(a)'
  <2>1. CASE Parent[a] = c
    <3>1. (term[a] = "joined" => stop[a] # "none")'
      <4>1. CASE Spawned(a)
        BY <1>2, <2>1, <4>1
      <4>2. CASE ~Spawned(a)
        BY <1>2, <2>1, <4>2 DEF Parts, Local, FlagInv
      <4> QED
        BY <4>1, <4>2
    <3>2. Spawned(a)' => term'[a] = "due"
      BY <1>2, <1>3, <2>1
    <3>3. Ending(c)' /\ ~Past(c)' /\ Spawned(c)' /\ ~released'[c] /\ c # Root
      BY <1>3, TreeConstants DEF Past
    <3> QED
      BY <2>1, <3>1, <3>2, <3>3 DEF ChildInv
  <2>2. CASE Parent[a] # c
    <3>1. ChildSide(a)
      <4>1. CASE a = c
        BY <1>2, <1>3, <2>2, <4>1 DEF ChildSide
      <4>2. CASE a # c
        BY <1>2, <2>2, <4>2, BystanderSides DEF SameEnd, Parts
      <4> QED
        BY <4>1, <4>2
    <3>2. ParentSide(Parent[a])
      <4>1. CASE Parent[a] = Root
        BY <4>1 DEF ParentSide
      <4>2. CASE Parent[a] # Root
        <5> DEFINE p == Parent[a]
        <5>1. p \in Agents /\ p # c
          BY <2>2, <4>2, TreeConstants
        <5>2. SameOrWoken(p) /\ Local(p) /\ stop'[p] = stop[p] /\ err'[p] = err[p] /\ released'[p] = released[p]
          BY <1>2, <5>1 DEF Parts
        <5>3. Ending(p)' <=> Ending(p)
          BY <4>2, <5>2 DEF Ending, SameOrWoken, Same, Woken, Local, RunnerInv
        <5>4. Past(p)' => Past(p)
          BY <4>2, <5>2, <5>3 DEF Past, SameOrWoken, Same, Woken, Terminal
        <5>5. "closing" \in {runner[p], stop[p]}' => "closing" \in {runner[p], stop[p]}
          BY <5>2 DEF SameOrWoken, Same, Woken
        <5> QED
          BY <1>3, <4>2, <5>1, <5>2, <5>3, <5>4, <5>5 DEF ParentSide
      <4> QED
        BY <4>1, <4>2
    <3> QED
      BY <3>1, <3>2, ChildKept DEF Parts
  <2> QED
    BY <2>1, <2>2
<1>6. BirthOrder'
  BY <1>3, BirthsKept DEF Parts
<1>7. \A m \in Messages :
          \/ letter'[m] = letter[m] /\ m \notin Queued(c)
          \/ /\ letter'[m].at = "failed" /\ letter'[m].to = c /\ letter[m].to = c
             /\ letter'[m].reported = Live(Parent[c])
  BY FailedEffect DEF StartRelease, Queued
<1>8. LetterInv'
  <2>1. \A p \in Agents \union {Root} : Live(p)' => Live(p)
    BY <1>2, TreeConstants DEF Live
  <2>2. ASSUME NEW m \in Messages
        PROVE  (/\ letter[m].at # "unsent" => letter[m].to \in Agents /\ Spawned(letter[m].to)
                /\ letter[m].at = "queued" => cap[letter[m].to]
                /\ letter[m].at = "failed" /\ Live(Parent[letter[m].to]) => letter[m].reported)'
    <3>1. CASE letter'[m] = letter[m] /\ m \notin Queued(c)
      <4>1. letter[m].at # "unsent" => letter[m].to \in Agents /\ Spawned(letter[m].to)
        BY DEF Parts, LetterInv
      <4>2. letter[m].at = "queued" => letter[m].to # c /\ cap[letter[m].to]
        BY <3>1 DEF Parts, LetterInv, Queued
      <4>3. letter[m].at = "queued" => cap'[letter[m].to]
        BY <1>2, <4>1, <4>2
      <4>4. letter[m].at = "failed" /\ Live(Parent[letter[m].to])' => letter[m].reported
        BY <2>1, <3>1, <4>1, TreeConstants DEF Parts, LetterInv
      <4> QED
        BY <1>3, <3>1, <4>1, <4>3, <4>4
    <3>2. CASE /\ letter'[m].at = "failed" /\ letter'[m].to = c
               /\ letter'[m].reported = Live(Parent[c])
      <4>1. Live(Parent[c])' => Live(Parent[c])
        BY <2>1, TreeConstants
      <4> QED
        BY <1>3, <3>2, <4>1
    <3> QED
      BY <1>7, <3>1, <3>2
  <2> QED
    BY <2>2 DEF LetterInv
<1>9. ASSUME NEW a \in Agents, status'[a] = "idle"
      PROVE  /\ status[a] = "idle" /\ (fresh'[a] => fresh[a] \/ spent)
             /\ \A k \in Queued(a)' : k \in Queued(a)
  <2>1. a # c
    BY <1>9 DEF Terminal
  <2>2. status[a] = "idle"
    BY <1>9, <2>1 DEF SameOrWoken, Same, Woken
  <2>3. \A k \in Queued(a)' : k \in Queued(a)
    BY <1>7, <2>1 DEF Queued
  <2> QED
    BY <1>9, <2>2, <2>3
<1>10. IdleHasNothingToDo'
  BY <1>9, IdleKept DEF Parts
<1> QED
  BY <1>4, <1>5, <1>6, <1>8, <1>10 DEF Parts

LEMMA EndRunKeeps ==
    ASSUME TypeOK, Parts, NEW c \in Agents, NEW why \in Terminal, EndRun(c, why)
    PROVE  Parts'
<1> DEFINE W == ToldOfFailure(c)
           st == [status EXCEPT ![c] = why]
           rn == [runner EXCEPT ![c] = "gather"]
           dn == done
<1>1. UNCHANGED <<stop, engine, released, spent, faults, phase>>
  BY DEF EndRun
<1>2. /\ Spawned(c) /\ ~Rests(c) /\ ~released[c] /\ runner[c] = "prompt"
      /\ stop[c] \notin {"gather", "closing", "done", "failed"} /\ Local(c)
  BY DEF EndRun, Parts, Local, RunnerInv, StopInv, FlagInv, Spawned, Terminal, Rests
<1>3. /\ st \in [Agents -> Statuses] /\ rn \in [Agents -> Runners] /\ dn \in [Agents -> BOOLEAN]
  BY DEF TypeOK, Statuses, Runners
<1>4. \A a \in Agents : a # c => st[a] = status[a] /\ rn[a] = runner[a] /\ dn[a] = done[a]
  BY DEF TypeOK
<1>5. st[c] = why /\ rn[c] = "gather"
  BY DEF TypeOK
<1>6. Wake(W, st, rn, cancelReq, dn)
  BY DEF EndRun
<1> HIDE DEF W, st, rn, dn
<1>7. /\ \A a \in Agents : a # c => SameOrWoken(a)
      /\ \/ /\ status'[c] = st[c] /\ runner'[c] = rn[c]
            /\ cancelReq'[c] = cancelReq[c] /\ done'[c] = dn[c]
         \/ st[c] = "idle" /\ ~spent /\ Woken(c)
      /\ \A a \in W \intersect Agents : spent \/ status'[a] # "idle"
  BY <1>3, <1>4, <1>6, WakeAround
<1>8. status'[c] = why /\ runner'[c] = "gather" /\ stop'[c] = stop[c]
  BY <1>1, <1>5, <1>7 DEF Terminal
<1>9. RunnerInv(c)' /\ StopInv(c)'
  BY <1>2, <1>8 DEF RunnerInv, StopInv, Terminal
<1>10. Ending(c)' /\ "closing" \notin {runner'[c], stop'[c]}
  BY <1>2, <1>8, TreeConstants DEF Ending
<1>11. StartRelease(c) /\ fresh' = [a \in Agents |-> fresh[a] \/ a \in ToldOfFailure(c)]
  BY DEF EndRun
<1>12. \A a \in ToldOfFailure(c) \intersect Agents : spent \/ status'[a] # "idle"
  BY <1>7 DEF W
<1>13. \A a \in Agents : a # c => SameOrWoken(a) /\ stop'[a] = stop[a]
  BY <1>1, <1>7
<1> QED
  BY <1>1, <1>2, <1>8, <1>9, <1>10, <1>11, <1>12, <1>13, ReleaseKeeps

LEMMA StopReleasesKeeps ==
    ASSUME TypeOK, Parts, NEW c \in Agents, StopReleases(c)
    PROVE  Parts'
<1> DEFINE W == ToldOfFailure(c)
           st == [status EXCEPT ![c] = IF @ \in Terminal THEN @ ELSE "cancelled"]
<1>1. UNCHANGED <<engine, released, spent, faults, phase>>
  BY DEF StopReleases
<1>2. /\ Spawned(c) /\ ~released[c] /\ runner[c] = "done" /\ stop[c] \in {"scheduled", "joining"}
      /\ Local(c)
  BY DEF StopReleases, RunnerGone, Parts, Local, RunnerInv, Spawned
<1>3. ~Rests(c)
  BY <1>2 DEF Rests, Joinable
<1>4. /\ st \in [Agents -> Statuses] /\ runner \in [Agents -> Runners] /\ done \in [Agents -> BOOLEAN]
  BY DEF TypeOK, Statuses, Terminal
<1>5. \A a \in Agents : a # c => st[a] = status[a] /\ runner[a] = runner[a] /\ done[a] = done[a]
  BY DEF TypeOK
<1>6. st[c] \in Terminal
  BY DEF TypeOK, Terminal
<1>7. Wake(W, st, runner, cancelReq, done)
  BY DEF StopReleases
<1>8. stop'[c] = "gather" /\ \A a \in Agents : a # c => stop'[a] = stop[a]
  BY DEF StopReleases, TypeOK
<1> HIDE DEF W, st
<1>9. /\ \A a \in Agents : a # c => SameOrWoken(a)
      /\ \/ /\ status'[c] = st[c] /\ runner'[c] = runner[c]
            /\ cancelReq'[c] = cancelReq[c] /\ done'[c] = done[c]
         \/ st[c] = "idle" /\ ~spent /\ Woken(c)
      /\ \A a \in W \intersect Agents : spent \/ status'[a] # "idle"
  BY <1>4, <1>5, <1>7, WakeAround
<1>10. status'[c] \in Terminal /\ runner'[c] = "done"
  BY <1>2, <1>6, <1>9 DEF Terminal
<1>11. RunnerInv(c)' /\ StopInv(c)'
  BY <1>8, <1>10 DEF RunnerInv, StopInv, Terminal
<1>12. Ending(c)' /\ "closing" \notin {runner'[c], stop'[c]}
  BY <1>8, <1>10, TreeConstants DEF Ending
<1>13. StartRelease(c) /\ fresh' = [a \in Agents |-> fresh[a] \/ a \in ToldOfFailure(c)]
  BY DEF StopReleases
<1>14. \A a \in ToldOfFailure(c) \intersect Agents : spent \/ status'[a] # "idle"
  BY <1>9 DEF W
<1>15. \A a \in Agents : a # c => SameOrWoken(a) /\ stop'[a] = stop[a]
  BY <1>8, <1>9
<1> QED
  BY <1>1, <1>2, <1>3, <1>8, <1>10, <1>11, <1>12, <1>13, <1>14, <1>15, ReleaseKeeps

-----------------------------------------------------------------------------
(* The stop task.                                                          *)

LEMMA StopKeeps ==
    ASSUME TypeOK, Parts, NEW c \in Agents, StopCancelsRunner(c) \/ StopFindsReleased(c)
    PROVE  Parts'
<1>1. UNCHANGED <<status, persistent, cap, runner, term, err, engine, done, released, fresh,
                  letter, calls, spent, faults, phase>>
  BY DEF StopCancelsRunner, StopFindsReleased, runVars
<1>2. \A a \in Agents : a # c => stop'[a] = stop[a] /\ cancelReq'[a] = cancelReq[a]
  BY DEF StopCancelsRunner, StopFindsReleased, runVars, TypeOK
<1>3. Local(c)
  BY DEF Parts
<1>4. ASSUME StopCancelsRunner(c)
      PROVE  Local(c)' /\ ChildSide(c) /\ ParentSide(c)
  <2>1. /\ stop[c] = "scheduled" /\ runner[c] # "done" /\ stop'[c] = "joining"
        /\ cancelReq'[c] = (cancelReq[c] \/ status[c] \in Active)
    BY <1>4 DEF StopCancelsRunner, RunnerGone, TypeOK
  <2>2. Spawned(c) /\ ~released[c] /\ ~Rests(c)
    BY <1>3, <2>1 DEF Local, FlagInv, Rests
  <2>3. RunnerInv(c)'
    BY <1>1, <1>3, <2>1 DEF Local, RunnerInv
  <2>4. StopInv(c)'
    BY <1>1, <1>3, <2>1 DEF Local, RunnerInv, StopInv, Active
  <2>5. FlagInv(c)'
    BY <1>1, <1>3, <2>1, <2>2 DEF Local, FlagInv, Spawned
  <2>6. FaultInv(c)'
    BY <1>1, <1>3, <2>1 DEF Local, FaultInv
  <2>7. ChildSide(c)
    BY <1>1, <2>1, <2>2 DEF ChildSide, Spawned
  <2>8. ParentSide(c)
    BY <1>1, <2>1, TreeConstants DEF ParentSide, Ending, Past, Spawned
  <2> QED
    BY <2>3, <2>4, <2>5, <2>6, <2>7, <2>8 DEF Local
<1>5. ASSUME StopFindsReleased(c)
      PROVE  Local(c)' /\ ChildSide(c) /\ ParentSide(c)
  <2>1. /\ stop[c] \in {"scheduled", "joining"} /\ runner[c] = "done" /\ released[c]
        /\ stop'[c] = "done" /\ cancelReq' = cancelReq
    BY <1>5 DEF StopFindsReleased, RunnerGone, TypeOK, runVars
  <2>2. status[c] \in Terminal /\ Spawned(c)
    BY <1>3, <2>1 DEF Local, FlagInv, Spawned, Terminal
  <2>3. RunnerInv(c)' /\ StopInv(c)'
    BY <1>1, <1>3, <2>1, <2>2 DEF Local, RunnerInv, StopInv, Terminal
  <2>4. FlagInv(c)'
    BY <1>1, <1>3, <2>1, <2>2 DEF Local, FlagInv, Spawned
  <2>5. FaultInv(c)'
    BY <1>1, <1>3, <2>1 DEF Local, FaultInv
  <2>6. ChildSide(c)
    BY <1>1, <2>1, <2>2 DEF ChildSide, Spawned, Rests
  <2>7. ParentSide(c)
    BY <1>1, <2>1, TreeConstants DEF ParentSide, Ending, Past, Spawned
  <2> QED
    BY <2>3, <2>4, <2>5, <2>6, <2>7 DEF Local
<1>6. Local(c)' /\ ChildSide(c) /\ ParentSide(c)
  BY <1>4, <1>5
<1>7. ASSUME NEW a \in Agents, a # c PROVE Local(a)' /\ ChildSide(a) /\ ParentSide(a)
  <2>1. SameOrWoken(a) /\ SameEnd(a) /\ Local(a) /\ a # Root
    BY <1>1, <1>2, <1>7, TreeConstants DEF SameOrWoken, Same, SameEnd, Parts
  <2> QED
    BY <1>1, <2>1, BystanderLocal, BystanderSides DEF SameEnd
<1>8. \A a \in Agents : Local(a)' /\ ChildSide(a) /\ ParentSide(a)
  BY <1>6, <1>7
<1>9. LetterInv'
  BY <1>1, LettersKept DEF Spawned
<1>10. IdleHasNothingToDo'
  BY <1>1, IdleKept DEF Parts, Queued
<1> QED
  BY <1>1, <1>8, <1>9, <1>10, ChildrenKept DEF Parts

LEMMA JoinStopKeeps ==
    ASSUME IInv, NEW c \in Agents, JoinStop(c)
    PROVE  Parts'
<1>1. UNCHANGED <<status, persistent, cap, runner, cancelReq, engine, err, done, released, fresh,
                  letter, calls, spent, faults, phase>>
  BY DEF JoinStop, runVars
<1>2. \A a \in Agents : a # c => stop'[a] = stop[a] /\ term'[a] = term[a]
  BY DEF JoinStop, TypeOK, IInv
<1>3. Local(c) /\ ChildInv(c) /\ TypeOK /\ BirthOrder
  BY DEF IInv, Parts
<1>4. /\ term[c] = "due" /\ ~released[c] /\ term'[c] = "joined" /\ Spawned(c)
      /\ \/ Joinable(c) /\ stop'[c] = stop[c]
         \/ ~Joinable(c) /\ stop'[c] = "scheduled"
  BY <1>3 DEF JoinStop, TypeOK, Local, FlagInv
<1>5. Parent[c] # c
  BY <1>3, <1>4, NotOwnParent
<1>6. Ending(Parent[c]) /\ ~Past(Parent[c])
  <2>1. Ending(Parent[c])
    BY <1>3, <1>4 DEF ChildInv
  <2>2. phase # "closed"
    BY <1>4 DEF IInv, ClosedInv
  <2> QED
    BY <2>1, <2>2 DEF Past
<1>7. RunnerInv(c)' /\ StopInv(c)'
  BY <1>1, <1>3, <1>4 DEF Local, RunnerInv, StopInv, Joinable
<1>8. FlagInv(c)' /\ FaultInv(c)'
  <2>1. FlagInv(c)'
    BY <1>1, <1>3, <1>4 DEF Local, FlagInv, Joinable, Spawned
  <2>2. FaultInv(c)'
    BY <1>1, <1>3, <1>4 DEF Local, FaultInv, Joinable
  <2> QED
    BY <2>1, <2>2
<1>9. ParentSide(c)
  BY <1>1, <1>4, TreeConstants DEF ParentSide, Ending, Past, Joinable, Spawned
<1>10. ASSUME NEW a \in Agents, a # c PROVE Local(a)' /\ ChildSide(a) /\ ParentSide(a)
  <2>1. SameOrWoken(a) /\ SameEnd(a) /\ Local(a) /\ a # Root
    BY <1>1, <1>2, <1>10, TreeConstants DEF SameOrWoken, Same, SameEnd, IInv, Parts
  <2> QED
    BY <1>1, <1>3, <2>1, BystanderLocal, BystanderSides DEF SameEnd
<1>11. ASSUME NEW p, p \in Agents \union {Root} PROVE ParentSide(p)
  BY <1>1, <1>9, <1>10, <1>11 DEF ParentSide
<1>12. ASSUME NEW a \in Agents PROVE ChildInv(a)'
  <2>1. CASE a # c
    <3>1. ChildInv(a) /\ ChildSide(a) /\ ParentSide(Parent[a])
      BY <1>10, <1>11, <2>1, TreeConstants DEF IInv, Parts
    <3> QED
      BY <3>1, ChildKept
  <2>2. CASE a = c
    <3> DEFINE p == Parent[c]
    <3>1. ParentSide(p)
      BY <1>11, TreeConstants
    <3>2. Ending(p)' /\ ~Past(p)'
      BY <1>1, <1>6, <3>1 DEF ParentSide, Ending, Past
    <3>3. p = Root \/ Spawned(p)'
      BY <1>1, <1>3, <1>4 DEF ChildInv, Spawned
    <3>4. stop'[c] # "none"
      BY <1>4 DEF Joinable
    <3>5. p # Root => /\ released'[p] => released'[c]
                      /\ "closing" \in {runner'[p], stop'[p]} /\ ~err'[p] => released'[c]
      BY <1>1, <1>2, <1>3, <1>4, <1>5, TreeConstants DEF ChildInv
    <3> QED
      BY <1>4, <2>2, <3>2, <3>3, <3>4, <3>5 DEF ChildInv
  <2> QED
    BY <2>1, <2>2
<1>13. BirthOrder'
  BY <1>1, <1>3, BirthsKept DEF Spawned
<1>14. LetterInv'
  BY <1>1, <1>3, LettersKept DEF Spawned, IInv
<1>15. IdleHasNothingToDo'
  BY <1>1, IdleKept DEF IInv, Parts, Queued
<1> QED
  BY <1>7, <1>8, <1>10, <1>12, <1>13, <1>14, <1>15 DEF Parts, Local

-----------------------------------------------------------------------------
(* The end of a release.                                                   *)

\* The termination of a child has come to an end: the child rests.
LEMMA SettledRests ==
    ASSUME TypeOK, Parts, NEW c \in Agents, Spawned(c), Ending(Parent[c]), Settled(c)
    PROVE  Rests(c) /\ term[c] # "none" /\ (~released[c] => faults > 0)
<1>1. Local(c) /\ ChildInv(c) /\ term[c] # "none"
  BY DEF Parts, ChildInv
<1>2. CASE released[c]
  BY <1>1, <1>2 DEF Local, FlagInv, Rests
<1>3. CASE ~released[c]
  <2>1. term[c] = "joined" /\ ~Joinable(c) /\ stop[c] # "none"
    BY <1>1, <1>3 DEF Settled, ChildInv
  <2>2. stop[c] \in {"done", "failed"}
    BY <2>1 DEF Joinable, TypeOK, Stops
  <2>3. status[c] \in Terminal /\ runner[c] = "done"
    BY <1>1, <2>2 DEF Local, StopInv
  <2>4. faults > 0
    BY <1>1, <1>3, <2>2, <2>3 DEF Local, FaultInv
  <2> QED
    BY <1>1, <2>1, <2>3, <2>4 DEF Rests
<1> QED
  BY <1>2, <1>3

LEMMA GatherKeeps ==
    ASSUME TypeOK, Parts, NEW c \in Agents, NEW ok \in BOOLEAN, GatherDone(c, ok)
    PROVE  Parts'
<1>1. UNCHANGED <<status, persistent, cap, cancelReq, engine, done, released,
                   fresh, letter, calls, spent, phase>>
  BY DEF GatherDone
<1>2. \A a \in Agents : a # c => runner'[a] = runner[a] /\ stop'[a] = stop[a] /\ err'[a] = err[a]
  BY DEF GatherDone, TypeOK
<1>3. \A a \in Agents : term'[a] = IF Parent[a] = c THEN "none" ELSE term[a]
  BY DEF GatherDone, Children
<1>4. Local(c) /\ c # Root
  BY TreeConstants DEF Parts
<1>5. /\ Ending(c) /\ ~Past(c) /\ ~released[c] /\ status[c] \in Terminal /\ Spawned(c) /\ ~Rests(c)
      /\ \/ /\ runner[c] = "gather" /\ stop[c] \notin {"gather", "closing"}
            /\ runner'[c] = "closing" /\ stop'[c] = stop[c]
         \/ /\ runner[c] = "done" /\ stop[c] = "gather"
            /\ runner'[c] = "done" /\ stop'[c] = "closing"
  <2>1. "gather" \in {runner[c], stop[c]}
    BY DEF GatherDone
  <2>2. Ending(c) /\ ~Past(c) /\ status[c] \in Terminal /\ Spawned(c)
    BY <1>4, <2>1 DEF Ending, Past, Local, RunnerInv, StopInv, Spawned, Terminal
  <2>3. ~released[c]
    BY <1>4, <2>1 DEF Local, FlagInv
  <2>4. \/ runner[c] = "gather" /\ stop[c] \notin {"gather", "closing"}
        \/ runner[c] = "done" /\ stop[c] = "gather"
    BY <1>4, <2>1 DEF Local, StopInv
  <2>5. /\ runner'[c] = IF runner[c] = "gather" THEN "closing" ELSE runner[c]
        /\ stop'[c] = IF stop[c] = "gather" THEN "closing" ELSE stop[c]
    BY DEF GatherDone, TypeOK
  <2>6. ~Rests(c)
    BY <2>3, <2>4 DEF Rests, Joinable
  <2> QED
    BY <2>2, <2>3, <2>4, <2>5, <2>6
<1>6. /\ faults' = IF ok THEN faults ELSE faults + 1
      /\ err'[c] = (~ok \/ \E d \in Children(c) : term[d] # "none" /\ ~released[d])
  BY DEF GatherDone, TypeOK
<1>7. ASSUME NEW d \in Agents, Parent[d] = c, Spawned(d)
      PROVE  Rests(d) /\ term[d] # "none" /\ (~released[d] => faults > 0) /\ d # c
  <2>1. Settled(d)
    BY <1>7 DEF GatherDone, Children
  <2>2. d # c
    BY <1>7, NotOwnParent DEF Parts
  <2> QED
    BY <1>5, <1>7, <2>1, <2>2, SettledRests
<1>8. faults > 0 => faults' > 0
  BY <1>6 DEF TypeOK
<1>9. err'[c] => faults' > 0
  <2>1. CASE ~ok
    BY <1>6, <2>1 DEF TypeOK
  <2>2. CASE ok /\ err'[c]
    <3>1. PICK d \in Children(c) : term[d] # "none" /\ ~released[d]
      BY <1>6, <2>2
    <3>2. d \in Agents /\ Parent[d] = c /\ Spawned(d)
      BY <3>1 DEF Children, Parts, Local, FlagInv
    <3> QED
      BY <1>7, <1>8, <3>1, <3>2
  <2> QED
    BY <2>1, <2>2
<1>10. ASSUME NEW a \in Agents, a # c
       PROVE  /\ Local(a)' /\ SameOrWoken(a) /\ Local(a) /\ a # Root
              /\ (Parent[a] # c => SameEnd(a))
  <2>1. SameOrWoken(a) /\ Local(a) /\ a # Root /\ (Parent[a] # c => SameEnd(a))
    BY <1>1, <1>2, <1>3, <1>10, TreeConstants DEF SameOrWoken, Same, SameEnd, Parts
  <2>2. ~Spawned(a) => term'[a] = term[a]
    BY <1>3, <2>1 DEF Local, FlagInv
  <2> QED
    BY <1>1, <1>2, <1>8, <1>10, <2>1, <2>2, BystanderLocal
<1>11. Local(c)'
  <2>1. RunnerInv(c)' /\ StopInv(c)'
    BY <1>1, <1>4, <1>5 DEF Local, RunnerInv, StopInv, Terminal
  <2>2. FlagInv(c)'
    BY <1>1, <1>4, <1>5 DEF Local, FlagInv, Spawned
  <2>3. FaultInv(c)'
    BY <1>1, <1>5, <1>9 DEF FaultInv
  <2> QED
    BY <2>1, <2>2, <2>3 DEF Local
<1>12. ASSUME NEW a \in Agents PROVE ChildInv(a)'
  <2>1. CASE Parent[a] = c /\ Spawned(a)
    <3>1. term'[a] = "none" /\ Spawned(a)' /\ Spawned(c)' /\ a # c
      BY <1>1, <1>3, <1>5, <1>7, <2>1 DEF Spawned
    <3>2. ~Ending(c)'
      BY <1>4, <1>5 DEF Ending
    <3>3. Rests(a)'
      BY <1>1, <1>2, <1>7, <2>1, <3>1 DEF Rests, Joinable
    <3>4. ~released'[c] /\ (~err'[c] => released'[a])
      BY <1>1, <1>5, <1>6, <1>7, <2>1 DEF Children
    <3> QED
      BY <2>1, <3>1, <3>2, <3>3, <3>4 DEF ChildInv
  <2>2. CASE Parent[a] = c /\ ~Spawned(a)
    <3>1. ~Spawned(a)' /\ term'[a] = "none"
      BY <1>1, <1>3, <2>2 DEF Spawned
    <3> QED
      BY <3>1 DEF ChildInv
  <2>3. CASE Parent[a] # c
    <3>1. ChildSide(a)
      <4>1. CASE a = c
        BY <1>1, <1>3, <1>5, <2>3, <4>1 DEF ChildSide, Spawned
      <4>2. CASE a # c
        BY <1>10, <2>3, <4>2, BystanderSides
      <4> QED
        BY <4>1, <4>2
    <3>2. ParentSide(Parent[a])
      <4>1. CASE Parent[a] = Root
        BY <1>1, <4>1 DEF ParentSide
      <4>2. CASE Parent[a] # Root
        <5> DEFINE p == Parent[a]
        <5>1. p \in Agents /\ p # c /\ p # Root
          BY <2>3, <4>2, TreeConstants
        <5>2. /\ status'[p] = status[p] /\ runner'[p] = runner[p] /\ stop'[p] = stop[p]
              /\ err'[p] = err[p] /\ released'[p] = released[p]
          BY <1>1, <1>2, <5>1
        <5> HIDE DEF p
        <5>3. ParentSide(p)
          BY <5>1, <5>2 DEF ParentSide, Ending, Past, Spawned
        <5> QED
          BY <5>3 DEF p
      <4> QED
        BY <4>1, <4>2
    <3> QED
      BY <3>1, <3>2, ChildKept DEF Parts
  <2> QED
    BY <2>1, <2>2, <2>3
<1>13. BirthOrder'
  BY <1>1, BirthsKept DEF Spawned, Parts
<1>14. LetterInv'
  BY <1>1, LettersKept DEF Spawned
<1>15. IdleHasNothingToDo'
  BY <1>1, IdleKept DEF Parts, Queued
<1> QED
  BY <1>10, <1>11, <1>12, <1>13, <1>14, <1>15 DEF Parts

LEMMA CloseEngineKeeps ==
    ASSUME TypeOK, Parts, NEW c \in Agents, NEW ok \in BOOLEAN, CloseEngine(c, ok)
    PROVE  Parts'
<1> DEFINE W == IF runner[c] = "closing" THEN Reached(c) ELSE {}
           st == status
           rn == [runner EXCEPT ![c] = "done"]
           dn == [done EXCEPT ![c] = TRUE]
<1>1. UNCHANGED <<persistent, cap, term, err, letter, calls, spent, phase>>
  BY DEF CloseEngine
<1>2. /\ faults' = IF ok THEN faults ELSE faults + 1
      /\ engine'[c] = (engine[c] /\ ok = FALSE)
      /\ released'[c] = Clean(c, ok)
      /\ stop'[c] = IF stop[c] # "closing" THEN stop[c]
                                           ELSE IF Clean(c, ok) THEN "done" ELSE "failed"
  BY DEF CloseEngine, TypeOK
<1>3. \A a \in Agents : a # c => engine'[a] = engine[a] /\ released'[a] = released[a] /\ stop'[a] = stop[a]
  BY DEF CloseEngine, TypeOK
<1>4. Local(c) /\ c # Root
  BY TreeConstants DEF Parts
<1>5. /\ status[c] \in Terminal /\ Spawned(c) /\ ~released[c] /\ ~Rests(c) /\ ~Ending(c) /\ Past(c)
      /\ \/ runner[c] = "closing" /\ stop[c] \notin {"gather", "closing", "done", "failed"}
         \/ runner[c] = "done" /\ stop[c] = "closing"
  <2>1. "closing" \in {runner[c], stop[c]}
    BY DEF CloseEngine
  <2>2. \/ runner[c] = "closing" /\ stop[c] \notin {"gather", "closing", "done", "failed"}
        \/ runner[c] = "done" /\ stop[c] = "closing"
    BY <1>4, <2>1 DEF Local, StopInv
  <2>3. status[c] \in Terminal /\ Spawned(c) /\ ~released[c]
    BY <1>4, <2>1 DEF Local, RunnerInv, StopInv, FlagInv, Spawned, Terminal
  <2>4. ~Rests(c) /\ ~Ending(c) /\ Past(c)
    BY <1>4, <2>2, <2>3 DEF Rests, Ending, Past, Joinable
  <2> QED
    BY <2>2, <2>3, <2>4
<1>6. /\ st \in [Agents -> Statuses] /\ rn \in [Agents -> Runners] /\ dn \in [Agents -> BOOLEAN]
  BY DEF TypeOK, Runners
<1>7. \A a \in Agents : a # c => st[a] = status[a] /\ rn[a] = runner[a] /\ dn[a] = done[a]
  BY DEF TypeOK
<1>8. st[c] = status[c] /\ rn[c] = "done" /\ dn[c]
  BY DEF TypeOK
<1>9. Wake(W, st, rn, cancelReq, dn) /\ fresh' = [a \in Agents |-> fresh[a] \/ a \in W]
  BY DEF CloseEngine
<1> HIDE DEF W, st, rn, dn
<1>10. /\ \A a \in Agents : a # c => SameOrWoken(a)
       /\ \/ /\ status'[c] = st[c] /\ runner'[c] = rn[c]
             /\ cancelReq'[c] = cancelReq[c] /\ done'[c] = dn[c]
          \/ st[c] = "idle" /\ ~spent /\ Woken(c)
       /\ \A a \in W \intersect Agents : spent \/ status'[a] # "idle"
  BY <1>6, <1>7, <1>9, WakeAround
<1>11. status'[c] = status[c] /\ runner'[c] = "done" /\ cancelReq'[c] = cancelReq[c]
  BY <1>5, <1>8, <1>10 DEF Terminal
<1>12. (faults > 0 => faults' > 0) /\ (~ok => faults' > 0)
  BY <1>2 DEF TypeOK
<1>13. Local(c)'
  <2>1. RunnerInv(c)' /\ StopInv(c)'
    BY <1>2, <1>4, <1>5, <1>11 DEF Local, RunnerInv, StopInv, Terminal
  <2>2. released'[c] => ~engine'[c]
    BY <1>2 DEF Clean
  <2>3. FlagInv(c)'
    BY <1>1, <1>2, <1>4, <1>5, <1>11, <2>2 DEF Local, FlagInv, Spawned
  <2>4. err[c] => faults > 0
    BY <1>4 DEF Local, FaultInv
  <2>5. FaultInv(c)'
    BY <1>1, <1>2, <1>12, <2>4 DEF FaultInv, Clean
  <2> QED
    BY <2>1, <2>3, <2>5 DEF Local
<1>14. ASSUME NEW a \in Agents, a # c
       PROVE  Local(a)' /\ ChildSide(a) /\ ParentSide(a) /\ SameEnd(a)
  <2>1. SameOrWoken(a) /\ SameEnd(a) /\ Local(a) /\ a # Root
    BY <1>1, <1>3, <1>10, <1>14, TreeConstants DEF SameEnd, Parts
  <2> QED
    BY <1>1, <1>3, <1>12, <1>14, <2>1, BystanderLocal, BystanderSides DEF SameEnd
<1>15. ASSUME NEW a \in Agents PROVE ChildInv(a)'
  <2>1. CASE Parent[a] = c /\ Spawned(a)
    <3>1. a # c
      BY <2>1, NotOwnParent DEF Parts
    <3>2. ChildInv(a) /\ ChildSide(a) /\ SameEnd(a)
      BY <1>14, <3>1 DEF Parts
    <3>3. Rests(a) /\ term[a] = "none" /\ (~err[c] => released[a])
      BY <1>4, <1>5, <2>1, <3>2, TreeConstants DEF ChildInv, Parts, Local, FlagInv, TypeOK
    <3>4. Rests(a)' /\ term'[a] = "none" /\ (~err[c] => released'[a]) /\ Spawned(a)'
      BY <1>5, <2>1, <3>2, <3>3 DEF ChildSide, SameEnd
    <3>5. Spawned(c)' /\ ~Ending(c)' /\ "closing" \notin {runner'[c], stop'[c]}
      BY <1>2, <1>4, <1>5, <1>11 DEF Ending, Spawned
    <3>6. released'[c] => released'[a]
      BY <1>2, <3>4 DEF Clean
    <3> QED
      BY <2>1, <3>4, <3>5, <3>6 DEF ChildInv
  <2>2. CASE Parent[a] = c /\ ~Spawned(a)
    <3>1. a # c /\ term[a] = "none"
      BY <1>5, <2>2 DEF Parts, Local, FlagInv
    <3>2. ~Spawned(a)' /\ term'[a] = "none"
      BY <1>14, <2>2, <3>1 DEF ChildSide, SameEnd
    <3> QED
      BY <3>2 DEF ChildInv
  <2>3. CASE Parent[a] # c
    <3>1. ChildSide(a)
      <4>1. CASE a = c
        BY <1>1, <1>2, <1>5, <1>11, <4>1 DEF ChildSide, Spawned
      <4>2. CASE a # c
        BY <1>14, <4>2
      <4> QED
        BY <4>1, <4>2
    <3>2. ParentSide(Parent[a])
      BY <1>1, <1>14, <2>3, TreeConstants DEF ParentSide
    <3> QED
      BY <3>1, <3>2, ChildKept DEF Parts
  <2> QED
    BY <2>1, <2>2, <2>3
<1>16. \A a \in Agents : Spawned(a)' <=> Spawned(a)
  BY <1>11, <1>14 DEF ChildSide, Spawned
<1>17. BirthOrder'
  BY <1>16, BirthsKept DEF Parts
<1>18. LetterInv'
  BY <1>1, <1>16, LettersKept
<1>19. ASSUME NEW a \in Agents, status'[a] = "idle"
       PROVE  /\ status[a] = "idle" /\ (fresh'[a] => fresh[a] \/ spent)
              /\ \A m \in Queued(a)' : m \in Queued(a)
  <2>1. status[a] = "idle"
    BY <1>10, <1>11, <1>19 DEF SameOrWoken, Same, Woken
  <2> QED
    BY <1>1, <1>9, <1>10, <1>19, <2>1 DEF Queued
<1>20. IdleHasNothingToDo'
  BY <1>1, <1>19, IdleKept DEF Parts
<1> QED
  BY <1>13, <1>14, <1>15, <1>17, <1>18, <1>20 DEF Parts

-----------------------------------------------------------------------------
(* The tree.                                                               *)

LEMMA SpendKeeps ==
    ASSUME TypeOK, Parts, Spend
    PROVE  Parts'
<1>1. UNCHANGED <<status, persistent, cap, runVars, stopVars, done, released,
                  fresh, letter, calls, faults, phase>>
  BY DEF Spend
<1>2. \A a \in Agents : SameOrWoken(a) /\ SameEnd(a)
  BY <1>1 DEF SameOrWoken, Same, SameEnd, runVars, stopVars
<1>3. (\A a \in Agents : Local(a)' /\ ChildInv(a)') /\ BirthOrder'
  BY <1>1, <1>2, OnlyWoken DEF runVars
<1>4. LetterInv'
  BY <1>1, LettersKept DEF Spawned
<1>5. IdleHasNothingToDo'
  BY <1>1, IdleKept DEF Spend, Parts, Queued
<1> QED
  BY <1>3, <1>4, <1>5 DEF Parts

LEMMA CloseKeeps ==
    ASSUME TypeOK, Parts, Close
    PROVE  Parts'
<1>1. UNCHANGED <<status, persistent, cap, runVars, stop, err, done, released,
                  fresh, letter, calls, spent, faults>>
  BY DEF Close
<1>2. phase = "open" /\ phase' = "closing"
  BY DEF Close
<1>3. \A a \in Agents : term'[a] = IF Parent[a] = Root /\ Spawned(a) THEN "due" ELSE term[a]
  BY DEF Close, Children
<1>4. \A a \in Agents : SameOrWoken(a) /\ Local(a) /\ (~Spawned(a) => term'[a] = term[a])
  BY <1>1, <1>3 DEF SameOrWoken, Same, runVars, Parts
<1>5. ASSUME NEW a \in Agents PROVE Local(a)'
  BY <1>1, <1>4, BystanderLocal DEF runVars
<1>6. ASSUME NEW a \in Agents PROVE ChildInv(a)'
  <2>1. CASE Parent[a] = Root
    <3>1. (Spawned(a) => term'[a] = "due") /\ (~Spawned(a) => term'[a] = "none")
      BY <1>3, <1>4, <2>1 DEF Local, FlagInv
    <3>2. Ending(Root)' /\ ~Past(Root)' /\ (Spawned(a)' <=> Spawned(a))
      BY <1>1, <1>2 DEF Ending, Past, Spawned
    <3> QED
      BY <2>1, <3>1, <3>2 DEF ChildInv
  <2>2. CASE Parent[a] # Root
    <3>1. term'[a] = term[a] /\ ChildInv(a)
      BY <1>3, <2>2 DEF Parts
    <3>2. ChildSide(a) /\ ParentSide(Parent[a])
      BY <1>1, <2>2, <3>1 DEF ChildSide, ParentSide, runVars, Spawned, Rests, Joinable, Ending, Past
    <3> QED
      BY <3>1, <3>2, ChildKept
  <2> QED
    BY <2>1, <2>2
<1>7. BirthOrder'
  BY <1>1, BirthsKept DEF Spawned, Parts
<1>8. LetterInv'
  <2>1. \A p : Live(p)' <=> Live(p)
    BY <1>1, <1>2 DEF Live
  <2> QED
    BY <1>1, <2>1 DEF LetterInv, Parts, Spawned
<1>9. IdleHasNothingToDo'
  BY <1>1, IdleKept DEF Parts, Queued
<1> QED
  BY <1>5, <1>6, <1>7, <1>8, <1>9 DEF Parts

\* An agent that rests has no release under way, so its children rest as well ...
LEMMA RestIsPast ==
    ASSUME Parts, NEW p \in Agents, Rests(p)
    PROVE  Past(p) /\ ~Ending(p)
<1>1. Local(p) /\ p # Root
  BY TreeConstants DEF Parts
<1>2. stop[p] # "gather"
  BY <1>1 DEF Local, FlagInv, Rests, Joinable
<1> QED
  BY <1>1, <1>2 DEF Past, Ending, Rests, Terminal

\* ... and with those of the root the whole tree does.
LEMMA AllRest ==
    ASSUME TypeOK, Parts, phase = "closing", \A d \in Children(Root) : Settled(d),
           NEW a \in Agents, Spawned(a)
    PROVE  Rests(a)
<1> DEFINE N == {d \in Agents : Spawned(d) /\ ~Rests(d)}
<1> SUFFICES ASSUME N # {} PROVE FALSE
  OBVIOUS
<1>1. N \in SUBSET Agents /\ \A d \in N : Spawned(d)
  OBVIOUS
<1>2. PICK d \in N : Parent[d] \notin N
  BY <1>1 DEF Parts, BirthOrder
<1>3. ChildInv(d) /\ Spawned(d) /\ d \in Agents /\ ~Rests(d)
  BY DEF Parts
<1>4. CASE Parent[d] = Root
  <2>1. Ending(Parent[d]) /\ Settled(d)
    BY <1>3, <1>4 DEF Ending, Children
  <2> QED
    BY <1>3, <2>1, SettledRests
<1>5. CASE Parent[d] # Root
  <2>1. Parent[d] \in Agents /\ Spawned(Parent[d])
    BY <1>3, <1>5, TreeConstants DEF ChildInv
  <2>2. Rests(Parent[d])
    BY <1>2, <2>1
  <2>3. Past(Parent[d])
    BY <2>1, <2>2, RestIsPast
  <2> QED
    BY <1>3, <2>3 DEF ChildInv
<1> QED
  BY <1>4, <1>5

LEMMA CloseDoneKeeps ==
    ASSUME TypeOK, Parts, CloseDone
    PROVE  Parts' /\ ClosedInv'
<1>1. UNCHANGED <<status, persistent, runVars, term, err, done, released, fresh,
                  letter, calls, spent, faults>>
  BY DEF CloseDone
<1>2. phase = "closing" /\ phase' = "closed" /\ \A d \in Children(Root) : Settled(d)
  BY DEF CloseDone
<1>3. \A a \in Agents : /\ cap'[a] = FALSE
                        /\ stop'[a] = IF stop[a] \in {"scheduled", "joining"} THEN "done" ELSE stop[a]
  BY DEF CloseDone
<1>4. ASSUME NEW a \in Agents, Spawned(a)
      PROVE  /\ Rests(a) /\ status[a] \in Terminal /\ runner[a] = "done"
             /\ stop[a] \notin {"gather", "closing"}
             /\ stop[a] \in {"scheduled", "joining"} => released[a]
             /\ cap[a] = FALSE
  <2>1. Rests(a) /\ Local(a)
    BY <1>2, <1>4, AllRest DEF Parts
  <2>2. status[a] \in Terminal /\ runner[a] = "done" /\ stop[a] \notin {"gather", "closing"}
    BY <2>1 DEF Rests, Joinable, Local, FlagInv
  <2>3. stop[a] \in {"scheduled", "joining"} => released[a]
    BY <2>1 DEF Rests, Joinable
  <2>4. cap[a] = FALSE
    BY <2>1, <2>2 DEF Local, FlagInv, TypeOK
  <2> QED
    BY <2>1, <2>2, <2>3, <2>4
<1>5. ASSUME NEW a \in Agents, ~Spawned(a)
      PROVE  stop[a] = "none" /\ term[a] = "none" /\ Local(a)
  BY <1>5 DEF Parts, Local, FlagInv
<1>6. \A a \in Agents : Spawned(a)' <=> Spawned(a)
  BY <1>1 DEF Spawned
<1>7. ASSUME NEW a \in Agents PROVE Local(a)'
  <2>1. CASE Spawned(a)
    <3>1. Local(a)
      BY DEF Parts
    <3>2. RunnerInv(a)' /\ StopInv(a)'
      BY <1>1, <1>3, <1>4, <2>1, <3>1 DEF Local, RunnerInv, StopInv, runVars, Terminal
    <3>3. FlagInv(a)'
      BY <1>1, <1>3, <1>4, <2>1, <3>1 DEF Local, FlagInv, runVars, Spawned
    <3>4. FaultInv(a)'
      BY <1>1, <1>3, <1>4, <2>1, <3>1 DEF Local, FaultInv, runVars
    <3> QED
      BY <3>2, <3>3, <3>4 DEF Local
  <2>2. CASE ~Spawned(a)
    <3>1. Local(a) /\ stop'[a] = stop[a] /\ cap'[a] = cap[a]
      BY <1>3, <1>5, <2>2 DEF Local, FlagInv, TypeOK
    <3> QED
      BY <1>1, <3>1 DEF Local, RunnerInv, StopInv, FlagInv, FaultInv, runVars, Spawned
  <2> QED
    BY <2>1, <2>2
<1>8. ASSUME NEW a \in Agents, Spawned(a) PROVE Rests(a)' /\ ~Joinable(a)'
  BY <1>1, <1>3, <1>4, <1>8 DEF Rests, Joinable, runVars
<1>9. ASSUME NEW a \in Agents PROVE ChildInv(a)'
  <2> DEFINE p == Parent[a]
  <2>1. ChildInv(a) /\ p \in Agents \union {Root}
    BY TreeConstants DEF Parts
  <2>2. Ending(p)' <=> Ending(p)
    BY <1>1, <1>2, <1>3, <2>1 DEF Ending, runVars
  <2>3. (Spawned(a) => /\ p = Root \/ Spawned(p)
                       /\ term[a] # "none" <=> Ending(p)
                       /\ Past(p) => Rests(a))'
    BY <1>1, <1>6, <1>8, <2>1, <2>2 DEF ChildInv
  <2>4. (term[a] = "joined" => stop[a] # "none")'
    BY <1>1, <1>3, <2>1 DEF ChildInv
  <2>5. (p # Root /\ Spawned(a) =>
           /\ released[p] => released[a]
           /\ "closing" \in {runner[p], stop[p]} /\ ~err[p] => released[a])'
    BY <1>1, <1>3, <1>6, <2>1 DEF ChildInv, runVars
  <2> QED
    BY <2>3, <2>4, <2>5 DEF ChildInv
<1>10. BirthOrder'
  BY <1>6, BirthsKept DEF Parts
<1>11. LetterInv'
  <2>1. \A q \in Agents \union {Root} : ~Live(q)'
    BY <1>2, <1>3 DEF Live
  <2>2. ASSUME NEW m \in Messages
        PROVE  /\ letter[m].at # "unsent" => letter[m].to \in Agents /\ Spawned(letter[m].to)
               /\ letter[m].at # "queued"
    <3>1. letter[m].at # "unsent" => letter[m].to \in Agents /\ Spawned(letter[m].to)
      BY DEF Parts, LetterInv
    <3>2. letter[m].at = "queued" => cap[letter[m].to]
      BY DEF Parts, LetterInv
    <3> QED
      BY <1>4, <3>1, <3>2
  <2> QED
    BY <1>1, <1>6, <2>1, <2>2, TreeConstants DEF LetterInv
<1>12. IdleHasNothingToDo'
  BY <1>1, IdleKept DEF Parts, Queued
<1>13. ASSUME NEW a \in Agents PROVE term[a] = "due" => released[a]
  <2>1. CASE Spawned(a) /\ Parent[a] = Root
    <3>1. Settled(a)
      BY <1>2, <2>1 DEF Children
    <3> QED
      BY <3>1 DEF Settled
  <2>2. CASE Spawned(a) /\ Parent[a] # Root
    <3>1. Parent[a] \in Agents /\ Spawned(Parent[a]) /\ ChildInv(a)
      BY <2>2, TreeConstants DEF Parts, ChildInv
    <3>2. ~Ending(Parent[a])
      BY <1>4, <3>1, RestIsPast
    <3> QED
      BY <2>2, <3>1, <3>2 DEF ChildInv
  <2>3. CASE ~Spawned(a)
    BY <1>5, <2>3
  <2> QED
    BY <2>1, <2>2, <2>3
<1>14. ClosedInv'
  BY <1>1, <1>6, <1>8, <1>13 DEF ClosedInv
<1> QED
  BY <1>7, <1>9, <1>10, <1>11, <1>12, <1>14 DEF Parts

\* A closed tree takes no step at all.
LEMMA ClosedStops ==
    ASSUME IInv, phase = "closed"
    PROVE  ~Next
<1>1. ASSUME NEW c \in Agents
      PROVE  /\ runner[c] \in {"none", "done"} /\ ~Joinable(c)
             /\ term[c] = "due" => released[c]
  <2>1. Local(c)
    BY DEF IInv, Parts
  <2>2. CASE Spawned(c)
    BY <2>2 DEF IInv, ClosedInv, Rests
  <2>3. CASE ~Spawned(c)
    BY <2>1, <2>3 DEF Local, RunnerInv, FlagInv, Joinable, Spawned
  <2> QED
    BY <2>2, <2>3
<1>2. ~Spend /\ ~Close /\ ~CloseDone
  BY DEF Spend, Close, CloseDone
<1>3. ASSUME NEW c \in Agents
      PROVE  /\ \A keep \in BOOLEAN : ~Spawn(c, keep)
             /\ \A m \in Messages, kind \in {"queue", "steer"} : ~Send(m, c, kind)
             /\ ~Report(c) /\ ~PostEvent(c) /\ ~Cancel(c)
  BY DEF Spawn, Send, Report, PostEvent, Cancel, MayCall
<1>4. ASSUME NEW c \in Agents
      PROVE  /\ ~StartRun(c) /\ ~DropRun(c) /\ ~TurnBoundary(c) /\ ~TakeQueue(c) /\ ~GoIdle(c)
             /\ \A why \in Terminal : ~EndRun(c, why)
  BY <1>1 DEF StartRun, DropRun, TurnBoundary, TakeQueue, GoIdle, EndRun
<1>5. ASSUME NEW c \in Agents
      PROVE  /\ ~JoinStop(c) /\ ~StopCancelsRunner(c) /\ ~StopFindsReleased(c) /\ ~StopReleases(c)
             /\ \A ok \in BOOLEAN : ~GatherDone(c, ok) /\ ~CloseEngine(c, ok)
  BY <1>1 DEF JoinStop, StopCancelsRunner, StopFindsReleased, StopReleases, GatherDone,
              CloseEngine, Joinable
<1> QED
  BY <1>2, <1>3, <1>4, <1>5 DEF Next

-----------------------------------------------------------------------------
LEMMA StepKeeps ==
    ASSUME IInv, [Next]_vars
    PROVE  IInv'
<1>1. CASE UNCHANGED vars
  <2>1. TypeOK' /\ ClosedInv'
    BY <1>1 DEF vars, IInv, TypeOK, ClosedInv, Spawned, Rests, Joinable
  <2>2. (\A c \in Agents : Local(c) /\ ChildInv(c))'
    BY <1>1 DEF vars, IInv, Parts, Local, RunnerInv, StopInv, FlagInv, FaultInv, ChildInv,
                Spawned, Rests, Joinable, Ending, Past
  <2>3. BirthOrder' /\ LetterInv' /\ IdleHasNothingToDo'
    BY <1>1 DEF vars, IInv, Parts, BirthOrder, LetterInv, IdleHasNothingToDo, Queued, Live, Spawned
  <2> QED
    BY <2>1, <2>2, <2>3 DEF IInv, Parts
<1>2. CASE Next
  <2>1. TypeOK /\ Parts /\ phase # "closed"
    BY <1>2, ClosedStops DEF IInv
  <2>2. CASE Spend \/ Close
    <3>1. TypeOK' /\ Parts'
      BY <2>1, <2>2, TypesOfTree, SpendKeeps, CloseKeeps
    <3>2. phase' # "closed"
      BY <2>1, <2>2 DEF Spend, Close
    <3> QED
      BY <3>1, <3>2 DEF IInv, ClosedInv
  <2>3. CASE CloseDone
    BY <2>1, <2>3, TypesOfTree, CloseDoneKeeps DEF IInv
  <2>4. CASE ~(Spend \/ Close \/ CloseDone)
    <3>1. PICK c \in Agents :
         \/ \E keep \in BOOLEAN : Spawn(c, keep)
         \/ \E m \in Messages, kind \in {"queue", "steer"} : Send(m, c, kind)
         \/ Report(c) \/ PostEvent(c) \/ Cancel(c)
         \/ StartRun(c) \/ DropRun(c) \/ TurnBoundary(c) \/ TakeQueue(c)
         \/ GoIdle(c)
         \/ \E why \in Terminal : EndRun(c, why)
         \/ JoinStop(c) \/ StopCancelsRunner(c) \/ StopFindsReleased(c)
         \/ StopReleases(c)
         \/ \E ok \in BOOLEAN : GatherDone(c, ok) \/ CloseEngine(c, ok)
      BY <1>2, <2>4 DEF Next
    <3>2. CASE \/ \E keep \in BOOLEAN : Spawn(c, keep)
               \/ \E m \in Messages, kind \in {"queue", "steer"} : Send(m, c, kind)
               \/ Report(c) \/ PostEvent(c) \/ Cancel(c)
      <4>1. TypeOK'
        BY <2>1, <3>2, TypesOfCalls
      <4>2. Parts'
        BY <2>1, <3>2, SpawnKeeps, SendKeeps, ReportKeeps, CancelKeeps
      <4>3. phase' = phase
        BY <3>2 DEF Spawn, Send, Report, PostEvent, Cancel
      <4> QED
        BY <2>1, <4>1, <4>2, <4>3 DEF IInv, ClosedInv
    <3>3. CASE \/ StartRun(c) \/ DropRun(c) \/ TurnBoundary(c) \/ TakeQueue(c) \/ GoIdle(c)
               \/ \E why \in Terminal : EndRun(c, why)
      <4>1. TypeOK'
        BY <2>1, <3>3, TypesOfRunner
      <4>2. Parts'
        BY <2>1, <3>3, RunKeeps, GoIdleKeeps, EndRunKeeps
      <4>3. phase' = phase
        BY <3>3 DEF StartRun, DropRun, TurnBoundary, TakeQueue, GoIdle, EndRun
      <4> QED
        BY <2>1, <4>1, <4>2, <4>3 DEF IInv, ClosedInv
    <3>4. CASE \/ JoinStop(c) \/ StopCancelsRunner(c) \/ StopFindsReleased(c) \/ StopReleases(c)
               \/ \E ok \in BOOLEAN : GatherDone(c, ok) \/ CloseEngine(c, ok)
      <4>1. TypeOK'
        BY <2>1, <3>4, TypesOfStop
      <4>2. Parts'
        BY <2>1, <3>4, JoinStopKeeps, StopKeeps, StopReleasesKeeps, GatherKeeps, CloseEngineKeeps
      <4>3. phase' = phase
        BY <3>4 DEF JoinStop, StopCancelsRunner, StopFindsReleased, StopReleases, GatherDone, CloseEngine
      <4> QED
        BY <2>1, <4>1, <4>2, <4>3 DEF IInv, ClosedInv
    <3> QED
      BY <3>1, <3>2, <3>3, <3>4
  <2> QED
    BY <2>2, <2>3, <2>4
<1> QED
  BY <1>1, <1>2

\* What _run_child, _stop_agent and _release_agent rely on, for every tree of agents,
\* every number of instructions and of failing cleanup steps.
THEOREM TreeInvariant == Spec => []IInv
<1>1. Init => IInv
  BY InitTypes, InitParts DEF IInv
<1>2. IInv /\ [Next]_vars => IInv'
  BY StepKeeps
<1> QED
  BY <1>1, <1>2, PTL DEF Spec

LEMMA NothingMissed == IInv => NothingIsMissed
<1> SUFFICES ASSUME IInv PROVE NothingIsMissed
  OBVIOUS
<1>1. IdleHasNothingToDo
  BY DEF IInv, Parts
<1>2. NoInstructionLost
  BY DEF NoInstructionLost, IInv, Parts, LetterInv
<1> QED
  BY <1>1, <1>2 DEF NothingIsMissed

LEMMA EndsOrderly == IInv => EndsAreOrderly
<1> SUFFICES ASSUME IInv PROVE EndsAreOrderly
  OBVIOUS
<1>1. \A c \in Agents : Local(c) /\ ChildInv(c) /\ c # Root
  BY TreeConstants DEF IInv, Parts
<1>2. OneReleaseAtATime
  BY <1>1 DEF OneReleaseAtATime, Local, StopInv
<1>3. ReleasedSubtree
  <2> SUFFICES ASSUME NEW c \in Agents, released[c]
               PROVE  /\ ~cap[c] /\ ~engine[c] /\ runner[c] = "done"
                      /\ \A d \in Children(c) : Spawned(d) => released[d]
    BY DEF ReleasedSubtree
  <2>1. ~cap[c] /\ ~engine[c] /\ runner[c] = "done"
    BY <1>1 DEF Local, FlagInv
  <2>2. \A d \in Children(c) : Spawned(d) => released[d]
    BY <1>1 DEF Children, ChildInv
  <2> QED
    BY <2>1, <2>2
<1>4. NoneOutlivesItsParent
  <2> SUFFICES ASSUME NEW c \in Agents, Spawned(c),
                      IF Parent[c] = Root THEN phase = "closed"
                      ELSE status[Parent[c]] \in Terminal /\ "gather" \notin {runner[Parent[c]], stop[Parent[c]]}
               PROVE  status[c] \in Terminal /\ runner[c] = "done"
    BY DEF NoneOutlivesItsParent
  <2>1. Past(Parent[c])
    BY DEF Past, Ending
  <2> QED
    BY <1>1, <2>1 DEF ChildInv, Rests
<1>5. DoneMeansResting
  BY <1>1 DEF DoneMeansResting, Local, FlagInv
<1>6. ClosedIsQuiet
  <2> SUFFICES ASSUME phase = "closed", NEW c \in Agents
               PROVE  /\ runner[c] \in {"none", "done"} /\ ~Joinable(c)
                      /\ Spawned(c) => released[c] \/ faults > 0
    BY DEF ClosedIsQuiet
  <2>1. CASE Spawned(c)
    <3>1. Rests(c) /\ ~Joinable(c) /\ Local(c)
      BY <1>1, <2>1 DEF IInv, ClosedInv
    <3>2. released[c] \/ faults > 0
      BY <3>1 DEF Rests, Joinable, Local, FaultInv
    <3> QED
      BY <3>1, <3>2 DEF Rests
  <2>2. CASE ~Spawned(c)
    <3>1. stop[c] = "none" /\ runner[c] = "none"
      BY <1>1, <2>2 DEF Local, RunnerInv, FlagInv, Spawned
    <3> QED
      BY <2>2, <3>1 DEF Joinable
  <2> QED
    BY <2>1, <2>2
<1> QED
  BY <1>2, <1>3, <1>4, <1>5, <1>6 DEF EndsAreOrderly

\* No wakeup and no instruction is missed, however sends, steers, reports and events race
\* the end of a run (_run_child, _wake_agent, _fail_instructions).
THEOREM NoWakeupIsMissed == Spec => []NothingIsMissed
<1>1. IInv => NothingIsMissed
  BY NothingMissed
<1> QED
  BY <1>1, TreeInvariant, PTL

\* Ending an agent is orderly, in whatever order its runner, its stop task, its parent's
\* release and aclose come to it (_stop_agent, _release_agent, aclose).
THEOREM TreeEndsInOrder == Spec => []EndsAreOrderly
<1>1. IInv => EndsAreOrderly
  BY EndsOrderly
<1> QED
  BY <1>1, TreeInvariant, PTL
-----------------------------------------------------------------------------
(***************************************************************************)
(* The pool. For any capacity, any depths and any number of calls: its     *)
(* variables keep their types, no permit is lost or duplicated, none idles *)
(* while a call waits, and the pool implements Admission.                  *)
(***************************************************************************)

\* How each task's future looks at each point of acquire and release.
TaskInv ==
    \A t \in Tickets :
        /\ t >= tickets <=> task[t] = "new"
        /\ task[t] = "new" => future[t] = "none" /\ ~cancelled[t]
        /\ task[t] = "waiting" => future[t] \in
               IF cancelled[t] THEN {"granted", "cancelled"}
                               ELSE {"granted", "pending"}
        /\ task[t] = "holding" => future[t] = "granted"
        /\ task[t] = "done" => future[t] \in {"granted", "cancelled"}

\* The heap holds every pending future, and beside them only cancelled ones.
HeapInv ==
    /\ Pending \subseteq waiters
    /\ \A t \in waiters : future[t] \in {"pending", "cancelled"}

\* An entry stays in the heap only while some call waits, or a cancelled one has not
\* been resumed.
HeapTight ==
    waiters # {} => \E u \in Tickets :
        task[u] = "waiting" /\ future[u] \in {"pending", "cancelled"}

Types ==
    /\ depth \in [Tickets -> Depths]
    /\ tickets \in 0 .. MaxTickets
    /\ available \in Nat
    /\ waiters \subseteq Tickets
    /\ future \in [Tickets -> {"none", "pending", "granted", "cancelled"}]
    /\ cancelled \in [Tickets -> BOOLEAN]
    /\ task \in [Tickets -> {"new", "waiting", "holding", "done"}]

\* The inductive invariant.  Between steps a free permit means an empty heap:
\* that is why one drain never grants more than one call.
Inv ==
    /\ Types
    /\ TaskInv
    /\ HeapInv
    /\ HeapTight
    /\ PermitAccounting
    /\ available > 0 => waiters = {}
----------------------------------------------------------------------------
LEMMA TicketsFinite ==
    ASSUME NEW S \in SUBSET Tickets
    PROVE  IsFiniteSet(S) /\ Cardinality(S) \in Nat
<1>1. MaxTickets - 1 \in Int
  BY PoolConstants
<1>2. IsFiniteSet(Tickets)
  BY <1>1, FS_Interval DEF Tickets
<1> QED
  BY <1>2, FS_Subset, FS_CardinalityType

\* The heap's order is a strict total order on tickets.
LEMMA BeforeIsTotalOrder ==
    ASSUME Types
    PROVE  /\ \A t, u \in Tickets : t # u <=> Before(t, u) \/ Before(u, t)
           /\ \A t, u \in Tickets : ~(Before(t, u) /\ Before(u, t))
           /\ \A t, u, v \in Tickets :
                  Before(t, u) /\ Before(u, v) => Before(t, v)
<1>1. \A t \in Tickets : t \in Int /\ depth[t] \in Int
  <2>1. MaxTickets - 1 \in Int
    BY PoolConstants
  <2>2. \A t \in Tickets : t \in Int
    BY <2>1 DEF Tickets
  <2>3. \A t \in Tickets : depth[t] \in Depths
    BY DEF Types
  <2>4. \A d \in Depths : d \in Int
    <3>1. Depths \subseteq Nat
      BY PoolConstants
    <3> QED BY <3>1
  <2> QED BY <2>2, <2>3, <2>4
<1> QED BY <1>1 DEF Before

\* A non-empty set of tickets has a first one in the heap's order.
LEMMA FirstExists ==
    ASSUME Types, NEW Q \in SUBSET Tickets, Q # {}
    PROVE  \E t \in Q : \A u \in Q : ~Before(u, t)
<1> DEFINE Ahead(t) == {u \in Q : Before(u, t)}
           A == {Ahead(t) : t \in Q}
<1>1. /\ IsWellFoundedOn(StrictSubsetOrdering(Q), FiniteSubsetsOf(Q))
      /\ A # {}
  BY FS_StrictSubsetOrderingWellFounded
<1>2. A \subseteq FiniteSubsetsOf(Q)
  BY TicketsFinite DEF FiniteSubsetsOf
<1>3. PICK X \in A : \A Y \in A : <<Y, X>> \notin StrictSubsetOrdering(Q)
  <2> HIDE DEF A
  <2> QED BY <1>1, <1>2, WFMin
<1>4. PICK t \in Q : X = Ahead(t)
  BY <1>3
<1>5. SUFFICES ASSUME NEW u \in Q, Before(u, t) PROVE FALSE
  BY <1>4
<1>7. Ahead(u) \subseteq Ahead(t) /\ u \in Ahead(t) /\ u \notin Ahead(u)
  <2>1. \A v \in Q : Before(v, u) => Before(v, t)
    BY <1>5, BeforeIsTotalOrder
  <2>2. ~Before(u, u)
    BY BeforeIsTotalOrder
  <2> QED BY <1>5, <2>1, <2>2
<1>8. <<Ahead(u), X>> \in StrictSubsetOrdering(Q)
  BY <1>4, <1>7 DEF StrictSubsetOrdering
<1> QED
  BY <1>3, <1>8

\* Drain without a free permit grants nothing; with one it grants the first
\* live waiter, if there is any.
LEMMA AdmittedNone ==
    ASSUME NEW w \in SUBSET Tickets, NEW f
    PROVE  Admitted(w, f, 0) = {}
BY TicketsFinite DEF Admitted, LiveIn

LEMMA AdmittedOne ==
    ASSUME Types, NEW w \in SUBSET Tickets, NEW f
    PROVE  /\ Admitted(w, f, 1) = Ideal!First(LiveIn(w, f))
           /\ Admitted(w, f, 1) # {} <=> LiveIn(w, f) # {}
           /\ \A t, u \in Admitted(w, f, 1) : t = u
           /\ Cardinality(Admitted(w, f, 1)) = IF LiveIn(w, f) = {} THEN 0 ELSE 1
<1> DEFINE L == LiveIn(w, f)
           Ahead(t) == {u \in L : Before(u, t)}
<1>1. L \in SUBSET Tickets
  BY DEF LiveIn
<1>2. ASSUME NEW t \in L PROVE Cardinality(Ahead(t)) < 1 <=> Ahead(t) = {}
  <2>1. IsFiniteSet(Ahead(t)) /\ Cardinality(Ahead(t)) \in Nat
    BY <1>1, TicketsFinite
  <2> QED BY <2>1, FS_EmptySet
<1>3. Admitted(w, f, 1) = {t \in L : \A u \in L : ~Before(u, t)}
  BY <1>2 DEF Admitted
<1>5. Admitted(w, f, 1) = Ideal!First(L)
  <2>1. \A t, u \in L : ~Before(u, t) /\ t # u <=> Before(t, u)
    BY <1>1, BeforeIsTotalOrder
  <2>2. \A t, u : Ideal!Before(t, u) <=> Before(t, u)
    BY DEF Ideal!Before, Before
  <2>3. \A t \in L : ~Before(t, t)
    BY <1>1, BeforeIsTotalOrder
  <2> QED BY <1>3, <2>1, <2>2, <2>3 DEF Ideal!First
<1>6. Admitted(w, f, 1) # {} <=> L # {}
  BY <1>1, <1>3, FirstExists
<1>7. \A t, u \in Admitted(w, f, 1) : t = u
  BY <1>1, <1>3, BeforeIsTotalOrder
<1>8. Cardinality(Admitted(w, f, 1)) = IF L = {} THEN 0 ELSE 1
  <2>1. CASE L = {}
    BY <2>1, <1>6, FS_EmptySet
  <2>2. CASE L # {}
    <3>1. PICK t : Admitted(w, f, 1) = {t}
      BY <2>2, <1>6, <1>7
    <3> QED BY <2>2, <3>1, FS_Singleton
  <2> QED BY <2>1, <2>2
<1> QED BY <1>5, <1>6, <1>7, <1>8
----------------------------------------------------------------------------
\* The live entries of the heap are the pending calls.
LEMMA LiveIsPending ==
    ASSUME Types, HeapInv
    PROVE  LiveIn(waiters, future) = Pending
BY DEF Types, HeapInv, LiveIn, Pending

\* Giving a permit back: the first pending call, if any, owns it from then on.
LEMMA ReleaseStep ==
    ASSUME Inv, NEW t \in Tickets, t \in Owners, Release,
           task' = [task EXCEPT ![t] = "done"],
           UNCHANGED <<depth, tickets, cancelled>>
    PROVE  /\ Inv'
           /\ Pending' = Pending \ Ideal!First(Pending)
           /\ Owners' = (Owners \ {t}) \union Ideal!First(Pending)
<1> DEFINE G == Admitted(waiters, future, available + 1)
<1>0. Types /\ TaskInv /\ HeapInv /\ PermitAccounting /\ (available > 0 => waiters = {})
  BY DEF Inv
<1>1. LiveIn(waiters, future) = Pending /\ waiters \in SUBSET Tickets
  BY <1>0, LiveIsPending DEF Types
<1>2. G = Ideal!First(Pending) /\ Cardinality(G) \in Nat /\ G \subseteq Pending
  <2>1. CASE available = 0
    BY <2>1, <1>0, <1>1, AdmittedOne DEF Ideal!First
  <2>2. CASE available > 0
    <3>1. Pending = {} /\ G = {}
      BY <2>2, <1>0, <1>1 DEF LiveIn, Admitted
    <3> QED BY <3>1, FS_EmptySet DEF Ideal!First
  <2> QED BY <2>1, <2>2, <1>0 DEF Types
<1>3. /\ waiters' = Kept(waiters, future, available + 1)
      /\ future' = [u \in Tickets |-> IF u \in G THEN "granted" ELSE future[u]]
      /\ available' = (available + 1) - Cardinality(G)
  BY DEF Release, Drain
<1>4. waiters' \subseteq waiters /\ Pending \ G \subseteq waiters'
  <2>1. Kept(waiters, future, available + 1) \subseteq waiters
    BY DEF Kept
  <2>2. LiveIn(waiters, future) \ G \subseteq Kept(waiters, future, available + 1)
    BY DEF Kept, LiveIn
  <2> QED BY <1>1, <1>3, <2>1, <2>2
<1>5. /\ \A u \in G : future[u] = "pending" /\ task[u] = "waiting" /\ ~cancelled[u]
      /\ t \notin G
      /\ \A u \in G : u \in Tickets
  BY <1>0, <1>2 DEF Pending, Owners, TaskInv, Types
<1>6. Pending' = Pending \ G
  BY <1>3 DEF Pending
<1>7. Owners' = (Owners \ {t}) \union G
  BY <1>0, <1>3, <1>5 DEF Owners, Types
<1>8. \/ available = 0 /\ Pending = {} /\ G = {} /\ Cardinality(G) = 0
      \/ available = 0 /\ Pending # {} /\ Cardinality(G) = 1
      \/ available > 0 /\ waiters = {} /\ Pending = {} /\ G = {} /\ Cardinality(G) = 0
  <2>1. CASE available = 0
    <3>1. Cardinality(G) = IF Pending = {} THEN 0 ELSE 1
      BY <2>1, <1>0, <1>1, AdmittedOne
    <3> QED BY <3>1, <2>1, <1>2
  <2>2. CASE available > 0
    BY <2>2, <1>0, <1>1, <1>2, FS_EmptySet DEF LiveIn
  <2> QED BY <2>1, <2>2, <1>0 DEF Types
<1>9. available' \in Nat /\ (available' > 0 => waiters' = {})
  <2>1. Pending = {} => waiters' = {}
    BY <1>1, <1>3 DEF Kept
  <2> QED BY <1>0, <1>3, <1>8, <2>1 DEF Types
<1>10. Types'
  BY <1>0, <1>1, <1>3, <1>4, <1>5, <1>9 DEF Types
<1>11. TaskInv'
  BY <1>0, <1>3, <1>5 DEF TaskInv, Types, Owners
<1>12. HeapInv'
  <2>1. Pending' \subseteq waiters'
    BY <1>4, <1>6
  <2>2. waiters' \intersect G = {}
    <3>1. \A u \in Pending, v \in G : u = v \/ Before(v, u)
      BY <1>0, <1>2, BeforeIsTotalOrder DEF Ideal!First, Ideal!Before, Before, Pending
    <3>2. ASSUME NEW u \in waiters', u \in G PROVE FALSE
      <4>1. PICK l \in Pending \ G : u = l \/ Before(l, u)
        BY <1>1, <1>3, <3>2 DEF Kept
      <4>2. l # u /\ l \in Tickets /\ u \in Tickets /\ Before(u, l)
        BY <3>1, <3>2, <4>1, <1>5 DEF Pending
      <4> QED BY <1>0, <4>1, <4>2, BeforeIsTotalOrder
    <3> QED BY <3>2
  <2>3. ASSUME NEW u \in waiters' PROVE future'[u] \in {"pending", "cancelled"}
    BY <1>0, <1>1, <1>3, <1>4, <2>2, <2>3 DEF HeapInv
  <2> QED BY <2>1, <2>3 DEF HeapInv
<1>13. PermitAccounting'
  <2>1. /\ IsFiniteSet(Owners) /\ Cardinality(Owners) \in Nat
        /\ IsFiniteSet(Owners \ {t}) /\ IsFiniteSet(G)
    BY TicketsFinite, <1>5 DEF Owners
  <2>2. Cardinality(Owners \ {t}) = Cardinality(Owners) - 1
    BY <2>1, FS_RemoveElement
  <2>3. (Owners \ {t}) \intersect G = {}
    BY <1>5 DEF Owners
  <2>4. Cardinality(Owners') = Cardinality(Owners) - 1 + Cardinality(G)
    <3>1. Cardinality((Owners \ {t}) \union G)
          = Cardinality(Owners \ {t}) + Cardinality(G) - Cardinality((Owners \ {t}) \intersect G)
      BY <2>1, FS_Union
    <3>2. Cardinality({}) = 0
      BY FS_EmptySet
    <3>3. Cardinality((Owners \ {t}) \union G) = Cardinality(Owners) - 1 + Cardinality(G)
      <4>1. Cardinality((Owners \ {t}) \intersect G) = 0
        BY <2>3, <3>2
      <4>2. Cardinality(G) \in Nat
        BY <1>2
      <4>3. Cardinality(Owners) \in Nat
        BY <2>1
      <4> QED BY <2>2, <3>1, <4>1, <4>2, <4>3
    <3> QED BY <1>7, <3>3
  <2> QED BY <2>1, <2>4, <1>0, <1>2, <1>3, PoolConstants DEF PermitAccounting, Types
<1>14. HeapTight'
  <2> SUFFICES ASSUME NEW v \in waiters'
               PROVE  \E u \in Tickets : /\ task'[u] = "waiting"
                                         /\ future'[u] \in {"pending", "cancelled"}
    BY DEF HeapTight
  <2>1. PICK u \in Pending \ G : u = v \/ Before(u, v)
    BY <1>1, <1>3 DEF Kept
  <2>2. u \in Tickets /\ future'[u] = "pending"
    BY <1>0, <1>3, <2>1 DEF Pending, Types
  <2>3. task'[u] = "waiting"
    BY <1>0, <1>10, <1>11, <2>2 DEF TaskInv, Types
  <2> QED BY <2>2, <2>3
<1> QED BY <1>2, <1>6, <1>7, <1>9, <1>10, <1>11, <1>12, <1>13, <1>14 DEF Inv

\* Draining after a cancelled wait grants nothing: it only clears the heap.
LEMMA CancelledWaitStep ==
    ASSUME Inv, NEW t \in Tickets, ResumeCancelled(t), future[t] = "cancelled"
    PROVE  Inv' /\ Pending' = Pending /\ Owners' = Owners
<1>0. Types /\ TaskInv /\ HeapInv /\ PermitAccounting /\ (available > 0 => waiters = {})
  BY DEF Inv
<1>1. Admitted(waiters, future, available) = {}
  <2>1. CASE available = 0
    BY <2>1, <1>0, AdmittedNone DEF Types
  <2>2. CASE available > 0
    BY <2>2, <1>0 DEF Admitted, LiveIn
  <2> QED BY <2>1, <2>2, <1>0 DEF Types
<1>2. /\ waiters' = Kept(waiters, future, available)
      /\ future' = future
      /\ available' = available
  <2>1. Cardinality({}) = 0
    BY FS_EmptySet
  <2> QED BY <1>0, <1>1, <2>1 DEF ResumeCancelled, Drain, Types
<1>3. waiters' \subseteq waiters /\ Pending \subseteq waiters'
  <2>1. LiveIn(waiters, future) = Pending
    BY <1>0, LiveIsPending
  <2>2. Kept(waiters, future, available) \subseteq waiters
    BY DEF Kept
  <2>3. LiveIn(waiters, future) \subseteq Kept(waiters, future, available)
    BY <1>1 DEF Kept, LiveIn
  <2> QED BY <1>2, <2>1, <2>2, <2>3
<1>4. task' = [task EXCEPT ![t] = "done"] /\ UNCHANGED <<depth, tickets, cancelled>>
  BY DEF ResumeCancelled
<1>5. Pending' = Pending /\ Owners' = Owners
  BY <1>0, <1>2, <1>4 DEF Pending, Owners, Types
<1>6. Types'
  BY <1>0, <1>2, <1>3, <1>4 DEF Types
<1>7. TaskInv'
  BY <1>0, <1>2, <1>4 DEF TaskInv, Types, ResumeCancelled
<1>8. HeapInv'
  BY <1>0, <1>2, <1>3, <1>5 DEF HeapInv
<1>9. PermitAccounting'
  BY <1>0, <1>2, <1>5 DEF PermitAccounting
<1>10. HeapTight'
  <2> SUFFICES ASSUME NEW v \in waiters'
               PROVE  \E u \in Tickets : /\ task'[u] = "waiting"
                                         /\ future'[u] \in {"pending", "cancelled"}
    BY DEF HeapTight
  <2>1. PICK u \in Pending : u = v \/ Before(u, v)
    BY <1>0, <1>1, <1>2, LiveIsPending DEF Kept
  <2>2. u \in Tickets /\ future'[u] = "pending"
    BY <1>2, <2>1 DEF Pending
  <2>3. task'[u] = "waiting"
    BY <1>6, <1>7, <2>2 DEF TaskInv, Types
  <2> QED BY <2>2, <2>3
<1> QED BY <1>0, <1>2, <1>3, <1>5, <1>6, <1>7, <1>8, <1>9, <1>10 DEF Inv
----------------------------------------------------------------------------
\* Admission's instance of FiniteSets is the library's.
LEMMA SameCardinality == \A S : Ideal!Cardinality(S) = Cardinality(S)
BY DEF Ideal!Cardinality, Ideal!IsFiniteSet, Cardinality, IsFiniteSet

\* Making a call: it owns a permit at once exactly when one is free.
LEMMA AcquireStep ==
    ASSUME Inv, NEW t \in Tickets, Acquire(t)
    PROVE  Inv' /\ Ideal!Arrive
<1> DEFINE w == waiters \union {t}
           f == [future EXCEPT ![t] = "pending"]
<1>0. Types /\ TaskInv /\ HeapInv /\ PermitAccounting /\ (available > 0 => waiters = {})
  BY DEF Inv
<1>1. /\ t = tickets /\ tickets' = tickets + 1
      /\ waiters' = Kept(w, f, available)
      /\ future' = [u \in Tickets |->
                      IF u \in Admitted(w, f, available) THEN "granted" ELSE f[u]]
      /\ available' = available - Cardinality(Admitted(w, f, available))
      /\ task' = [task EXCEPT ![t] = "waiting"]
      /\ UNCHANGED <<depth, cancelled>>
  BY DEF Acquire, Drain
<1>2. /\ task[t] = "new" /\ future[t] = "none" /\ ~cancelled[t]
      /\ t \notin Pending /\ t \notin Owners /\ t \notin waiters
  BY <1>0, <1>1 DEF TaskInv, Types, Pending, Owners, HeapInv, Tickets
<1>3. t \in Nat /\ tickets' \in 0 .. MaxTickets /\ tickets < MaxTickets
  BY <1>1, PoolConstants DEF Tickets
<1>4. w \in SUBSET Tickets /\ LiveIn(w, f) = Pending \union {t}
  BY <1>0, <1>2 DEF Types, HeapInv, LiveIn, Pending
<1>5. IsFiniteSet(Owners) /\ Cardinality(Owners) \in Nat
  BY TicketsFinite DEF Owners
<1>6. \A u \in Tickets : u >= tickets' <=> task'[u] = "new"
  <2>1. \A u \in Tickets : u \in Int
    BY PoolConstants DEF Tickets
  <2> QED BY <1>0, <1>1, <1>3, <2>1 DEF TaskInv, Types
<1>7. CASE available = 0
  <2>1. Admitted(w, f, available) = {} /\ Cardinality({}) = 0
    BY <1>4, <1>7, AdmittedNone, FS_EmptySet
  <2>2. future' = f /\ available' = 0
    <3> HIDE DEF f, w
    <3>1. future' = [u \in Tickets |-> f[u]]
      BY <1>1, <2>1
    <3>2. f = [u \in Tickets |-> f[u]]
      BY <1>0 DEF Types, f
    <3>3. available' = 0
      <4>1. Cardinality(Admitted(w, f, available)) = 0
        BY <2>1
      <4>2. available' = available - Cardinality(Admitted(w, f, available))
        BY <1>1
      <4> QED BY <1>7, <4>1, <4>2
    <3> QED BY <3>1, <3>2, <3>3
  <2>3. Pending' = Pending \union {t} /\ Owners' = Owners
    BY <1>0, <1>1, <1>2, <2>2, ZenonT(40) DEF Pending, Owners, Types
  <2>4. waiters' \subseteq w /\ Pending' \subseteq waiters'
    <3>1. Kept(w, f, available) \subseteq w
      BY DEF Kept
    <3>2. LiveIn(w, f) \subseteq Kept(w, f, available)
      BY <2>1 DEF Kept, LiveIn
    <3> QED BY <1>1, <1>4, <2>3, <3>1, <3>2
  <2>5. Types'
    <3>1. future' \in [Tickets -> {"none", "pending", "granted", "cancelled"}]
      BY <1>0, <2>2 DEF Types
    <3>2. waiters' \subseteq Tickets /\ available' \in Nat
      BY <1>4, <2>2, <2>4
    <3>3. depth' \in [Tickets -> Depths] /\ cancelled' \in [Tickets -> BOOLEAN]
      BY <1>0, <1>1 DEF Types
    <3>4. task' \in [Tickets -> {"new", "waiting", "holding", "done"}]
      BY <1>0, <1>1 DEF Types
    <3> QED BY <1>3, <3>1, <3>2, <3>3, <3>4 DEF Types
  <2>6. TaskInv'
    BY <1>0, <1>1, <1>2, <1>6, <2>2, ZenonT(40) DEF TaskInv, Types
  <2>7. HeapInv'
    BY <1>0, <1>1, <2>2, <2>4 DEF HeapInv, Types
  <2>8. PermitAccounting' /\ Cardinality(Owners) = Capacity
    BY <1>0, <1>5, <1>7, <2>2, <2>3, PoolConstants DEF PermitAccounting
  <2>9. Ideal!Arrive
    <3>1. ~(Cardinality(Owners) < Capacity)
      BY <2>8, PoolConstants
    <3> QED BY <1>1, <1>3, <2>3, <3>1, SameCardinality DEF Ideal!Arrive
  <2>10. HeapTight'
    <3>1. task'[t] = "waiting" /\ future'[t] = "pending"
      BY <1>0, <1>1, <2>2 DEF Types
    <3> QED BY <3>1 DEF HeapTight
  <2> QED BY <2>2, <2>5, <2>6, <2>7, <2>8, <2>9, <2>10 DEF Inv
<1>8. CASE available > 0
  <2>1. waiters = {} /\ Pending = {} /\ LiveIn(w, f) = {t}
    BY <1>0, <1>4, <1>8 DEF HeapInv
  <2>2. Admitted(w, f, available) = {t} /\ Cardinality({t}) = 1
    <3>1. \A u \in {t} : {x \in {t} : Before(x, u)} = {}
      BY <1>0, BeforeIsTotalOrder
    <3>2. Cardinality({}) = 0 /\ 0 < available
      BY <1>8, FS_EmptySet
    <3> QED BY <2>1, <3>1, <3>2, FS_Singleton DEF Admitted
  <2>3. waiters' = {}
    BY <1>1, <2>1, <2>2 DEF Kept
  <2>4. /\ future' = [future EXCEPT ![t] = "granted"]
        /\ available' = available - 1
    BY <1>0, <1>1, <2>2 DEF Types
  <2>5. Pending' = {} /\ Owners' = Owners \union {t}
    <3>1. future'[t] = "granted" /\ task'[t] = "waiting"
      BY <1>0, <1>1, <2>4 DEF Types
    <3>2. \A u \in Tickets \ {t} : future'[u] = future[u] /\ task'[u] = task[u]
      BY <1>0, <1>1, <2>4 DEF Types
    <3> QED BY <2>1, <3>1, <3>2 DEF Pending, Owners
  <2>6. Types'
    <3>1. future' \in [Tickets -> {"none", "pending", "granted", "cancelled"}]
      BY <1>0, <2>4 DEF Types
    <3>2. available' \in Nat
      BY <1>0, <1>8, <2>4 DEF Types
    <3> QED BY <1>0, <1>1, <1>3, <2>3, <3>1, <3>2 DEF Types
  <2>7. TaskInv'
    BY <1>0, <1>1, <1>2, <1>6, <2>4, ZenonT(40) DEF TaskInv, Types
  <2>8. HeapInv'
    BY <2>3, <2>5 DEF HeapInv
  <2>9. PermitAccounting' /\ Cardinality(Owners) < Capacity
    <3>1. Cardinality(Owners') = Cardinality(Owners) + 1
      BY <1>2, <1>5, <2>5, FS_AddElement
    <3> QED BY <1>0, <1>5, <1>8, <2>4, <3>1, PoolConstants DEF PermitAccounting, Types
  <2>10. Ideal!Arrive
    BY <1>1, <1>3, <2>1, <2>5, <2>9, SameCardinality DEF Ideal!Arrive
  <2>11. HeapTight'
    BY <2>3 DEF HeapTight
  <2> QED BY <2>3, <2>6, <2>7, <2>8, <2>9, <2>10, <2>11 DEF Inv
<1> QED BY <1>0, <1>7, <1>8 DEF Types

\* A cancellation withdraws a pending call and leaves a granted one its permit.
LEMMA CancelStep ==
    ASSUME Inv, NEW t \in Tickets, CancelCall(t)
    PROVE  Inv' /\ (Ideal!GiveUp(t) \/ UNCHANGED <<depth, tickets, Pending, Owners>>)
<1>0. Types /\ TaskInv /\ HeapInv /\ PermitAccounting /\ (available > 0 => waiters = {})
  BY DEF Inv
<1>1. Types' /\ TaskInv' /\ HeapInv'
  <2>1. Types'
    BY <1>0 DEF CancelCall, Types
  <2>2. TaskInv'
    BY <1>0 DEF CancelCall, Types, TaskInv
  <2>3. HeapInv'
    BY <1>0 DEF CancelCall, Types, HeapInv, Pending
  <2> QED BY <2>1, <2>2, <2>3
<1>2. Owners' = Owners
  BY <1>0 DEF CancelCall, Types, Owners
<1>3. PermitAccounting'
  BY <1>0, <1>2 DEF PermitAccounting, CancelCall
<1>4. Pending' = Pending \ {t}
  BY <1>0 DEF CancelCall, Types, Pending
<1>5. Ideal!GiveUp(t) \/ UNCHANGED <<depth, tickets, Pending, Owners>>
  BY <1>2, <1>4 DEF Ideal!GiveUp, CancelCall
<1>6. HeapTight'
  BY <1>0 DEF Inv, HeapTight, CancelCall, Types
<1> QED BY <1>0, <1>1, <1>3, <1>5, <1>6 DEF Inv, CancelCall

LEMMA ResumeStep ==
    ASSUME Inv, NEW t \in Tickets, Resume(t)
    PROVE  Inv' /\ UNCHANGED <<depth, tickets, Pending, Owners>>
<1>0. Types /\ TaskInv /\ HeapInv /\ PermitAccounting /\ (available > 0 => waiters = {})
  BY DEF Inv
<1>1. Types'
  BY <1>0 DEF Resume, Types
<1>2. TaskInv'
  BY <1>0 DEF Resume, Types, TaskInv
<1>3. Pending' = Pending /\ Owners' = Owners
  BY <1>0 DEF Resume, Types, Pending, Owners
<1>4. HeapInv' /\ PermitAccounting'
  BY <1>0, <1>3 DEF Resume, HeapInv, PermitAccounting
<1>5. HeapTight'
  BY <1>0 DEF Inv, HeapTight, Resume, Types
<1> QED BY <1>0, <1>1, <1>2, <1>3, <1>4, <1>5 DEF Inv, Resume
----------------------------------------------------------------------------
LEMMA InitInv == PoolInit => Inv
<1> SUFFICES ASSUME PoolInit PROVE Inv
  OBVIOUS
<1>1. Types
  BY PoolConstants DEF PoolInit, Types
<1>2. TaskInv
  <2>1. \A t \in Tickets : t >= 0
    BY PoolConstants DEF Tickets
  <2> QED BY <2>1 DEF PoolInit, TaskInv
<1>3. HeapInv
  BY DEF PoolInit, HeapInv, Pending
<1>4. PermitAccounting
  <2>1. Owners = {}
    BY DEF PoolInit, Owners
  <2> QED BY <2>1, FS_EmptySet, PoolConstants DEF PoolInit, PermitAccounting
<1> QED BY <1>1, <1>2, <1>3, <1>4 DEF Inv, PoolInit, HeapTight

\* Every step keeps the invariant and is a step of Admission or a stutter.
LEMMA StepInv ==
    Inv /\ [PoolNext]_poolVars => Inv' /\ [Ideal!Next]_<<depth, tickets, Pending, Owners>>
<1> SUFFICES ASSUME Inv, [PoolNext]_poolVars
             PROVE  Inv' /\ [Ideal!Next]_<<depth, tickets, Pending, Owners>>
  OBVIOUS
<1>0. \A t : t \in Tickets <=> t \in Ideal!Tickets
  BY DEF Tickets, Ideal!Tickets
<1>1. ASSUME NEW t \in Tickets, Acquire(t)
      PROVE  Inv' /\ [Ideal!Next]_<<depth, tickets, Pending, Owners>>
  BY <1>1, AcquireStep DEF Ideal!Next
<1>2. ASSUME NEW t \in Tickets, CancelCall(t)
      PROVE  Inv' /\ [Ideal!Next]_<<depth, tickets, Pending, Owners>>
  BY <1>0, <1>2, CancelStep DEF Ideal!Next
<1>3. ASSUME NEW t \in Tickets, Resume(t)
      PROVE  Inv' /\ [Ideal!Next]_<<depth, tickets, Pending, Owners>>
  BY <1>3, ResumeStep
<1>4. ASSUME NEW t \in Tickets, t \in Owners, Release,
             task' = [task EXCEPT ![t] = "done"],
             UNCHANGED <<depth, tickets, cancelled>>
      PROVE  Inv' /\ [Ideal!Next]_<<depth, tickets, Pending, Owners>>
  <2>1. Ideal!Leave(t)
    BY <1>4, ReleaseStep DEF Ideal!Leave
  <2> QED BY <1>0, <1>4, <2>1, ReleaseStep DEF Ideal!Next
<1>5. ASSUME NEW t \in Tickets, ResumeCancelled(t)
      PROVE  Inv' /\ [Ideal!Next]_<<depth, tickets, Pending, Owners>>
  <2>1. CASE future[t] = "cancelled"
    BY <1>5, <2>1, CancelledWaitStep DEF ResumeCancelled
  <2>2. CASE future[t] # "cancelled"
    <3>1. t \in Owners
      BY <1>5, <2>2 DEF ResumeCancelled, Inv, TaskInv, Owners
    <3> QED BY <1>4, <1>5, <2>2, <3>1 DEF ResumeCancelled
  <2> QED BY <2>1, <2>2
<1>6. ASSUME NEW t \in Tickets, Finish(t)
      PROVE  Inv' /\ [Ideal!Next]_<<depth, tickets, Pending, Owners>>
  <2>1. t \in Owners
    BY <1>6 DEF Finish, Inv, TaskInv, Owners
  <2> QED BY <1>4, <1>6, <2>1 DEF Finish
<1>7. CASE UNCHANGED poolVars
  <2>1. Inv'
    BY <1>7 DEF Inv, Types, TaskInv, HeapInv, HeapTight, PermitAccounting, Pending, Owners, poolVars
  <2> QED BY <1>7, <2>1 DEF poolVars, Pending, Owners
<1> QED BY <1>1, <1>2, <1>3, <1>5, <1>6, <1>7 DEF PoolNext

LEMMA InvHolds == PoolSpec => []Inv
<1>1. PoolInit => Inv
  BY InitInv
<1>2. Inv /\ [PoolNext]_poolVars => Inv'
  BY StepInv
<1> QED BY <1>1, <1>2, PTL DEF PoolSpec
----------------------------------------------------------------------------
\* The pool's state stays well formed in every execution; in particular the
\* counter self.available never leaves 0 .. Capacity.
THEOREM PoolTypesHold == PoolSpec => []PoolTypes
<1>1. Inv => PoolTypes
  <2>1. ASSUME Inv PROVE available \in 0 .. Capacity
    <3>1. Cardinality(Owners) \in Nat
      BY TicketsFinite DEF Owners
    <3> QED BY <2>1, <3>1, PoolConstants DEF Inv, Types, PermitAccounting
  <2> QED BY <2>1 DEF Inv, Types, PoolTypes
<1> QED BY <1>1, InvHolds, PTL

\* acquire, its cancellation branches and release neither lose nor duplicate a permit,
\* let none idle while a call waits, and leave no entry in the heap once nobody waits,
\* for any capacity and any interleaving.
THEOREM PoolKeepsWhatItOwes == PoolSpec => []PoolIsSound
<1>1. Inv => PermitAccounting
  BY DEF Inv
<1>2. Inv => NoIdlePermit
  BY DEF Inv, NoIdlePermit, HeapInv, Types
<1>3. Inv => NoHeapGarbage
  BY DEF Inv, NoHeapGarbage, HeapInv, HeapTight
<1> QED BY <1>1, <1>2, <1>3, InvHolds, PTL DEF PoolIsSound

\* The counter, the heap with its lazily removed entries and the futures
\* implement priority admission: closest to the root first, FIFO within a depth.
THEOREM ImplementsAdmission == PoolSpec => RefinesAdmission
<1>1. PoolInit => Ideal!Init
  BY DEF PoolInit, Ideal!Init, Tickets, Ideal!Tickets, Pending, Owners
<1>2. Inv /\ [PoolNext]_poolVars => [Ideal!Next]_<<depth, tickets, Pending, Owners>>
  BY StepInv
<1>3. [Ideal!Next]_<<depth, tickets, Pending, Owners>> => [Ideal!Next]_(Ideal!absVars)
  BY DEF Ideal!absVars
<1> QED BY <1>1, <1>2, <1>3, InvHolds, PTL DEF PoolSpec, RefinesAdmission, Ideal!Spec
=============================================================================
