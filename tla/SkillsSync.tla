----------------------------- MODULE SkillsSync -----------------------------
(***************************************************************************)
(* The skills root mirrored between the harness and the workers of its     *)
(* agents (skills_sync, RemoteREPL, _Worker). Before a call the harness    *)
(* pushes what changed since it last exchanged it, batch after batch;      *)
(* after the call the worker returns what changed on its side, in one      *)
(* batch. A side that receives writes file by file and then records the    *)
(* file's stat as seen, so that it does not send the file back.            *)
(*                                                                         *)
(* Stats of two writes are never equal, so what was seen is kept as the    *)
(* files that differ from it, and a scan and the reads after it are one    *)
(* step: a write in between is sent now and again with the next batch.     *)
(***************************************************************************)
EXTENDS Integers, FiniteSets

CONSTANTS Agents,    \* engines with a worker; the root is shared
          Files,     \* paths inside skill folders
          Texts,     \* contents
          Budget,    \* SYNC_BATCH_BYTES, in files
          MaxWrites, \* bound: writes by kernels, jobs and the operator
          MaxLost    \* bound: batches that fail

VARIABLES
    root,    \* the harness's skills root
    copy,    \* each worker's mirror
    rootNew, \* files of the root that differ from _skills_seen of each RemoteREPL
    copyNew, \* files of a mirror that differ from _Worker._skills_seen
    call,    \* where each execute_tool is, and the batch being applied
    writes, lost,
    excused  \* auxiliary: files recorded as seen that the other side does not have

skillVars == <<root, copy, rootNew, copyNew, call, writes, lost, excused>>

Absent == "absent"
Idle == [at |-> "idle", batch |-> {}, held |-> [f \in Files |-> Absent], left |-> {}, stat |-> "none"]

InitSkills ==
    /\ root \in [Files -> Texts \union {Absent}]
    /\ copy = [a \in Agents |-> [f \in Files |-> Absent]]
    /\ rootNew = [a \in Agents |-> {f \in Files : root[f] # Absent}]
    /\ copyNew = [a \in Agents |-> {}]
    /\ call = [a \in Agents |-> Idle]
    /\ writes = 0 /\ lost = 0 /\ excused = {}

-----------------------------------------------------------------------------
Size(files, held) == Cardinality({f \in files : held[f] # Absent})

\* Mutant: files that do not fit are recorded as seen with the others.
CollectAll(new, held) ==
    {batch \in SUBSET new :
        /\ \A f \in new : held[f] = Absent => f \in batch
        /\ Size(batch, held) = IF Size(new, held) <= Budget THEN Size(new, held) ELSE Budget} \X {new}

\* collect: every deletion and as many files as fit; the rest stay new.
Collect(new, held) ==
    {<<batch, batch>> : batch \in {b \in SUBSET new :
        /\ \A f \in new : held[f] = Absent => f \in b
        /\ Size(b, held) = IF Size(new, held) <= Budget THEN Size(new, held) ELSE Budget}}

\* A file of the root is new to every agent that did not record this write itself.
WriteRoot(f, text) ==
    /\ root' = [root EXCEPT ![f] = text]
    /\ rootNew' = [a \in Agents |-> rootNew[a] \union {f}]

-----------------------------------------------------------------------------
(* Writers: an operator at the root, a kernel or its jobs in the mirror.   *)

Operator ==
    /\ writes < MaxWrites /\ writes' = writes + 1
    /\ \E f \in Files, text \in Texts \union {Absent} :
          /\ root[f] # text
          /\ WriteRoot(f, text)
          /\ excused' = {e \in excused : e[2] # f}
    /\ UNCHANGED <<copy, copyNew, call, lost>>

Author(a) ==
    /\ writes < MaxWrites /\ writes' = writes + 1
    /\ \E f \in Files, text \in Texts \union {Absent} :
          /\ copy[a][f] # text
          /\ copy' = [copy EXCEPT ![a][f] = text]
          /\ copyNew' = [copyNew EXCEPT ![a] = @ \union {f}]
          /\ excused' = excused \ {<<a, f>>}
    /\ UNCHANGED <<root, rootNew, call, lost>>

-----------------------------------------------------------------------------
(* execute_tool.                                                           *)

\* _push_skills: what is sent counts as seen before the worker has it.
Push(a) ==
    /\ call[a].at \in {"idle", "push"}
    /\ IF rootNew[a] = {}
       THEN /\ call' = [call EXCEPT ![a] = [Idle EXCEPT !.at = "tool"]]
            /\ UNCHANGED rootNew
       ELSE \E sent \in Collect(rootNew[a], root) :
            /\ rootNew' = [rootNew EXCEPT ![a] = @ \ sent[2]]
            /\ call' = [call EXCEPT ![a] = [at |-> "push down", batch |-> sent[1], held |-> root, left |-> sent[1], stat |-> "none"]]
    /\ UNCHANGED <<root, copy, copyNew, writes, lost, excused>>

\* The worker's collect after the call; a kernel that may not author returns nothing.
Return(a) ==
    /\ call[a].at = "tool"
    /\ IF copyNew[a] = {}
       THEN call' = [call EXCEPT ![a] = Idle] /\ UNCHANGED copyNew
       ELSE \E sent \in Collect(copyNew[a], copy[a]) :
            /\ copyNew' = [copyNew EXCEPT ![a] = @ \ sent[2]]
            /\ call' = [call EXCEPT ![a] = [at |-> "bring up", batch |-> sent[1], held |-> copy[a], left |-> sent[1], stat |-> "none"]]
    /\ UNCHANGED <<root, copy, rootNew, writes, lost, excused>>

Down(a) == call[a].at = "push down"
Up(a) == call[a].at = "bring up"
There(a, f) == IF Down(a) THEN copy[a][f] ELSE root[f]

\* apply: os.replace, or unlink.
Replace(a) ==
    /\ Down(a) \/ Up(a)
    /\ call[a].stat = "none"
    /\ \E f \in call[a].left :
          /\ IF Down(a)
             THEN /\ copy' = [copy EXCEPT ![a][f] = call[a].held[f]]
                  /\ copyNew' = [copyNew EXCEPT ![a] = @ \union {f}]
                  /\ UNCHANGED <<root, rootNew>>
             ELSE WriteRoot(f, call[a].held[f]) /\ UNCHANGED <<copy, copyNew>>
          /\ call' = [call EXCEPT ![a].left = @ \ {f}, ![a].stat = f]
          /\ excused' = IF Down(a) THEN excused ELSE {e \in excused : e[2] # f}
    /\ UNCHANGED <<writes, lost>>

\* target.stat(), and fold: the file counts as seen, whoever wrote it last.
Stat(a) ==
    LET f == call[a].stat IN
    /\ f # "none"
    /\ IF Down(a) THEN copyNew' = [copyNew EXCEPT ![a] = @ \ {f}] /\ UNCHANGED rootNew
       ELSE rootNew' = [rootNew EXCEPT ![a] = @ \ {f}] /\ UNCHANGED copyNew
    /\ excused' = IF There(a, f) = call[a].held[f] THEN excused ELSE excused \union {<<a, f>>}
    /\ call' = [call EXCEPT ![a].stat = "none"]
    /\ UNCHANGED <<root, copy, writes, lost>>

Applied(a) ==
    /\ (Down(a) \/ Up(a)) /\ call[a].left = {} /\ call[a].stat = "none"
    /\ call' = [call EXCEPT ![a] = IF Down(a) THEN [Idle EXCEPT !.at = "push"] ELSE Idle]
    /\ UNCHANGED <<root, copy, rootNew, copyNew, writes, lost, excused>>

\* The receiver refuses a path or cannot write, or the reply does not fit its frame:
\* the call fails with what was applied applied, and all of the batch seen by its sender.
BatchFails(a) ==
    /\ Down(a) \/ Up(a)
    /\ call[a].stat = "none" /\ call[a].left # {}
    /\ lost < MaxLost /\ lost' = lost + 1
    /\ excused' = excused \union ({a} \X call[a].batch)
    /\ call' = [call EXCEPT ![a] = Idle]
    /\ UNCHANGED <<root, copy, rootNew, copyNew, writes>>

NextSkills ==
    \/ Operator
    \/ \E a \in Agents :
          Author(a) \/ Push(a) \/ Return(a) \/ Replace(a) \/ Stat(a) \/ Applied(a) \/ BatchFails(a)

-----------------------------------------------------------------------------
(***************************************************************************)
(* The mirror never drifts unnoticed: while no batch is under way, a file  *)
(* that differs between the root and a mirror is still to be sent by one   *)
(* of them, unless a write of somebody else's got in between a replace and *)
(* its stat, or a batch failed (collect, apply, fold).                     *)
(***************************************************************************)
InStep(a, f) == root[f] = copy[a][f] \/ f \in rootNew[a] \union copyNew[a]

NoDrift ==
    \A a \in Agents : call[a].at \in {"idle", "tool"} => \A f \in Files : InStep(a, f) \/ <<a, f>> \in excused
=============================================================================
