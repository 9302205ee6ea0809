------------------------------- MODULE Harness -------------------------------
(***************************************************************************)
(* The continual harness: HarnessStore files shared by engines, kernels    *)
(* and an operator, and the refinement passes of the engines that edit     *)
(* them (_refine, _plan_and_apply, apply_proposal, rollback_proposal). A   *)
(* store is one JSON file, written under a lock as a whole, and beside it  *)
(* an append-only file of refinement results, which is written after the   *)
(* lock is given back. An engine keeps its store objects, with what they   *)
(* loaded last; a kernel call gets new ones. Saving and appending may fail.*)
(*                                                                         *)
(* An entry is its text and the time it was written, which stands for all  *)
(* its other fields: no two writes are at the same time.                   *)
(***************************************************************************)
EXTENDS Integers, FiniteSets, SequencesExt

CONSTANTS Engines,   \* agents; each has a local store and sees the global one
          Writers,   \* kernel calls and operator commands under way
          Keys,      \* ids of entries a kernel or a pass may write
          Episodes,  \* ids of episode entries, an engine kind
          Limit,     \* config.max_refinements
          MaxEdits,  \* bound: edits of a proposal
          MaxTime    \* bound: attempted writes

ASSUME HarnessConstants ==
    /\ Engines \intersect Writers = {}
    /\ {"global", "free"} \intersect (Engines \union Writers) = {}
    /\ MaxTime \in Nat

VARIABLES
    disk,     \* harness_state.json of each store: entries, events, mtime
    results,  \* refinements.jsonl of each store
    lock,     \* who holds its lock
    cache,    \* what each engine's two store objects hold
    hand,     \* what each kernel call or operator is doing
    refineRequest,  \* _Invocation.refine_request
    pass,     \* the refinement pass of each engine
    refined,  \* _refinement_count
    told,     \* passes the model of each engine was told of
    time,     \* time.time()
    written   \* auxiliary: what the successful writes to each store add up to

harnessVars == <<disk, results, lock, cache, hand, refineRequest, pass, refined, told, time, written>>

Scopes == {"local", "global"}
Stores == Engines \union {"global"}
StoreOf(e, scope) == IF scope = "global" THEN "global" ELSE e
Ids == Keys \union Episodes
Texts == {"", "noted", "planned"}
NoEntry == [at |-> 0, text |-> ""]
Present(entry) == entry.at # 0
Empty == [entries |-> [k \in Ids |-> NoEntry], events |-> {}, mtime |-> 0]
Free == "free"
NoRequest == [scope |-> "none", undo |-> 0]

(***************************************************************************)
(* An edit names its key, what to do and the text; the outcome of applying *)
(* it adds the entry before and after, unless it is refused. Every edit of *)
(* an episode is, and proposals leave them out.                            *)
(***************************************************************************)
Edits == {[key |-> k, action |-> a, text |-> "planned"] : k \in Keys, a \in {"create", "update", "delete"}}
Proposals == UNION {[1 .. n -> Edits] : n \in 1 .. MaxEdits}

Invalid(edit) == edit.action # "delete" /\ edit.text = ""

\* Mutant: only a created or deleted entry counts as changed.
ConflictIfGone(edit, before, baseline, touched) ==
    baseline # <<>> /\ edit.key \notin touched /\ Present(before) # Present(baseline[edit.key])

\* The entry changed since the pass was planned, and not by this pass.
Conflict(edit, before, baseline, touched) ==
    baseline # <<>> /\ edit.key \notin touched /\ before # baseline[edit.key]

Impossible(edit, before) == (edit.action = "create") = Present(before)

ApplyEdit(acc, edit) ==
    LET before == acc.entries[edit.key]
        after  == IF edit.action = "delete" THEN NoEntry ELSE [at |-> acc.now, text |-> edit.text]
        ok     == /\ ~Invalid(edit)
                  /\ ~Conflict(edit, before, acc.baseline, acc.touched)
                  /\ ~Impossible(edit, before)
        done   == [key |-> edit.key, action |-> edit.action, before |-> before, after |-> after]
    IN  IF ok THEN [acc EXCEPT !.entries[edit.key] = after, !.touched = @ \union {edit.key},
                               !.applied = Append(@, done)]
              ELSE acc

\* What the first n edits of a proposal did, for each n.
Stages(start, proposal) ==
    LET stage[n \in 0 .. Len(proposal)] ==
          IF n = 0 THEN start ELSE ApplyEdit(stage[n - 1], proposal[n])
    IN  stage

Unapplied(entries, baseline, now) ==
    [entries |-> entries, touched |-> {}, applied |-> <<>>, baseline |-> baseline, now |-> now]

Applied(entries, proposal, baseline, now) ==
    Stages(Unapplied(entries, baseline, now), proposal)[Len(proposal)]

\* The edits that undo a result, newest first.
Undo(done) ==
    IF Present(done.before)
    THEN [key |-> done.key, text |-> done.before.text,
          action |-> IF Present(done.after) THEN "update" ELSE "create"]
    ELSE [key |-> done.key, action |-> "delete", text |-> ""]

RollbackProposal(result) == [i \in 1 .. Len(result.applied) |-> Undo(Reverse(result.applied)[i])]

(***************************************************************************)
(* The store file. Reads reload it when its mtime has moved; a write loads *)
(* it under the lock in any case, and replaces it as a whole.              *)
(***************************************************************************)
Sync(copy, s) == IF copy.mtime = disk[s].mtime THEN copy ELSE disk[s]

\* Mutant: a write, too, loads only what has moved.
LoadIfMoved(copy, s) == Sync(copy, s)

Load(copy, s) == disk[s]

\* Entries with others written over them, and a single one to write.
Overwrite(entries, new) == [k \in Ids |-> IF k \in DOMAIN new THEN new[k] ELSE entries[k]]
Only(k, entry) == [id \in {k} |-> entry]

Unlocked(s) == lock[s] = Free
Save(s, file) == /\ disk' = [disk EXCEPT ![s] = [file EXCEPT !.mtime = time']]
                 /\ lock' = [lock EXCEPT ![s] = Free]
SaveFails(s) == lock' = [lock EXCEPT ![s] = Free] /\ UNCHANGED disk
Writes(s, entries, events) ==
    written' = [written EXCEPT ![s] = [entries |-> Overwrite(@.entries, entries), events |-> events \union @.events]]

NewEntry(k, text, now) == Only(k, [at |-> now, text |-> text])

Idle == [at |-> "idle", scope |-> "local", undo |-> 0, baseline |-> <<>>, proposal |-> <<>>, result |-> <<>>]
Out == [at |-> "out", store |-> "global", file |-> Empty]

HarnessInit ==
    /\ disk = [s \in Stores |-> Empty]
    /\ results = [s \in Stores |-> {}]
    /\ lock = [s \in Stores |-> Free]
    /\ cache = [e \in Engines |-> [scope \in Scopes |-> Empty]]
    /\ hand = [w \in Writers |-> Out]
    /\ refineRequest = [e \in Engines |-> NoRequest]
    /\ pass = [e \in Engines |-> Idle]
    /\ refined = [e \in Engines |-> 0]
    /\ told = [e \in Engines |-> {}]
    /\ time = 0
    /\ written = [s \in Stores |-> [entries |-> [k \in Ids |-> NoEntry], events |-> {}]]

unchangedPasses == <<cache, refineRequest, pass, refined, told>>

(***************************************************************************)
(* A kernel call (harness.call, served by dispatch on a view of its own)   *)
(* or an operator's command: create, update, upsert, delete and prune.     *)
(***************************************************************************)
Enter(w, s) == /\ hand[w].at = "out"
               /\ time < MaxTime
               /\ Unlocked(s)
               /\ hand' = [hand EXCEPT ![w] = [at |-> "in", store |-> s, file |-> Load(Empty, s)]]
               /\ lock' = [lock EXCEPT ![s] = w]
               /\ UNCHANGED <<disk, results, time, written, unchangedPasses>>

Leave(w) == hand[w].at = "in" /\ hand' = [hand EXCEPT ![w] = Out] /\ UNCHANGED <<unchangedPasses>>

Put(w, k, text) == /\ Leave(w)
                   /\ k \in Keys
                   /\ time' = time + 1
                   /\ LET h == hand[w]
                          new == NewEntry(k, text, time')
                      IN  /\ Save(h.store, [h.file EXCEPT !.entries = Overwrite(@, new)])
                          /\ Writes(h.store, new, {})
                   /\ UNCHANGED results

Delete(w, k) == /\ Leave(w)
                /\ k \in Keys /\ Present(hand[w].file.entries[k])
                /\ time' = time + 1
                /\ LET h == hand[w]
                   IN  /\ Save(h.store, [h.file EXCEPT !.entries[k] = NoEntry])
                       /\ Writes(h.store, Only(k, NoEntry), {})
                /\ UNCHANGED results

\* HarnessView.record_refinement: an event of its own, no result.
Record(w) == /\ Leave(w)
             /\ time' = time + 1
             /\ LET h == hand[w]
                IN  /\ Save(h.store, [h.file EXCEPT !.events = @ \union {time'}])
                    /\ Writes(h.store, <<>>, {time'})
             /\ UNCHANGED results

\* The operator. Its result record is left out: a pass that would undo it is
\* refused every edit.
Prune(w, gone) == /\ Leave(w)
                  /\ hand[w].store = "global"
                  /\ time' = time + 1
                  /\ LET h == hand[w]
                         none == [k \in gone |-> NoEntry]
                     IN  /\ Save(h.store, [h.file EXCEPT !.entries = Overwrite(@, none), !.events = @ \union {time'}])
                         /\ Writes(h.store, none, {time'})
                  /\ UNCHANGED results

\* An id that exists or does not, or a write that fails.
Refused(w) == Leave(w) /\ SaveFails(hand[w].store) /\ UNCHANGED <<results, time, written>>

unchangedStores == <<disk, results, lock, time, written>>

\* An engine's own entry, when its session is closed: _record_episode.
RecordEpisode(e, k) ==
    /\ pass[e].at = "idle" /\ k \in Episodes /\ time < MaxTime
    /\ Unlocked("global")
    /\ time' = time + 1
    /\ LET new == NewEntry(k, "noted", time')
           file == Load(cache[e]["global"], "global")
       IN  /\ Save("global", [file EXCEPT !.entries = Overwrite(@, new)])
           /\ Writes("global", new, {})
           /\ cache' = [cache EXCEPT ![e]["global"] = [file EXCEPT !.entries = Overwrite(@, new), !.mtime = time']]
    /\ UNCHANGED <<results, hand, refineRequest, pass, refined, told>>

(***************************************************************************)
(* Refinement: requested by the kernel (refine.run), by the host with a    *)
(* prompt, or automatic; taken up between two model calls.                 *)
(***************************************************************************)
Schedule(e, scope, undo) ==
    /\ pass[e].at = "idle" /\ time < MaxTime
    /\ undo \in {0} \union {note.id : note \in told[e]}
    /\ refineRequest' = [refineRequest EXCEPT ![e] = [scope |-> scope, undo |-> undo]]
    /\ UNCHANGED <<unchangedStores, hand, cache, pass, refined, told>>

Planning(e, scope) ==
    LET file == Load(cache[e][scope], StoreOf(e, scope))
    IN  /\ cache' = [cache EXCEPT ![e][scope] = file]
        /\ pass' = [pass EXCEPT ![e] = [Idle EXCEPT !.at = "plan", !.scope = scope, !.baseline = file.entries]]

\* No await between finding the result and applying its reverse.
RollingBack(e, scope, undo) ==
    \E r \in results[StoreOf(e, scope)] :
        /\ r.id = undo
        /\ pass' = [pass EXCEPT ![e] = [Idle EXCEPT !.at = "ready", !.scope = scope, !.undo = undo,
                                                   !.proposal = RollbackProposal(r), !.result = r.applied]]
        /\ UNCHANGED cache

NotFound(e, scope, undo) ==
    undo # 0 /\ \A r \in results[StoreOf(e, scope)] : r.id # undo

Begin(e, scope, undo) ==
    \/ /\ refined[e] >= Limit \/ NotFound(e, scope, undo)
       /\ UNCHANGED <<cache, pass>>
    \/ /\ refined[e] < Limit /\ undo = 0
       /\ Planning(e, scope)
    \/ /\ refined[e] < Limit /\ undo # 0
       /\ RollingBack(e, scope, undo)

AtBoundary(e) ==
    /\ pass[e].at = "idle" /\ refineRequest[e] # NoRequest
    /\ refineRequest' = [refineRequest EXCEPT ![e] = NoRequest]
    /\ Begin(e, refineRequest[e].scope, refineRequest[e].undo)
    /\ UNCHANGED <<unchangedStores, hand, refined, told>>

FromHost(e, scope, undo) ==
    /\ pass[e].at = "idle" /\ refined[e] < Limit /\ time < MaxTime
    /\ Begin(e, scope, undo)
    /\ UNCHANGED <<unchangedStores, hand, refineRequest, refined, told>>

\* An automatic pass, or a host's with review or focus: the judge comes first.
Review(e, scope) ==
    /\ pass[e].at = "idle" /\ refined[e] < Limit /\ time < MaxTime
    /\ pass' = [pass EXCEPT ![e] = [Idle EXCEPT !.at = "judge", !.scope = scope]]
    /\ UNCHANGED <<unchangedStores, hand, cache, refineRequest, refined, told>>

Approved(e) == /\ pass[e].at = "judge"
               /\ Planning(e, pass[e].scope)
               /\ UNCHANGED <<unchangedStores, hand, refineRequest, refined, told>>

EndPass(e) == pass' = [pass EXCEPT ![e] = Idle]

Planned(e, proposal) ==
    /\ pass[e].at = "plan"
    /\ pass' = [pass EXCEPT ![e].at = "ready", ![e].proposal = proposal]
    /\ UNCHANGED <<unchangedStores, hand, cache, refineRequest, refined, told>>

\* The judge declines or fails, the plan has no edits, no reply is usable in
\* max_refinement_attempts, or the prompt is cancelled.
Abandoned(e) == /\ pass[e].at \in {"judge", "plan"}
                /\ EndPass(e)
                /\ UNCHANGED <<unchangedStores, hand, cache, refineRequest, refined, told>>

ApplyLock(e) ==
    LET s == StoreOf(e, pass[e].scope)
    IN  /\ pass[e].at = "ready" /\ time < MaxTime
        /\ Unlocked(s)
        /\ lock' = [lock EXCEPT ![s] = e]
        /\ cache' = [cache EXCEPT ![e][pass[e].scope] = Load(@, s)]
        /\ pass' = [pass EXCEPT ![e].at = "apply"]
        /\ UNCHANGED <<disk, results, hand, refineRequest, refined, told, time, written>>

\* The save of a pass. When it fails, the edits stay in the store object.
SaveEdits(e, s, file, out) ==
    /\ Save(s, file)
    /\ Writes(s, [k \in out.touched |-> out.entries[k]], {time'})
    /\ cache' = [cache EXCEPT ![e][pass[e].scope] = [file EXCEPT !.mtime = time']]
    /\ pass' = [pass EXCEPT ![e].at = "append", ![e].result = out.applied]

LoseEdits(e, s, file) ==
    /\ SaveFails(s)
    /\ cache' = [cache EXCEPT ![e][pass[e].scope] = file]
    /\ EndPass(e)
    /\ UNCHANGED written

\* apply_proposal's transaction.
ApplySave(e) ==
    LET p == pass[e]
        s == StoreOf(e, p.scope)
        copy == cache[e][p.scope]
        now == time + 1
        out == Applied(copy.entries, p.proposal, p.baseline, now)
        file == [copy EXCEPT !.entries = out.entries, !.events = @ \union {now}]
    IN  /\ p.at = "apply"
        /\ time' = now
        /\ SaveEdits(e, s, file, out) \/ LoseEdits(e, s, file)
        /\ UNCHANGED <<results, hand, refineRequest, refined, told>>

Notice(id, scope) == [id |-> id, scope |-> scope]

\* Mutant: a result that cannot be appended is not missed.
AppendResultOrNot(e) ==
    LET p == pass[e]
        s == StoreOf(e, p.scope)
        id == cache[e][p.scope].mtime
    IN  /\ p.at = "append"
        /\ EndPass(e)
        /\ \/ results' = [results EXCEPT ![s] = @ \union {[id |-> id, applied |-> p.result]}]
           \/ UNCHANGED results
        /\ told' = [told EXCEPT ![e] = @ \union {Notice(id, p.scope)}]
        /\ refined' = [refined EXCEPT ![e] = @ + 1]
        /\ UNCHANGED <<disk, lock, cache, hand, refineRequest, time, written>>

\* append_result, then _install_system_prompt reads both stores, and the
\* notice names the pass. The append may fail, and that ends the pass.
AppendResult(e) ==
    LET p == pass[e]
        s == StoreOf(e, p.scope)
        id == cache[e][p.scope].mtime
    IN  /\ p.at = "append"
        /\ EndPass(e)
        /\ \/ /\ results' = [results EXCEPT ![s] = @ \union {[id |-> id, applied |-> p.result]}]
              /\ told' = [told EXCEPT ![e] = @ \union {Notice(id, p.scope)}]
              /\ refined' = [refined EXCEPT ![e] = @ + 1]
              /\ cache' = [cache EXCEPT ![e] = [scope \in Scopes |-> Sync(@[scope], StoreOf(e, scope))]]
           \/ UNCHANGED <<results, told, refined, cache>>
        /\ UNCHANGED <<disk, lock, hand, refineRequest, time, written>>

HarnessNext ==
    \/ \E w \in Writers :
          \/ \E s \in Stores : Enter(w, s)
          \/ \E k \in Ids : Delete(w, k) \/ \E text \in {"", "noted"} : Put(w, k, text)
          \/ \E gone \in SUBSET Episodes : Prune(w, gone)
          \/ Record(w) \/ Refused(w)
    \/ \E e \in Engines :
          \/ \E k \in Ids : RecordEpisode(e, k)
          \/ \E scope \in Scopes, undo \in 0 .. MaxTime : Schedule(e, scope, undo) \/ FromHost(e, scope, undo)
          \/ \E scope \in Scopes : Review(e, scope)
          \/ AtBoundary(e) \/ Approved(e)
          \/ \E proposal \in Proposals : Planned(e, proposal)
          \/ Abandoned(e) \/ ApplyLock(e) \/ ApplySave(e) \/ AppendResult(e)

HarnessSpec == HarnessInit /\ [][HarnessNext]_harnessVars

-----------------------------------------------------------------------------
\* A store file is what the successful writes to it add up to, one after the
\* other: no writer takes back what another wrote since it read the file, and
\* what an engine keeps in memory of a write that failed is never saved.
FileIsItsWrites ==
    \A s \in Stores : disk[s].entries = written[s].entries /\ disk[s].events = written[s].events

\* A planned pass changes only entries that still are what its planner saw.
RefusesConflicts(e) ==
    LET s == StoreOf(e, pass[e].scope) IN
    pass[e].at = "apply" /\ pass'[e].at = "append" /\ pass[e].undo = 0 =>
       \A k \in Ids : disk'[s].entries[k] # disk[s].entries[k]
                        => disk[s].entries[k] = pass[e].baseline[k]

ConflictsRefused == [][\A e \in Engines : RefusesConflicts(e)]_harnessVars

TouchedBy(applied) == {applied[i].key : i \in DOMAIN applied}
EditsOf(applied, k) == {i \in DOMAIN applied : applied[i].key = k}
BeforeIn(applied, k) ==
    applied[CHOOSE i \in EditsOf(applied, k) : \A j \in EditsOf(applied, k) : i <= j].before
AfterIn(applied, k) ==
    applied[CHOOSE i \in EditsOf(applied, k) : \A j \in EditsOf(applied, k) : j <= i].after

\* Rolling back a pass whose entries nobody wrote since puts every one of them
\* back: the text it had, or none. An entry without text cannot be put back.
PutsBack(e) ==
    LET s == StoreOf(e, pass[e].scope)
        r == pass[e].result IN
    /\ pass[e].at = "apply" /\ pass'[e].at = "append" /\ pass[e].undo # 0
    /\ \A k \in TouchedBy(r) : disk[s].entries[k] = AfterIn(r, k)
    => \A k \in TouchedBy(r) :
           LET was == BeforeIn(r, k) IN
           \/ Present(was) /\ was.text = ""
           \/ /\ Present(disk'[s].entries[k]) = Present(was)
              /\ disk'[s].entries[k].text = was.text

RollbackReverses == [][\A e \in Engines : PutsBack(e)]_harnessVars

\* A pass the model was told of can be rolled back: its result is recorded in
\* the store it changed.
ToldCanBeUndone ==
    \A e \in Engines : \A note \in told[e] :
        \E r \in results[StoreOf(e, note.scope)] : r.id = note.id

\* A pass changes what it planned to change, and a rollback what that pass changed.
PassesAreExact == ConflictsRefused /\ RollbackReverses
=============================================================================
