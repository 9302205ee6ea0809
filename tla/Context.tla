------------------------------- MODULE Context -------------------------------
(***************************************************************************)
(* The conversation of one engine and its ledger: what a prompt appends,   *)
(* how a compaction replaces it by blocks, the current prompt and a        *)
(* verbatim tail, and how a failed or cancelled prompt rolls it back       *)
(* (Session, _compact_branch, _prompt, History.blocks). A message is its   *)
(* index in the ledger. The blocks are those of Staircase.                 *)
(***************************************************************************)
EXTENDS Staircase

CONSTANTS MaxMessages,  \* bound: messages of one session
          MaxPrompts    \* bound: prompts of one session

VARIABLES
    count,    \* Session._message_count
    system,   \* the context: the system message,
    ahead,    \*   the prompt kept ahead of the compaction message, or 0,
    compact,  \*   the compaction message, or 0,
    body,     \*   and the messages after them, in the order of their indexes
    first,    \* _branch_first_index
    pinned,   \* _pinned_prompt: its index, or 0, and whether it may be kept
    steered,  \* _steering_applied
    prior,    \* what _prompt reads before its try
    at,       \* where the prompt is
    plan,     \* a compaction's tail and kept prompt, from before its calls
    ledger,   \* the records History.blocks reads
    prompts,  \* prompts begun: the id of the current one
    writeFailed,  \* and no prompt is taken any more
    told,     \* auxiliary: what the model was told and no rollback took back
    seen      \* auxiliary: what was in the context when a branch was summarised

places == <<system, ahead, compact, body>>
kept == <<places, first, pinned, told, seen>>
contextVars == <<stairVars, count, kept, steered, prior, at, plan, ledger, prompts, writeFailed>>
----------------------------------------------------------------------------
\* Index 0 is the first system message, so in the other places 0 says that there is
\* none; the branch begins behind it.
Snapshot == [system |-> system, ahead |-> ahead, compact |-> compact, body |-> body,
             first |-> first, pinned |-> pinned, told |-> told, seen |-> seen,
             blocks |-> blocks, branches |-> branches]
NoPlan == [tail |-> {}, start |-> 0, ahead |-> 0, then |-> "turn"]

\* The engine after _start.
InitContext ==
    /\ StairInit
    /\ count = 1
    /\ system = 0 /\ ahead = 0 /\ compact = 0 /\ body = {}
    /\ first = 1
    /\ pinned = [index |-> 0, fits |-> FALSE]
    /\ steered = {} /\ told = {} /\ seen = {}
    /\ prior = Snapshot
    /\ at = "idle" /\ plan = NoPlan
    /\ ledger = <<>> /\ prompts = 0 /\ writeFailed = FALSE

\* Session.log of n messages, the last of them in the context.
Tell(n) ==
    /\ count + n <= MaxMessages
    /\ count' = count + n
    /\ body' = body \union {count + n - 1}
    /\ told' = told \union {count + n - 1}

\* _prompt up to its try: only a ledger that can be written takes a prompt.
Enter ==
    /\ at = "idle" /\ ~writeFailed
    /\ prompts < MaxPrompts
    /\ prompts' = prompts + 1
    /\ prior' = Snapshot
    /\ steered' = {}
    /\ at' = "entered"
    /\ UNCHANGED <<stairVars, count, kept, plan, ledger, writeFailed>>

\* The prompt is logged; a wakeup by the supervisor is not pinned.
LogPrompt(pins, fits) ==
    /\ at = "entered"
    /\ Tell(1)
    /\ pinned' = IF pins THEN [index |-> count, fits |-> fits] ELSE pinned
    /\ ledger' = Append(ledger, [kind |-> "prompt", prompt |-> prompts])
    /\ at' = "turn"
    /\ UNCHANGED <<stairVars, system, ahead, compact, first, seen, steered, prior,
                   plan, prompts, writeFailed>>

\* An applied refinement, asked for with the prompt or at a boundary: the system
\* message is logged again and takes its old place, and a notice follows.
Refine ==
    /\ at \in {"entered", "turn"}
    /\ Tell(2)
    /\ system' = count
    /\ UNCHANGED <<stairVars, ahead, compact, first, pinned, seen, steered, prior,
                   at, plan, ledger, prompts, writeFailed>>

\* A message for the model at a boundary: steering, which a rollback keeps, or
\* instructions, notices and nudges, which it does not. Notices also follow a failed
\* refinement and a tool result.
Deliver(steering) ==
    /\ at \in {"entered", "turn", "result"}
    /\ steering => at = "turn"
    /\ Tell(1)
    /\ steered' = IF steering THEN steered \union {count} ELSE steered
    /\ UNCHANGED <<stairVars, system, ahead, compact, first, pinned, seen, prior,
                   at, plan, ledger, prompts, writeFailed>>

\* The model's reply: a tool call, a reply that is not the last, or the answer.
Reply(next) ==
    /\ at \in {"turn", "retry"}
    /\ Tell(1)
    /\ at' = next
    /\ UNCHANGED <<stairVars, system, ahead, compact, first, pinned, seen, steered,
                   prior, plan, ledger, prompts, writeFailed>>

\* log_tool_result: a result too long for the context is logged whole, and again
\* as it was truncated for the context.
Result(truncated) ==
    /\ at = "tool"
    /\ Tell(IF truncated THEN 2 ELSE 1)
    /\ at' = "result"
    /\ UNCHANGED <<stairVars, system, ahead, compact, first, pinned, seen, steered,
                   prior, plan, ledger, prompts, writeFailed>>

NextTurn ==
    /\ at = "result"
    /\ at' = "turn"
    /\ UNCHANGED <<stairVars, count, kept, steered, prior, plan, ledger, prompts, writeFailed>>

\* A budget is spent, or no summary could be had (CompactionFailed): the prompt ends
\* with what the context holds. A prompt that was only a refinement ends at once.
Finish ==
    /\ at \in {"entered", "turn", "retry", "result"}
    /\ at' = "idle"
    /\ UNCHANGED <<stairVars, count, kept, steered, prior, plan, ledger, prompts, writeFailed>>
----------------------------------------------------------------------------
\* compactable: something beyond the system message and the first user message.
Compactable == Cardinality((body \ {system}) \union ({ahead, compact} \ {0})) > 1

\* select_tail: a suffix of the context with indexes after the branch's first; its
\* length is up to the token budget. Only if that message was rolled back before the
\* first compaction can the scan run on to a system message that was logged again.
Tails ==
    {[tail |-> {}, start |-> 0]}
    \union {[tail |-> {i \in body : i >= s}, start |-> s] : s \in {i \in body : i > first}}
    \union IF compact = 0 /\ system > first /\ \A i \in body : i > first
           THEN {[tail |-> body \union {system}, start |-> system]} ELSE {}

\* _pinned_for_window: the prompt to keep ahead of the compaction message.
KeptPrompt(tail) == IF pinned.fits /\ pinned.index \notin tail THEN pinned.index ELSE 0

\* The last message of the branch, when n messages are logged.
LastIndex(choice, n) == IF choice.tail = {} THEN n - 1 ELSE choice.start - 1

\* _compact_branch up to its first roll-up call: the tail and the prompt to keep are
\* chosen, the branch is summarised and its block added. A reply that was cut off by the
\* context's limit has been logged outside of the context.
Compact(choice, discarded) ==
    LET n == count + IF discarded THEN 1 ELSE 0
    IN  /\ at \in {"turn", "result"}
        /\ discarded => at = "turn"
        /\ Compactable
        /\ n < MaxMessages
        /\ AddBranch(first, LastIndex(choice, n))
        /\ count' = n
        /\ seen' = seen \union body
        /\ plan' = [tail |-> choice.tail, start |-> choice.start,
                    ahead |-> KeptPrompt(choice.tail),
                    then |-> IF at = "turn" THEN "retry" ELSE "turn"]
        /\ at' = "rollup"
        /\ UNCHANGED <<places, first, pinned, told, steered, prior, ledger, prompts, writeFailed>>

\* A roll-up that succeeds is logged at once, before the block of the branch.
Rollup ==
    /\ at = "rollup"
    /\ \/ RollupSealed /\ ledger' = Append(ledger,
              [kind |-> "block", block |-> CHOOSE b \in blocks' : b \notin blocks])
       \/ (RollupEmpty \/ RollupSkipped) /\ UNCHANGED ledger
    /\ UNCHANGED <<count, kept, steered, prior, at, plan, prompts, writeFailed>>

\* The kept tail opens the next branch, so block ranges stay gapless.
NextFirstAfter == count + 1  \* a bug: forgets the tail
NextFirst == IF plan.tail = {} THEN count + 1 ELSE plan.start

\* The compaction message's index is the number of messages before it is logged.
SummaryIndex == count

\* The rest of _compact_branch: the new window.
Install ==
    /\ at = "rollup" /\ Settled
    /\ compact' = SummaryIndex
    /\ count' = count + 1
    /\ ahead' = plan.ahead
    /\ body' = plan.tail
    /\ first' = NextFirst
    /\ ledger' = Append(ledger, [kind |-> "block", block |-> BlockAt(<<1, branches - 1>>)])
    /\ at' = plan.then
    /\ plan' = NoPlan
    /\ UNCHANGED <<stairVars, system, pinned, told, seen, steered, prior, prompts, writeFailed>>
----------------------------------------------------------------------------
\* The except clause of _prompt, after an error, a cancellation or a failed write. The
\* memory is put back in any case; a failed write may also be one of its own two.
PutBack(writes) ==
    LET record == [kind |-> "rollback", prompt |-> prompts]
    IN  /\ at # "idle"
        /\ writeFailed' = ~writes
        /\ ledger' \in IF writes THEN {Append(ledger, record)}
                                 ELSE {ledger, Append(ledger, record)}
        /\ system' = prior.system /\ ahead' = prior.ahead /\ compact' = prior.compact
        /\ body' = prior.body \union steered
        /\ first' = prior.first
        /\ pinned' = prior.pinned
        /\ Restore(prior)
        /\ told' = prior.told \union steered
        /\ seen' = prior.seen
        /\ at' = "idle" /\ plan' = NoPlan
        /\ UNCHANGED <<count, steered, prior, prompts>>

NextContext ==
    \/ Enter
    \/ \E pins, fits \in BOOLEAN : LogPrompt(pins, fits)
    \/ Refine
    \/ \E steering \in BOOLEAN : Deliver(steering)
    \/ \E next \in {"tool", "turn", "idle"} : Reply(next)
    \/ \E truncated \in BOOLEAN : Result(truncated)
    \/ NextTurn
    \/ Finish
    \/ \E choice \in Tails, discarded \in BOOLEAN : Compact(choice, discarded)
    \/ Rollup
    \/ Install
    \/ \E writes \in BOOLEAN : PutBack(writes)

ContextSpec == InitContext /\ [][NextContext]_contextVars
----------------------------------------------------------------------------
\* History.blocks: the logged blocks, without those of rolled-back attempts. An attempt
\* that failed before its prompt was logged has none.
AttemptUnknown(n) == n  \* a bug: finds no attempt
Attempt(n) ==
    LET begun == {i \in 1 .. n : ledger[i] = [kind |-> "prompt", prompt |-> ledger[n].prompt]}
    IN  IF begun = {} THEN n ELSE CHOOSE i \in begun : TRUE
HistoryBlocks ==
    {ledger[i].block : i \in {i \in DOMAIN ledger :
        /\ ledger[i].kind = "block"
        /\ \A n \in DOMAIN ledger : n > i /\ ledger[n].kind = "rollback" => i < Attempt(n)}}

Covered(shown) == UNION {shown[i].first .. shown[i].last : i \in DOMAIN shown}

\* Whatever the model was told is in the context, or was there when a branch was
\* summarised and is in the range of a block that is shown (docs/context.md, "nothing
\* in the session is unrepresented").
NothingForgotten ==
    \A i \in told : \/ i \in body \union {ahead}
                    \/ i \in seen /\ i \in Covered(Segments)

\* The messages of different branches do not overlap, and those of a block do not reach
\* into the open branch: the tail belongs to the next block (docs/context.md:46).
BranchesApart ==
    LET branch(k) == BlockAt(<<1, k>>)
    IN  /\ \A k \in 1 .. branches - 1 : branch(k - 1).last < branch(k).first
        /\ at # "rollup" /\ branches > 0 => branch(branches - 1).last < first

\* What a reader of the ledger takes for the blocks is what the engine shows, also after
\* rollbacks of prompts that compacted, unless a write failed.
HistoryAgrees == at # "rollup" /\ ~writeFailed => HistoryBlocks = blocks

\* The current prompt is in the context word for word exactly once, unless it is too
\* large to be kept (docs/context.md, "The pinned prompt").
PinnedOnce ==
    pinned.fits => (pinned.index = ahead) # (pinned.index \in body)

\* What a session shows of its past is whole, whatever is compacted, rolled up and rolled
\* back: every branch once, nothing the model was told left out, and the current prompt
\* neither lost nor doubled.
BlocksAreWhole == Tiled /\ NothingForgotten /\ BranchesApart /\ PinnedOnce
=============================================================================
