----------------------------- MODULE Transcript -----------------------------
(***************************************************************************)
(* The messages one engine sends its model: what each kind of reply adds   *)
(* to the conversation, what a compaction keeps of it, how the input of a  *)
(* summary is shortened while it does not fit, and what a rollback leaves  *)
(* (RLMEngine._run_loop, _complete, _branch_summary, select_tail,          *)
(* hollow_middle). A provider takes only requests in which every tool call *)
(* is followed by its results and no result stands without its call. The   *)
(* system message, which stays first, is left out.                         *)
(***************************************************************************)
EXTENDS Integers, Sequences, FiniteSets

CONSTANTS Limited,        \* max_tokens is not null
          MaxAttempts,    \* max_compaction_attempts
          MaxCompactions, \* max_compactions
          MaxPrompts,     \* bound: prompts of the session
          MaxLength       \* bound: messages of a context that still grows

VARIABLES
    context,   \* Session.messages
    opening,   \* the position of the branch's first message
    lastGood,  \* _last_good
    floor,     \* _compacted
    steering,  \* _steering_applied, as a number of messages
    before,    \* what _prompt reads before its try
    stage,     \* where the prompt is
    sent,      \* the messages of the request in flight
    snapshot,  \* a summary's other input, or <<>> when it is used up
    attempt,   \* a summary's attempts, and whether a failed call is asked again
    compacted, \* compactions of the session
    spent,     \* the completion tokens have reached max_tokens
    prompted   \* prompts begun

branchVars == <<context, opening, lastGood, floor>>
promptVars == <<steering, before, prompted>>
sideVars == <<snapshot, attempt>>
talkVars == <<branchVars, promptVars, stage, sent, sideVars, compacted, spent>>
----------------------------------------------------------------------------
\* A call's id; an id may come back once no message of the context has it.
Told == [role |-> "user", calls |-> {}]
Omitted == [role |-> "omitted", calls |-> {}]   \* a user message: OMITTED_CONTEXT
Said(calls) == [role |-> "assistant", calls |-> calls]
ResultOf(call) == [role |-> "tool", calls |-> {call}]

\* The least id that, with the next one, no message of the context has.
NewCalls ==
    LET unused == {c \in 0 .. 2 * Len(context) :
                      \A i \in 1 .. Len(context) : {c, c + 1} \cap context[i].calls = {}}
    IN {c \in unused : \A d \in unused : c <= d}

Branch == [context |-> context, opening |-> opening, lastGood |-> lastGood, floor |-> floor]

InitTalk ==
    /\ context = <<>> /\ opening = 1 /\ lastGood = 0 /\ floor = FALSE
    /\ steering = 0 /\ before = Branch
    /\ stage = "idle"
    /\ sent = <<>> /\ snapshot = <<>>
    /\ attempt = [tries |-> 0, again |-> FALSE]
    /\ compacted = 0 /\ spent = FALSE /\ prompted = 0

\* _prompt: what a rollback restores is read, and the prompt is logged.
TakePrompt ==
    /\ stage = "idle" /\ prompted < MaxPrompts
    /\ prompted' = prompted + 1
    /\ before' = Branch /\ steering' = 0
    /\ context' = Append(context, Told)
    /\ lastGood' = Len(context')
    /\ stage' = "turn"
    /\ UNCHANGED <<opening, floor, sent, sideVars, compacted, spent>>

\* A message for the model at a boundary: steering, an instruction, which also counts
\* as fitting, or a notice.
Hears(kind) ==
    /\ stage = "turn" /\ Len(context) < MaxLength
    /\ context' = Append(context, Told)
    /\ steering' = IF kind = "steering" THEN steering + 1 ELSE steering
    /\ lastGood' = IF kind = "instruction" THEN Len(context') ELSE lastGood
    /\ UNCHANGED <<opening, floor, before, prompted, stage, sent, sideVars, compacted, spent>>

\* A tree cap is spent: the prompt ends before it asks the model.
StopAtCap ==
    /\ stage = "turn"
    /\ stage' = "idle"
    /\ UNCHANGED <<branchVars, promptVars, sent, sideVars, compacted, spent>>

AskModel ==
    /\ stage = "turn" /\ Len(context) < MaxLength
    /\ sent' = context
    /\ stage' = "asked"
    /\ UNCHANGED <<branchVars, promptVars, sideVars, compacted, spent>>

\* What one more reply may make of the tokens spent.
Spends == spent' \in IF Limited THEN {spent, TRUE} ELSE {FALSE}

\* A reply is kept: it is logged, with the results that follow at once. A reply to the
\* first request that left room makes its messages a fallback for a summary.
Keep(messages, next) ==
    /\ stage \in {"asked", "again"}
    /\ context' = context \o messages
    /\ lastGood' \in IF stage = "asked" THEN {lastGood, Len(context)} ELSE {lastGood}
    /\ stage' = next /\ sent' = <<>>
    /\ UNCHANGED <<opening, floor, promptVars, sideVars, compacted>>

\* Several tool calls, or one whose arguments are not JSON: every call is answered by
\* an error, and the loop goes on whatever was spent.
RefuseCalls(several) ==
    /\ \E call \in NewCalls :
           Keep(IF several
                THEN <<Said({call, call + 1}), ResultOf(call), ResultOf(call + 1)>>
                ELSE <<Said({call}), ResultOf(call)>>, "turn")
    /\ Spends

\* max_tokens is reached: the prompt ends with the reply, before a tool call in it is run.
StopAtBudget(calls) ==
    /\ Keep(<<Said(calls)>>, "idle")
    /\ Limited /\ spent' = TRUE

\* A reply without tool calls: the answer, or a nudge or a message that waits goes on.
Answer(next) ==
    /\ Keep(<<Said({})>>, next)
    /\ Spends /\ ~spent'

CallTool ==
    /\ \E call \in NewCalls : Keep(<<Said({call})>>, "tool")
    /\ Spends /\ ~spent'

\* The tool's result, and then perhaps a compaction because the context is full.
Finish(full) ==
    /\ stage = "tool"
    /\ \E call \in context[Len(context)].calls : context' = Append(context, ResultOf(call))
    /\ full => compacted < MaxCompactions
    /\ stage' = IF full THEN "full" ELSE "turn"
    /\ attempt' = [attempt EXCEPT !.again = FALSE]
    /\ UNCHANGED <<opening, lastGood, floor, promptVars, sent, snapshot, compacted, spent>>

\* Some history beyond the task exists.
Compactable == \E i \in 1 .. Len(context) :
                   context[i].role # "user" \/ \E j \in 1 .. i - 1 : context[j].role = "user"

\* The request does not fit, or the reply was cut off by the window: it is asked again
\* after a compaction. Without anything to compact the prompt fails or ends.
NoRoom ==
    /\ stage = "asked"
    /\ compacted < MaxCompactions /\ Compactable
    /\ stage' = "full" /\ sent' = <<>>
    /\ attempt' = [attempt EXCEPT !.again = TRUE]
    /\ Spends
    /\ UNCHANGED <<branchVars, promptVars, snapshot, compacted>>

NothingToCompact ==
    /\ stage = "asked"
    /\ compacted < MaxCompactions /\ ~Compactable /\ floor
    /\ stage' = "idle" /\ sent' = <<>>
    /\ UNCHANGED <<branchVars, promptVars, sideVars, compacted, spent>>

\* The window that was rebuilt still does not fit.
StillNoRoom ==
    /\ stage = "again"
    /\ stage' = "idle" /\ sent' = <<>>
    /\ UNCHANGED <<branchVars, promptVars, sideVars, compacted, spent>>
----------------------------------------------------------------------------
\* _compact_branch: the first summary request has the whole context.
BeginSummary ==
    /\ stage = "full"
    /\ sent' = Append(context, Told)
    /\ snapshot' = SubSeq(context, 1, lastGood)
    /\ attempt' = [attempt EXCEPT !.tries = 1]
    /\ stage' = "summary"
    /\ UNCHANGED <<branchVars, promptVars, compacted, spent>>

Front(s) == SubSeq(s, 1, Len(s) - 1)

\* The first n messages without what stands for an earlier hole, for every n.
KeptOf(input) ==
    LET kept[n \in 0 .. Len(input)] ==
            IF n = 0 THEN <<>>
            ELSE IF input[n] = Omitted THEN kept[n - 1] ELSE Append(kept[n - 1], input[n])
    IN kept

\* hollow_middle: a hole in the middle, of whole exchanges, that leaves both ends.
Hollows(input) ==
    LET kept == KeptOf(input)[Len(input)]
        starts == {i \in 1 .. Len(kept) : i = 1 \/ kept[i].role # "tool"}
        middle == CHOOSE i \in starts :
                      Cardinality({j \in starts : j < i}) = Cardinality(starts) \div 2
    IN IF Cardinality(starts) < 3
       THEN {input}
       ELSE {SubSeq(kept, 1, l - 1) \o <<Omitted>> \o SubSeq(kept, r, Len(kept)) :
                l \in {i \in starts : 1 < i /\ i <= middle}, r \in {i \in starts : i > middle}}

\* _shorter_summary_input: what is asked next, and the snapshot that is left.
Shorter(input, other) ==
    LET next == {[input |-> s, other |-> other] : s \in Hollows(input) \ {input}}
    IN IF next # {} THEN next
       ELSE IF other \notin {<<>>, input} THEN {[input |-> other, other |-> <<>>]} ELSE {}

\* The summary request does not fit, or its reply was cut off: a shorter one is sent.
AskShorter ==
    /\ stage = "summary" /\ attempt.tries < MaxAttempts
    /\ \E s \in Shorter(Front(sent), snapshot) :
           /\ sent' = Append(s.input, Told)
           /\ snapshot' = s.other
    /\ attempt' = [attempt EXCEPT !.tries = @ + 1]
    /\ Spends
    /\ UNCHANGED <<branchVars, promptVars, stage, compacted>>

\* An empty reply, or one that calls a tool, is sampled again.
AskSummaryAgain ==
    /\ stage = "summary" /\ attempt.tries < MaxAttempts
    /\ attempt' = [attempt EXCEPT !.tries = @ + 1]
    /\ Spends
    /\ UNCHANGED <<branchVars, promptVars, stage, sent, snapshot, compacted>>

\* CompactionFailed ends the prompt: no attempt is left, or nothing shorter to send.
NoSummary ==
    /\ stage = "summary"
    /\ attempt.tries = MaxAttempts \/ Shorter(Front(sent), snapshot) = {}
    /\ stage' = "idle" /\ sent' = <<>> /\ snapshot' = <<>>
    /\ attempt' = [attempt EXCEPT !.tries = 0]
    /\ Spends
    /\ UNCHANGED <<branchVars, promptVars, compacted>>

\* A mutant of the next definition: the tail may open with a tool result.
TailsAnywhere == opening + 1 .. Len(context) + 1

\* select_tail: the newest messages that fit, without the results that would come first.
Tails ==
    {Len(context) + 1} \union
    {start \in opening + 1 .. Len(context) : context[start].role # "tool"}

\* The prompt, when it is kept, the compaction message and the tail are the new window;
\* a request that did not fit is sent again.
InstallSummary ==
    /\ stage = "summary"
    /\ \E start \in Tails, ahead \in {<<>>, <<Told>>} :
           /\ context' = ahead \o <<Told>> \o SubSeq(context, start, Len(context))
           /\ opening' = Len(ahead) + 2
           /\ lastGood' = Len(context')
    /\ floor' = TRUE
    /\ sent' = IF attempt.again THEN context' ELSE <<>>
    /\ stage' = IF attempt.again THEN "again" ELSE "turn"
    /\ attempt' = [attempt EXCEPT !.tries = 0] /\ snapshot' = <<>>
    /\ compacted' = compacted + 1
    /\ Spends
    /\ UNCHANGED promptVars

\* The prompt fails or is cancelled, while a request or a tool is under way: what it
\* added is rolled back, except the steering it applied.
RollBack ==
    /\ stage \notin {"idle", "full"}
    /\ context' = before.context \o [i \in 1 .. steering |-> Told]
    /\ lastGood' = IF steering > 0 THEN Len(context') ELSE before.lastGood
    /\ opening' = before.opening /\ floor' = before.floor
    /\ stage' = "idle" /\ sent' = <<>> /\ snapshot' = <<>>
    /\ attempt' = [attempt EXCEPT !.tries = 0]
    /\ UNCHANGED <<promptVars, compacted, spent>>

NextTalk ==
    \/ TakePrompt
    \/ \E kind \in {"steering", "instruction", "notice"} : Hears(kind)
    \/ StopAtCap \/ AskModel
    \/ \E several \in BOOLEAN : RefuseCalls(several)
    \/ \E calls \in {{}} \union {{call} : call \in NewCalls} : StopAtBudget(calls)
    \/ \E next \in {"idle", "turn"} : Answer(next)
    \/ CallTool \/ \E full \in BOOLEAN : Finish(full)
    \/ NoRoom \/ NothingToCompact \/ StillNoRoom
    \/ BeginSummary \/ AskShorter \/ AskSummaryAgain \/ NoSummary \/ InstallSummary
    \/ RollBack

SpecTalk == InitTalk /\ [][NextTalk]_talkVars
----------------------------------------------------------------------------
Answers(m, i) == m[i].role = "tool"

\* No request holds a tool result without its call, whatever a compaction dropped, a
\* summary left out or a rollback took back: in front of every result, with only other
\* results of the same message between, is the reply that made the call.
NoResultOrphaned ==
    \A i \in 1 .. Len(sent) : Answers(sent, i) =>
        \E j \in 1 .. i - 1 :
            /\ sent[j].role = "assistant" /\ sent[i].calls \subseteq sent[j].calls
            /\ \A k \in j + 1 .. i - 1 : Answers(sent, k) /\ sent[k].calls # sent[i].calls

\* "Tool results appear on the next LLM request after their tool call" (tests/conftest.py):
\* in every request each call is followed by its results, before any other message.
EveryCallAnswered ==
    \A i \in 1 .. Len(sent) : \A c \in sent[i].calls : sent[i].role = "assistant" =>
        \E j \in i + 1 .. Len(sent) :
            sent[j] = ResultOf(c) /\ \A k \in i + 1 .. j : Answers(sent, k)

=============================================================================
